---------------------------- MODULE Consolidation ----------------------------
(***************************************************************************)
(* Memory consolidation of the desktop (memory_consolidation.rs,           *)
(* experience_recorder.rs): live runs on threads of their own, each with a *)
(* call to a model, the user's manual runs, single operations and          *)
(* rejections, and the recording of events, all on one MemoryStore.  Any   *)
(* statement may fail (a locked or full database) and the program may      *)
(* crash between two statements.                                           *)
(***************************************************************************)
EXTENDS MemoryStore

CONSTANTS
    Jobs,      \* the jobs each thread is started for
    MaxFaults  \* bound: statements that fail and crashes of the program

JobKinds == {"live", "manual", "apply", "reject", "record"}

ASSUME ConsolidationAssumption ==
    /\ Jobs \in [Threads -> SUBSET JobKinds]
    /\ MaxFaults \in Nat

VARIABLES
    pc,      \* where each thread is
    job,     \* what it was started for
    packet,  \* the events its operations may cite
    op,      \* the operation it applies
    faults   \* the statements that failed, and the crashes

threadVars == <<pc, job, packet, op>>
vars == <<storeVars, threadVars, faults>>

NoOp == [what |-> None, ref |-> None, target |-> NoId, result |-> NoId]

Init ==
    /\ StoreInit
    /\ pc = [t \in Threads |-> "idle"]
    /\ job = [t \in Threads |-> "none"]
    /\ packet = [t \in Threads |-> {}]
    /\ op = [t \in Threads |-> NoOp]
    /\ faults = 0

Goes(t, from, to) == pc[t] = from /\ pc' = [pc EXCEPT ![t] = to]
Only(t, from, to) == Goes(t, from, to) /\ UNCHANGED <<job, packet, op>>
NoFault == UNCHANGED faults
Fault == faults < MaxFaults /\ faults' = faults + 1

\* The thread ends, and with it what it knew; another job may take its place
Ends(t, from) ==
    /\ Goes(t, from, "idle")
    /\ job' = [job EXCEPT ![t] = "none"]
    /\ packet' = [packet EXCEPT ![t] = {}]
    /\ op' = [op EXCEPT ![t] = NoOp]

\* After an operation: a run takes the next one of its list, or the list is
\* done; a command returns its result
Applied(t, from) ==
    \/ /\ job[t] \in {"live", "manual"}
       /\ \E to \in {"next", "complete"} : Goes(t, from, to)
       /\ op' = [op EXCEPT ![t] = NoOp]
       /\ UNCHANGED <<job, packet>>
    \/ job[t] \in {"apply", "reject"} /\ Ends(t, from)

\* After an error: a live run logs it and goes on, a manual run is marked as
\* failed, a command returns the error
Refused(t, from) ==
    IF job[t] = "manual" THEN Only(t, from, "fail") ELSE Applied(t, from)

----------------------------------------------------------------------------
\* Starting a job

FirstPlace(j) ==
    CASE j \in {"live", "manual"} -> "packet"
      [] j \in {"apply", "reject"} -> "next"
      [] j = "record" -> "record"

\* open_memory_db with its migrations; the packet of a single operation comes
\* with the call and may cite anything
Begin(t, j) ==
    /\ Goes(t, "idle", FirstPlace(j))
    /\ job' = [job EXCEPT ![t] = j]
    /\ \E sources \in IF j = "apply" THEN SUBSET Events ELSE {{}} :
          packet' = [packet EXCEPT ![t] = sources]
    /\ Backfill
    /\ UNCHANGED <<rows, life, over, text, author, events, feedback, runs, op>>
    /\ NoFault

\* build_consolidation_packet_from_store
ReadPacket(t) ==
    /\ events # {} \/ feedback # {}
    /\ Goes(t, "packet", "create_run")
    /\ packet' = [packet EXCEPT ![t] = events]
    /\ UNCHANGED <<storeVars, job, op>>
    /\ NoFault

\* "sources must be non-empty"
NothingToConsolidate(t) ==
    /\ events = {} /\ feedback = {}
    /\ Ends(t, "packet")
    /\ UNCHANGED storeVars
    /\ NoFault

CreateRun(t) ==
    /\ Only(t, "create_run", IF job[t] = "live" THEN "model" ELSE "next")
    /\ SetRun(t, "running")
    /\ NoFault

\* record_experience; the source_ref is the primary key
Record(t) ==
    /\ Ends(t, "record")
    /\ \E e \in Events : events' = events \cup {e}
    /\ UNCHANGED <<rows, life, over, text, author, operations, feedback, runs>>
    /\ NoFault

----------------------------------------------------------------------------
\* call_consolidation_model

\* Mutant: an unreadable answer ends the thread and not the run.
ModelFailsQuietly(t) ==
    /\ Ends(t, "model")
    /\ UNCHANGED storeVars
    /\ NoFault

\* the call fails, or the answer is no list of known operations
ModelFails(t) ==
    /\ Only(t, "model", "fail")
    /\ UNCHANGED storeVars
    /\ NoFault

\* a list of operations; or an empty text, or an empty list
ModelAnswers(t) ==
    /\ \E to \in {"next", "complete"} : Only(t, "model", to)
    /\ UNCHANGED storeVars
    /\ NoFault

----------------------------------------------------------------------------
\* apply_memory_operation_impl, and reject_agent_memory_impl: the operations
\* of a list are chosen where they are applied

Appliers == {"live", "manual", "apply"}

\* the sources a valid operation may cite, the reasons of a user's rejection
Grounds(t) == IF job[t] = "reject" THEN Reasons ELSE packet[t]

\* refused by validate_memory_operation
RefuseInvalid(t) ==
    /\ job[t] \in Appliers
    /\ Refused(t, "next")
    /\ UNCHANGED storeVars
    /\ NoFault

\* an abstention; or create_memory finds the memory there
NothingToDo(t) ==
    /\ job[t] \in Appliers
    /\ Applied(t, "next")
    /\ UNCHANGED storeVars
    /\ NoFault

\* create_memory: the search.  The INSERT is another statement
FindExact(t) ==
    /\ job[t] \in Appliers
    /\ \E c \in Contents, e \in packet[t] :
          /\ ~ExactActive(c, e)
          /\ op' = [op EXCEPT ![t] = [NoOp EXCEPT !.what = c, !.ref = e]]
    /\ Goes(t, "next", "insert")
    /\ UNCHANGED <<storeVars, job, packet>>
    /\ NoFault

Insert(t) ==
    /\ InsertMemory(t, op[t].what, op[t].ref, NoId)
    /\ life' = [life EXCEPT ![rows'] = "active"]
    /\ Goes(t, "insert", "log")
    /\ op' = [op EXCEPT ![t].result = rows']
    /\ UNCHANGED <<operations, events, feedback, runs, job, packet>>
    /\ NoFault

LogInsert(t) ==
    /\ pc[t] = "log"
    /\ LogOperation("remembered", NoId, op[t].result)
    /\ Applied(t, "log")
    /\ UNCHANGED <<rows, life, over, text, author, events, feedback, runs>>
    /\ NoFault

\* remove_or_supersede with a layer and a body
SupersedeOld(t) ==
    /\ job[t] \in Appliers
    /\ \E i \in Ids, c \in Contents, e \in packet[t] :
          /\ Supersede(t, i, c, e)
          /\ op' = [op EXCEPT ![t] = [NoOp EXCEPT !.target = i, !.result = rows']]
    /\ Goes(t, "next", "feedback")
    /\ UNCHANGED <<job, packet>>
    /\ NoFault

\* remove_or_supersede without them; or the user's rejection
RejectOld(t) ==
    /\ \E i \in Ids, r \in Grounds(t) :
          /\ Reject(i)
          /\ op' = [op EXCEPT ![t] = [NoOp EXCEPT !.target = i, !.ref = r]]
    /\ Goes(t, "next", "log_reject")
    /\ UNCHANGED <<job, packet>>
    /\ NoFault

\* "agent memory not found"
NoSuchMemory(t) ==
    /\ Grounds(t) # {}
    /\ Refused(t, "next")
    /\ UNCHANGED storeVars
    /\ NoFault

\* Mutant: the feedback is recorded without the operation.
LogRejectForgotten(t) ==
    /\ Only(t, "log_reject", "feedback")
    /\ UNCHANGED storeVars
    /\ NoFault

LogReject(t) ==
    /\ pc[t] = "log_reject"
    /\ LogOperation("rejected", op[t].target, op[t].target)
    /\ Only(t, "log_reject", "feedback")
    /\ UNCHANGED <<rows, life, over, text, author, events, feedback, runs>>
    /\ NoFault

FeedbackOf(t) ==
    IF op[t].result # NoId THEN Feedback("superseded", op[t].target, op[t].result)
                           ELSE Feedback("rejected", op[t].target, op[t].ref)

\* record_memory_feedback_with_store: the row's key is made of what it says
RecordFeedback(t) ==
    /\ pc[t] = "feedback"
    /\ op[t].ref \notin Forbidden
    /\ FeedbackOf(t) \notin feedback
    /\ feedback' = feedback \cup {FeedbackOf(t)}
    /\ Applied(t, "feedback")
    /\ UNCHANGED <<rows, life, over, text, author, operations, events, runs>>
    /\ NoFault

\* the change is made and logged, and the operation fails all the same
FeedbackRefused(t) ==
    /\ op[t].ref \in Forbidden \/ FeedbackOf(t) \in feedback
    /\ Refused(t, "feedback")
    /\ UNCHANGED storeVars
    /\ NoFault

\* a statement fails, or the transaction; a full table fails every INSERT
OperationFails(t) ==
    /\ \E from \in {"next", "insert", "log", "log_reject", "feedback"} : Refused(t, from)
    /\ UNCHANGED storeVars
    /\ IF pc[t] = "insert" /\ Full THEN NoFault ELSE Fault

Apply(t) ==
    \/ RefuseInvalid(t) \/ NothingToDo(t) \/ NoSuchMemory(t)
    \/ FindExact(t) \/ Insert(t) \/ LogInsert(t)
    \/ SupersedeOld(t)
    \/ RejectOld(t) \/ LogReject(t)
    \/ RecordFeedback(t) \/ FeedbackRefused(t)
    \/ OperationFails(t)

----------------------------------------------------------------------------

EndRun(t) ==
    /\ \/ Ends(t, "complete") /\ SetRun(t, "completed")
       \/ Ends(t, "fail") /\ SetRun(t, "failed")
    /\ NoFault

\* a statement of the run itself
RunFails(t) ==
    /\ \E from \in {"packet", "record", "create_run", "complete", "fail"} : Ends(t, from)
    /\ UNCHANGED storeVars
    /\ Fault

\* Every thread ends with the program, which is started again
Crash ==
    /\ Fault
    /\ pc' = [t \in Threads |-> "idle"]
    /\ job' = [t \in Threads |-> "none"]
    /\ packet' = [t \in Threads |-> {}]
    /\ op' = [t \in Threads |-> NoOp]
    /\ UNCHANGED storeVars

Work(t) ==
    \/ ReadPacket(t) \/ NothingToConsolidate(t) \/ CreateRun(t)
    \/ ModelFails(t) \/ ModelAnswers(t)
    \/ Apply(t)
    \/ Record(t)
    \/ EndRun(t) \/ RunFails(t)

Next ==
    \/ \E t \in Threads : \E j \in Jobs[t] : Begin(t, j)
    \/ \E t \in Threads : Work(t)
    \/ Crash

Spec == Init /\ [][Next]_vars

----------------------------------------------------------------------------
\* Properties

Places == {"idle", "packet", "create_run", "record", "model", "next", "insert", "log",
           "log_reject", "feedback", "complete", "fail"}
Ops == [what : Contents \cup {None}, ref : Events \cup Reasons \cup {None},
        target : Ids \cup {NoId}, result : Ids \cup {NoId}]
Feedbacks == [kind : {"superseded", "rejected"}, memory : Ids, cause : Ids \cup Events \cup Reasons]

\* Every variable has the type of the code's column or local.
TypeOK ==
    /\ rows \in 0 .. MaxMemories
    /\ life \in [Ids -> Lifecycles]
    /\ over \in [Ids -> Ids \cup {NoId}]
    /\ text \in [Ids -> Texts]
    /\ author \in [Ids -> Threads \cup {None}]
    /\ operations \subseteq Operations
    /\ events \subseteq Events
    /\ feedback \subseteq Feedbacks
    /\ runs \in [Threads -> {"none", "running", "completed", "failed"}]
    /\ pc \in [Threads -> Places]
    /\ job \in [Threads -> JobKinds \cup {"none"}]
    /\ packet \in [Threads -> SUBSET Events]
    /\ op \in [Threads -> Ops]
    /\ faults \in 0 .. MaxFaults

\* A memory that is superseded has the memory that replaced it, and both
\* halves of the replacement are in the operation log: no thread, failure or
\* crash comes between them.
SupersededHasSuccessor ==
    \A i \in Ids : life[i] = "superseded" =>
        /\ Operation("superseded", i, i) \in operations
        /\ \E j \in Ids : over[j] = i /\ Operation("remembered", i, j) \in operations

\* A memory another one replaced is never recalled beside it.
SuccessorReplaces ==
    \A j \in Ids : over[j] # NoId => over[j] < j /\ life[over[j]] \in {"superseded", "rejected"}

\* What the feedback tells the next consolidation did happen: the memory was
\* changed in this way, the change is logged and nothing brought it back.
FeedbackIsTrue ==
    \A f \in feedback :
        /\ life[f.memory] \in {"superseded", "rejected"}
        /\ Operation(f.kind, f.memory, f.memory) \in operations
        /\ f.kind = "superseded" => f.cause \in Ids /\ over[f.cause] = f.memory

\* A thread that consolidates the same experience again adds no second copy
\* of an active memory, whatever others do between its search and its INSERT;
\* two threads may (a memory that replaces another is not searched for).
RetryDoesNotDuplicate ==
    \A i, j \in Ids :
        /\ i < j /\ over[j] = NoId
        /\ life[i] = "active" /\ life[j] = "active" /\ text[i] = text[j]
        => author[i] # author[j]

\* Reading the memories is as simple as MemoryLifecycle says.
Lifecycle == INSTANCE MemoryLifecycle WITH Ids <- Ids, life <- life, over <- over
ImplementsMemoryLifecycle == Lifecycle!LifeSpec

\* Where a thread has a run to end: from its creation to its last statement
HasRun(t) ==
    \/ pc[t] \in {"model", "complete", "fail"}
    \/ job[t] \in {"live", "manual"} /\ pc[t] \in {"next", "insert", "log", "log_reject", "feedback"}

\* Operations are applied only while their run is "running", and no refused
\* operation, failed model call or unreadable answer leaves a run behind
\* "running": only a crash or a failed statement does.
RunningIsWorkedOn ==
    \A t \in Threads :
        /\ HasRun(t) => runs[t] = "running"
        /\ faults = 0 /\ runs[t] = "running" => HasRun(t)
=============================================================================

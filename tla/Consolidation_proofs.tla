------------------------ MODULE Consolidation_proofs ------------------------
(***************************************************************************)
(* Theorems about memory consolidation, for every number of threads,       *)
(* events, contents, memories and faults.                                  *)
(*                                                                         *)
(* Few steps change a memory, so the first part says which, and proves     *)
(* what they keep without a word about threads: memories are dense and a   *)
(* replaced one is gone.  After the types comes what no step takes back;   *)
(* each later part proves one property from an invariant of its own.       *)
(***************************************************************************)
EXTENDS Consolidation, TLAPS

-----------------------------------------------------------------------------
(* The steps that change memories *)

Gone == {"superseded", "rejected"}

Quiet == UNCHANGED <<rows, life, over, text, author>>

Inserts(t) ==
    /\ pc[t] = "insert"
    /\ InsertMemory(t, op[t].what, op[t].ref, NoId)
    /\ life' = [life EXCEPT ![rows'] = "active"]

Supersedes(t) == \E i \in Ids : \E c, e : Supersede(t, i, c, e)

LEMMA StoreCases ==
    ASSUME Next
    PROVE  \/ Quiet
           \/ \E t \in Threads : Inserts(t)
           \/ \E t \in Threads : Supersedes(t)
           \/ \E i \in Ids : Reject(i)
<1>1. CASE \E t \in Threads : \E j \in Jobs[t] : Begin(t, j)
  BY <1>1 DEF Begin, Quiet
<1>2. CASE Crash
  BY <1>2 DEF Crash, Quiet, storeVars
<1>3. ASSUME NEW t \in Threads, Work(t)
      PROVE  Quiet \/ Inserts(t) \/ Supersedes(t) \/ \E i \in Ids : Reject(i)
  <2>1. CASE Apply(t)
    <3>1. CASE Insert(t)
      BY <3>1 DEF Insert, Inserts, Goes
    <3>2. CASE SupersedeOld(t)
      BY <3>2 DEF SupersedeOld, Supersedes
    <3>3. CASE RejectOld(t)
      BY <3>3 DEF RejectOld
    <3>4. CASE \/ RefuseInvalid(t) \/ NothingToDo(t) \/ NoSuchMemory(t) \/ FindExact(t)
               \/ LogInsert(t) \/ LogReject(t) \/ RecordFeedback(t) \/ FeedbackRefused(t)
               \/ OperationFails(t)
      BY <3>4 DEF RefuseInvalid, NothingToDo, NoSuchMemory, FindExact, LogInsert, LogReject,
         RecordFeedback, FeedbackRefused, OperationFails, Quiet, storeVars
    <3> QED BY <2>1, <3>1, <3>2, <3>3, <3>4 DEF Apply
  <2>2. CASE \/ ReadPacket(t) \/ NothingToConsolidate(t) \/ CreateRun(t) \/ ModelFails(t)
             \/ ModelAnswers(t) \/ Record(t) \/ EndRun(t) \/ RunFails(t)
    BY <2>2 DEF ReadPacket, NothingToConsolidate, CreateRun, ModelFails, ModelAnswers,
       Record, EndRun, RunFails, SetRun, Quiet, storeVars
  <2> QED BY <1>3, <2>1, <2>2 DEF Work
<1> QED BY <1>1, <1>2, <1>3 DEF Next

-----------------------------------------------------------------------------
(* Ids are given in order, and a memory that was replaced is gone *)

RowsAreDense == \A i \in Ids : Exists(i) <=> i <= rows

StoreInv ==
    /\ rows \in 0 .. MaxMemories
    /\ life \in [Ids -> Lifecycles]
    /\ over \in [Ids -> Ids \cup {NoId}]
    /\ RowsAreDense
    /\ SuccessorReplaces

LEMMA InitStoreInv == Init => StoreInv
<1> SUFFICES ASSUME Init PROVE StoreInv
  OBVIOUS
<1> USE StoreAssumption
<1>1. rows \in 0 .. MaxMemories /\ over \in [Ids -> Ids \cup {NoId}] /\ SuccessorReplaces
  BY DEF Init, StoreInit, Ids, NoId, SuccessorReplaces
<1>2. life \in [Ids -> Lifecycles] /\ RowsAreDense
  BY <1>1 DEF Init, StoreInit, Ids, Lifecycles, RowsAreDense, Exists
<1> QED BY <1>1, <1>2 DEF StoreInv

LEMMA NewRow ==
    ASSUME StoreInv, ~Full
    PROVE  /\ rows + 1 \in Ids /\ rows + 1 \in 0 .. MaxMemories
           /\ life[rows + 1] = "absent"
           /\ \A i \in Ids : i <= rows + 1 <=> i <= rows \/ i = rows + 1
           /\ \A j \in Ids : over[j] # rows + 1
<1> USE StoreAssumption
<1>1. rows + 1 \in Ids /\ rows + 1 \in 0 .. MaxMemories /\ rows \in Nat
  BY DEF StoreInv, Full, Ids
<1>2. \A i \in Ids : i <= rows + 1 <=> i <= rows \/ i = rows + 1
  BY <1>1 DEF Ids
<1>3. life[rows + 1] = "absent"
  BY <1>1 DEF StoreInv, RowsAreDense, Exists, Ids
<1>4. ASSUME NEW j \in Ids, over[j] = rows + 1 PROVE FALSE
  BY <1>1, <1>3, <1>4 DEF StoreInv, SuccessorReplaces, NoId, Ids
<1> QED BY <1>1, <1>2, <1>3, <1>4

LEMMA StoreInvStep == StoreInv /\ [Next]_vars => StoreInv'
<1> SUFFICES ASSUME StoreInv, [Next]_vars PROVE StoreInv'
  OBVIOUS
<1>1. CASE Quiet
  BY <1>1 DEF Quiet, StoreInv, RowsAreDense, SuccessorReplaces, Exists
<1>2. ASSUME NEW t \in Threads, Inserts(t) PROVE StoreInv'
  <2>1. /\ ~Full /\ rows' = rows + 1
        /\ over' = [over EXCEPT ![rows + 1] = NoId]
        /\ life' = [life EXCEPT ![rows + 1] = "active"]
    BY <1>2 DEF Inserts, InsertMemory
  <2>2. rows' \in 0 .. MaxMemories /\ life' \in [Ids -> Lifecycles] /\ over' \in [Ids -> Ids \cup {NoId}]
    BY <2>1, NewRow DEF StoreInv, Lifecycles
  <2>3. RowsAreDense'
    BY <2>1, NewRow DEF StoreInv, RowsAreDense, Exists
  <2>4. SuccessorReplaces'
    BY <2>1, NewRow DEF StoreInv, SuccessorReplaces, NoId, Ids
  <2> QED BY <2>2, <2>3, <2>4 DEF StoreInv
<1>3. ASSUME NEW t \in Threads, Supersedes(t) PROVE StoreInv'
  <2>1. PICK i \in Ids : \E c, e : Supersede(t, i, c, e)
    BY <1>3 DEF Supersedes
  <2>2. /\ ~Full /\ rows' = rows + 1
        /\ over' = [over EXCEPT ![rows + 1] = i]
        /\ life' = [life EXCEPT ![rows + 1] = "active", ![i] = "superseded"]
        /\ Exists(i)
    BY <2>1 DEF Supersede, InsertMemory
  <2>3. i # rows + 1 /\ i <= rows /\ i < rows + 1
    BY <2>2, NewRow DEF Exists, StoreInv, RowsAreDense, Ids
  <2>4. rows' \in 0 .. MaxMemories /\ life' \in [Ids -> Lifecycles] /\ over' \in [Ids -> Ids \cup {NoId}]
    BY <2>2, NewRow DEF StoreInv, Lifecycles
  <2>5. RowsAreDense'
    BY <2>2, <2>3, NewRow DEF StoreInv, RowsAreDense, Exists
  <2>6. SuccessorReplaces'
    BY <2>2, <2>3, NewRow DEF StoreInv, SuccessorReplaces, NoId, Ids
  <2> QED BY <2>4, <2>5, <2>6 DEF StoreInv
<1>4. ASSUME NEW i \in Ids, Reject(i) PROVE StoreInv'
  <2>1. /\ life' = [life EXCEPT ![i] = "rejected"] /\ Exists(i)
        /\ rows' = rows /\ over' = over
    BY <1>4 DEF Reject
  <2>2. life' \in [Ids -> Lifecycles] /\ RowsAreDense'
    BY <2>1 DEF StoreInv, Lifecycles, RowsAreDense, Exists
  <2>3. SuccessorReplaces'
    BY <2>1 DEF StoreInv, SuccessorReplaces, NoId, Ids
  <2> QED BY <2>1, <2>2, <2>3 DEF StoreInv
<1>5. CASE UNCHANGED vars
  BY <1>1, <1>5 DEF vars, storeVars, Quiet
<1> QED BY <1>1, <1>2, <1>3, <1>4, <1>5, StoreCases

LEMMA StoreInvariant == Spec => []StoreInv
BY InitStoreInv, StoreInvStep, PTL DEF Spec

(* A replaced memory is never active again beside the memory that replaced *)
(* it, whichever threads supersede and reject it.                          *)
THEOREM ReplacedMemoriesAreGone == Spec => []SuccessorReplaces
<1>1. StoreInv => SuccessorReplaces
  BY DEF StoreInv
<1> QED BY <1>1, StoreInvariant, PTL

-----------------------------------------------------------------------------
(* Readers may rely on MemoryLifecycle *)

LEMMA InitLifecycle == Init => Lifecycle!LifeInit
<1> SUFFICES ASSUME Init PROVE Lifecycle!LifeInit
  OBVIOUS
<1>1. life \in [Ids -> {"absent", "active"}]
  BY DEF Init, StoreInit
<1>2. over = [i \in Ids |-> 0]
  BY DEF Init, StoreInit, NoId
<1> QED BY <1>1, <1>2 DEF Lifecycle!LifeInit

LEMMA LifecycleStep ==
    ASSUME StoreInv, [Next]_vars
    PROVE  [Lifecycle!LifeNext]_(Lifecycle!lifeVars)
<1> USE DEF Lifecycle!LifeNext, Lifecycle!lifeVars
<1>1. CASE Quiet \/ UNCHANGED vars
  BY <1>1 DEF Quiet, vars, storeVars
<1>2. ASSUME NEW t \in Threads, Inserts(t) PROVE Lifecycle!Remember(rows + 1) /\ rows + 1 \in Ids
  BY <1>2, NewRow DEF Inserts, InsertMemory, NoId, Lifecycle!Remember, Lifecycle!New, Lifecycle!Exists
<1>3. ASSUME NEW t \in Threads, Supersedes(t)
      PROVE  rows + 1 \in Ids /\ \E i \in Ids : Lifecycle!Replace(i, rows + 1)
  BY <1>3, NewRow DEF Supersedes, Supersede, InsertMemory, Exists,
     Lifecycle!Replace, Lifecycle!New, Lifecycle!Exists
<1>4. ASSUME NEW i \in Ids, Reject(i) PROVE Lifecycle!Reject(i)
  BY <1>4 DEF Reject, Exists, Lifecycle!Reject, Lifecycle!Exists
<1> QED BY <1>1, <1>2, <1>3, <1>4, StoreCases

(* The store, with all its threads, failures and crashes, implements the   *)
(* abstract life cycle of memories.                                        *)
THEOREM StoreImplementsLifecycle == Spec => ImplementsMemoryLifecycle
<1>1. StoreInv /\ [Next]_vars => [Lifecycle!LifeNext]_(Lifecycle!lifeVars)
  BY LifecycleStep
<1> QED BY <1>1, InitLifecycle, StoreInvariant, PTL DEF Spec, ImplementsMemoryLifecycle, Lifecycle!LifeSpec

-----------------------------------------------------------------------------
(* Type correctness.  What a thread writes into the log and the feedback   *)
(* comes from its operation, so the types of the tables need to know what  *)
(* an operation holds at each place.                                       *)

PendingOp(t) ==
    /\ pc[t] = "insert" => op[t].ref \in Events
    /\ pc[t] = "log" => op[t].result \in Ids
    /\ pc[t] = "log_reject" => op[t].target \in Ids /\ op[t].result = NoId /\ op[t].ref # None
    /\ pc[t] = "feedback" => op[t].target \in Ids /\ (op[t].result = NoId => op[t].ref # None)

ThreadType ==
    /\ pc \in [Threads -> Places]
    /\ job \in [Threads -> JobKinds \cup {"none"}]
    /\ packet \in [Threads -> SUBSET Events]
    /\ op \in [Threads -> Ops]

PendingOps == \A t \in Threads : PendingOp(t)

TypeInv == TypeOK /\ PendingOps

LEMMA NoOpType == NoOp \in Ops /\ \A c \in Contents, e \in Events : [NoOp EXCEPT !.what = c, !.ref = e] \in Ops
BY DEF NoOp, Ops, NoId

\* what SupersedeOld and RejectOld leave to do
Superseding(i, j) == [NoOp EXCEPT !.target = i, !.result = j]
Rejecting(i, r) == [NoOp EXCEPT !.target = i, !.ref = r]

LEMMA SupersedingType ==
    ASSUME NEW i \in Ids, NEW j \in Ids
    PROVE  /\ Superseding(i, j) \in Ops /\ Superseding(i, j).target = i
           /\ Superseding(i, j).result = j /\ Superseding(i, j).ref = None
BY DEF Superseding, NoOp, Ops, NoId

LEMMA RejectingType ==
    ASSUME NEW i \in Ids, NEW r \in Events \cup Reasons
    PROVE  /\ Rejecting(i, r) \in Ops /\ Rejecting(i, r).target = i
           /\ Rejecting(i, r).result = NoId /\ Rejecting(i, r).ref = r
BY DEF Rejecting, NoOp, Ops, NoId

LEMMA OnlyType ==
    ASSUME ThreadType, PendingOps, NEW t \in Threads, NEW from, NEW to \in Places,
           to \notin {"insert", "log", "log_reject", "feedback"}, Only(t, from, to)
    PROVE  ThreadType' /\ PendingOps'
BY DEF Only, Goes, ThreadType, PendingOps, PendingOp

LEMMA SetOpType ==
    ASSUME ThreadType, PendingOps, NEW t \in Threads, NEW from, NEW to \in Places, NEW o \in Ops,
           Goes(t, from, to), op' = [op EXCEPT ![t] = o], UNCHANGED <<job, packet>>,
           to = "insert" => o.ref \in Events,
           to = "log" => o.result \in Ids,
           to = "log_reject" => o.target \in Ids /\ o.result = NoId /\ o.ref # None,
           to = "feedback" => o.target \in Ids /\ (o.result = NoId => o.ref # None)
    PROVE  ThreadType' /\ PendingOps'
<1>1. ThreadType'
  BY DEF Goes, ThreadType
<1>2. PendingOps'
  BY DEF Goes, ThreadType, PendingOps, PendingOp
<1> QED BY <1>1, <1>2

LEMMA EndsType ==
    ASSUME ThreadType, PendingOps, NEW t \in Threads, NEW from, Ends(t, from)
    PROVE  ThreadType' /\ PendingOps'
<1>1. ThreadType'
  BY NoOpType DEF Ends, Goes, ThreadType, Places
<1>2. PendingOps'
  BY DEF Ends, Goes, ThreadType, PendingOps, PendingOp
<1> QED BY <1>1, <1>2

LEMMA AppliedType ==
    ASSUME ThreadType, PendingOps, NEW t \in Threads, NEW from, Applied(t, from)
    PROVE  ThreadType' /\ PendingOps'
<1>1. CASE Ends(t, from)
  BY <1>1, EndsType
<1>2. ASSUME NEW to \in {"next", "complete"}, Goes(t, from, to), op' = [op EXCEPT ![t] = NoOp],
             UNCHANGED <<job, packet>>
      PROVE  ThreadType' /\ PendingOps'
  <2>1. ThreadType'
    BY <1>2, NoOpType DEF Goes, ThreadType, Places
  <2>2. PendingOps'
    BY <1>2 DEF Goes, ThreadType, PendingOps, PendingOp
  <2> QED BY <2>1, <2>2
<1> QED BY <1>1, <1>2 DEF Applied

LEMMA RefusedType ==
    ASSUME ThreadType, PendingOps, NEW t \in Threads, NEW from, Refused(t, from)
    PROVE  ThreadType' /\ PendingOps'
BY AppliedType, OnlyType DEF Refused, Places

LEMMA ThreadTypeStep == TypeInv /\ [Next]_vars => ThreadType' /\ PendingOps'
<1> SUFFICES ASSUME TypeInv, [Next]_vars PROVE ThreadType' /\ PendingOps'
  OBVIOUS
<1>0. ThreadType /\ PendingOps
  BY DEF TypeInv, TypeOK, ThreadType
<1>1. ASSUME NEW t \in Threads, NEW j \in Jobs[t], Begin(t, j) PROVE ThreadType' /\ PendingOps'
  <2>1. j \in JobKinds
    BY ConsolidationAssumption
  <2>2. FirstPlace(j) \in Places /\ FirstPlace(j) \notin {"insert", "log", "log_reject", "feedback"}
    BY <2>1 DEF FirstPlace, JobKinds, Places
  <2>3. \E sources \in SUBSET Events : packet' = [packet EXCEPT ![t] = sources]
    BY <1>1 DEF Begin
  <2>4. ThreadType'
    BY <1>0, <1>1, <2>1, <2>2, <2>3 DEF Begin, Goes, ThreadType
  <2>5. PendingOps'
    BY <1>0, <1>1, <2>2 DEF Begin, Goes, ThreadType, PendingOps, PendingOp
  <2> QED BY <2>4, <2>5
<1>2. CASE Crash
  <2>1. ThreadType'
    BY <1>2, NoOpType DEF Crash, ThreadType, Places
  <2>2. PendingOps'
    BY <1>2 DEF Crash, PendingOps, PendingOp
  <2> QED BY <2>1, <2>2
<1>3. ASSUME NEW t \in Threads, Work(t) PROVE ThreadType' /\ PendingOps'
  <2>1. CASE ReadPacket(t)
    BY <1>0, <2>1 DEF ReadPacket, Goes, ThreadType, PendingOps, PendingOp, Places, TypeInv, TypeOK
  <2>2. CASE CreateRun(t) \/ ModelFails(t) \/ ModelAnswers(t)
    BY <1>0, <2>2, OnlyType DEF CreateRun, ModelFails, ModelAnswers, Places
  <2>3. CASE NothingToConsolidate(t) \/ Record(t) \/ EndRun(t) \/ RunFails(t)
    BY <1>0, <2>3, EndsType DEF NothingToConsolidate, Record, EndRun, RunFails
  <2>4. CASE \/ RefuseInvalid(t) \/ NothingToDo(t) \/ NoSuchMemory(t) \/ LogInsert(t)
             \/ RecordFeedback(t) \/ FeedbackRefused(t) \/ OperationFails(t)
    BY <1>0, <2>4, AppliedType, RefusedType
       DEF RefuseInvalid, NothingToDo, NoSuchMemory, LogInsert, RecordFeedback, FeedbackRefused, OperationFails
  <2>5. CASE FindExact(t)
    <3>1. PICK c \in Contents, e \in packet[t] :
             op' = [op EXCEPT ![t] = [NoOp EXCEPT !.what = c, !.ref = e]]
      BY <2>5 DEF FindExact
    <3>2. e \in Events
      BY <1>0, <3>1 DEF ThreadType
    <3>3. [NoOp EXCEPT !.what = c, !.ref = e].ref = e
      BY DEF NoOp
    <3>4. PICK o \in Ops : op' = [op EXCEPT ![t] = o] /\ o.ref \in Events
      BY <3>1, <3>2, <3>3, NoOpType
    <3>5. Goes(t, "next", "insert") /\ UNCHANGED <<job, packet>> /\ "insert" \in Places
      BY <2>5 DEF FindExact, Places
    <3> QED BY <1>0, <3>4, <3>5, SetOpType
  <2>6. CASE Insert(t)
    <3>1. rows' \in Ids
      BY <2>6, StoreAssumption DEF Insert, InsertMemory, Full, TypeInv, TypeOK, Ids
    <3>2. PICK j \in Ids : op' = [op EXCEPT ![t].result = j]
      BY <2>6, <3>1 DEF Insert
    <3>3. [op[t] EXCEPT !.result = j] \in Ops /\ [op[t] EXCEPT !.result = j].result = j
      BY <1>0 DEF ThreadType, Ops
    <3>4. PICK o \in Ops : op' = [op EXCEPT ![t] = o] /\ o.result \in Ids
      BY <3>2, <3>3
    <3>5. Goes(t, "insert", "log") /\ UNCHANGED <<job, packet>> /\ "log" \in Places
      BY <2>6 DEF Insert, Places
    <3> QED BY <1>0, <3>4, <3>5, SetOpType
  <2>7. CASE SupersedeOld(t)
    <3>1. PICK i \in Ids, c \in Contents, e \in packet[t] :
             Supersede(t, i, c, e) /\ op' = [op EXCEPT ![t] = [NoOp EXCEPT !.target = i, !.result = rows']]
      BY <2>7 DEF SupersedeOld
    <3>2. rows' \in Ids
      BY <3>1, StoreAssumption DEF Supersede, InsertMemory, Full, TypeInv, TypeOK, Ids
    <3>3. PICK j \in Ids : op' = [op EXCEPT ![t] = Superseding(i, j)]
      BY <3>1, <3>2 DEF Superseding
    <3>4. j # NoId
      BY DEF Ids, NoId
    <3>5. PICK o \in Ops : op' = [op EXCEPT ![t] = o] /\ o.target \in Ids /\ o.result # NoId
      <4>1. Superseding(i, j) \in Ops /\ Superseding(i, j).target \in Ids /\ Superseding(i, j).result # NoId
        BY <3>4, SupersedingType
      <4> QED BY <3>3, <4>1
    <3>6. Goes(t, "next", "feedback") /\ UNCHANGED <<job, packet>> /\ "feedback" \in Places
      BY <2>7 DEF SupersedeOld, Places
    <3> QED BY <1>0, <3>5, <3>6, SetOpType
  <2>8. CASE RejectOld(t)
    <3>1. PICK i \in Ids, r \in Grounds(t) : op' = [op EXCEPT ![t] = Rejecting(i, r)]
      BY <2>8 DEF RejectOld, Rejecting
    <3>2. r \in Events \cup Reasons /\ r # None
      <4>1. packet[t] \subseteq Events
        BY <1>0 DEF ThreadType
      <4> QED BY <3>1, <4>1, StoreAssumption DEF Grounds
    <3>3. PICK o \in Ops : /\ op' = [op EXCEPT ![t] = o]
                          /\ o.target \in Ids /\ o.result = NoId /\ o.ref # None
      <4>1. /\ Rejecting(i, r) \in Ops /\ Rejecting(i, r).target \in Ids
            /\ Rejecting(i, r).result = NoId /\ Rejecting(i, r).ref # None
        BY <3>2, RejectingType
      <4> QED BY <3>1, <4>1
    <3>4. Goes(t, "next", "log_reject") /\ UNCHANGED <<job, packet>> /\ "log_reject" \in Places
      BY <2>8 DEF RejectOld, Places
    <3> QED BY <1>0, <3>3, <3>4, SetOpType
  <2>9. CASE LogReject(t)
    <3>1. ThreadType'
      BY <1>0, <2>9 DEF LogReject, Only, Goes, ThreadType, Places
    <3>2. PendingOps'
      BY <1>0, <2>9 DEF LogReject, Only, Goes, ThreadType, PendingOps, PendingOp
    <3> QED BY <3>1, <3>2
  <2> QED BY <1>3, <2>1, <2>2, <2>3, <2>4, <2>5, <2>6, <2>7, <2>8, <2>9 DEF Work, Apply
<1>4. CASE UNCHANGED vars
  BY <1>0, <1>4 DEF vars, threadVars, ThreadType, PendingOps, PendingOp
<1> QED BY <1>1, <1>2, <1>3, <1>4 DEF Next

\* The tables, as what each statement writes.
TableType ==
    /\ text \in [Ids -> Texts]
    /\ author \in [Ids -> Threads \cup {None}]
    /\ operations \subseteq Operations
    /\ events \subseteq Events
    /\ feedback \subseteq Feedbacks
    /\ runs \in [Threads -> {"none", "running", "completed", "failed"}]
    /\ faults \in 0 .. MaxFaults

LEMMA InitType == Init => TypeInv
<1> SUFFICES ASSUME Init PROVE TypeInv
  OBVIOUS
<1>1. StoreInv
  BY InitStoreInv
<1>2. ThreadType /\ PendingOps
  BY NoOpType DEF Init, ThreadType, PendingOps, PendingOp, Places
<1>3. TableType
  <2>1. text \in [Ids -> Texts]
    BY DEF Init, StoreInit, NoText, Texts
  <2>2. operations \subseteq Operations
    BY <1>1, StoreAssumption DEF Init, StoreInit, Operation, Operations, Ids, StoreInv
  <2> QED BY <2>1, <2>2, ConsolidationAssumption DEF Init, StoreInit, TableType
<1> QED BY <1>1, <1>2, <1>3 DEF TypeInv, TypeOK, StoreInv, ThreadType, TableType

\* A new row has the text of a memory and the thread that inserted it.
LEMMA InsertType ==
    ASSUME StoreInv, TableType, NEW t \in Threads, NEW c \in Contents \cup {None},
           NEW e \in Events, NEW old, InsertMemory(t, c, e, old)
    PROVE  text' \in [Ids -> Texts] /\ author' \in [Ids -> Threads \cup {None}]
<1>1. [what |-> c, ref |-> e] \in Texts
  BY DEF Texts
<1> QED BY <1>1 DEF InsertMemory, TableType

LEMMA LogType ==
    ASSUME TableType, NEW kind \in {"inserted", "remembered", "superseded", "rejected"},
           NEW target \in Ids \cup {NoId}, NEW result \in Ids, LogOperation(kind, target, result)
    PROVE  operations' \subseteq Operations
BY DEF LogOperation, TableType, Operation, Operations

LEMMA BackfillType == ASSUME TableType, Backfill PROVE operations' \subseteq Operations
<1>1. ASSUME NEW o \in Operations
      PROVE  (IF o.target = NoId THEN [o EXCEPT !.target = o.result] ELSE o) \in Operations
  BY DEF Operations
<1> QED BY <1>1 DEF Backfill, TableType

LEMMA TableTypeStep ==
    ASSUME StoreInv, TypeInv, [Next]_vars PROVE TableType'
<1>0. TableType /\ ThreadType /\ PendingOps
  BY DEF TypeInv, TypeOK, TableType, ThreadType
<1>1. faults' \in 0 .. MaxFaults
  <2>1. \/ UNCHANGED faults
        \/ faults < MaxFaults /\ faults' = faults + 1
    BY DEF Next, Work, Apply, Begin, Crash, ReadPacket, NothingToConsolidate, CreateRun,
       ModelFails, ModelAnswers, Record, EndRun, RunFails, RefuseInvalid, NothingToDo,
       NoSuchMemory, FindExact, Insert, LogInsert, SupersedeOld, RejectOld, LogReject,
       RecordFeedback, FeedbackRefused, OperationFails, NoFault, Fault, Supersede, Reject, vars
  <2> QED BY <1>0, <2>1, ConsolidationAssumption DEF TableType
<1>2. ASSUME NEW t \in Threads, NEW j \in Jobs[t], Begin(t, j) PROVE TableType'
  BY <1>0, <1>1, <1>2, BackfillType DEF Begin, TableType
<1>3. CASE Crash \/ UNCHANGED vars
  BY <1>0, <1>1, <1>3 DEF Crash, storeVars, vars, TableType
<1>4. ASSUME NEW t \in Threads, Work(t) PROVE TableType'
  <2>1. CASE \/ ReadPacket(t) \/ NothingToConsolidate(t) \/ ModelFails(t) \/ ModelAnswers(t)
             \/ RunFails(t) \/ RefuseInvalid(t) \/ NothingToDo(t) \/ NoSuchMemory(t)
             \/ FindExact(t) \/ FeedbackRefused(t) \/ OperationFails(t)
    BY <1>0, <1>1, <2>1 DEF ReadPacket, NothingToConsolidate, ModelFails, ModelAnswers, RunFails,
       RefuseInvalid, NothingToDo, NoSuchMemory, FindExact, FeedbackRefused, OperationFails,
       storeVars, TableType
  <2>2. CASE CreateRun(t) \/ EndRun(t)
    BY <1>0, <1>1, <2>2 DEF CreateRun, EndRun, SetRun, TableType
  <2>3. CASE Record(t)
    BY <1>0, <1>1, <2>3 DEF Record, TableType
  <2>4. CASE RejectOld(t)
    BY <1>0, <1>1, <2>4 DEF RejectOld, Reject, TableType
  <2>5. CASE Insert(t)
    <3>1. op[t].what \in Contents \cup {None} /\ op[t].ref \in Events
      BY <1>0, <2>5 DEF Insert, Goes, ThreadType, PendingOps, PendingOp, Ops
    <3> QED BY <1>0, <1>1, <2>5, <3>1, InsertType DEF Insert, TableType
  <2>6. CASE LogInsert(t)
    <3>1. op[t].result \in Ids
      BY <1>0, <2>6 DEF LogInsert, PendingOps, PendingOp
    <3> QED BY <1>0, <1>1, <2>6, <3>1, LogType DEF LogInsert, TableType
  <2>7. CASE LogReject(t)
    <3>1. op[t].target \in Ids
      BY <1>0, <2>7 DEF LogReject, PendingOps, PendingOp
    <3> QED BY <1>0, <1>1, <2>7, <3>1, LogType DEF LogReject, TableType
  <2>8. CASE SupersedeOld(t)
    <3>1. PICK i \in Ids, c \in Contents, e \in packet[t] : Supersede(t, i, c, e)
      BY <2>8 DEF SupersedeOld
    <3>2. e \in Events /\ rows' \in Ids /\ InsertMemory(t, c, e, i)
      BY <1>0, <3>1, NewRow DEF ThreadType, Supersede, InsertMemory
    <3>3. operations' \subseteq Operations
      BY <1>0, <3>1, <3>2 DEF Supersede, TableType, Operation, Operations
    <3> QED BY <1>0, <1>1, <3>1, <3>2, <3>3, InsertType DEF Supersede, TableType
  <2>9. CASE RecordFeedback(t)
    <3>1. FeedbackOf(t) \in Feedbacks
      BY <1>0, <2>9 DEF RecordFeedback, FeedbackOf, Feedback, Feedbacks, ThreadType, Ops,
         PendingOps, PendingOp
    <3> QED BY <1>0, <1>1, <2>9, <3>1 DEF RecordFeedback, TableType
  <2> QED BY <1>4, <2>1, <2>2, <2>3, <2>4, <2>5, <2>6, <2>7, <2>8, <2>9 DEF Work, Apply
<1> QED BY <1>2, <1>3, <1>4 DEF Next

LEMMA TypeStep == ASSUME StoreInv, TypeInv, [Next]_vars PROVE StoreInv' /\ TypeInv'
<1>1. StoreInv'
  BY StoreInvStep
<1>2. ThreadType' /\ PendingOps' /\ TableType'
  BY ThreadTypeStep, TableTypeStep
<1> QED BY <1>1, <1>2 DEF TypeInv, TypeOK, StoreInv, ThreadType, TableType

(* Every variable of the store and of its threads keeps the type of its    *)
(* column or local.                                                        *)
THEOREM TypeCorrect == Spec => []TypeOK
<1>1. StoreInv /\ TypeInv /\ [Next]_vars => (StoreInv /\ TypeInv)'
  BY TypeStep
<1>2. TypeInv => TypeOK
  BY DEF TypeInv
<1> QED BY InitStoreInv, InitType, <1>1, <1>2, PTL DEF Spec

-----------------------------------------------------------------------------
(* What no step takes back: the log of operations, the link of a memory to *)
(* the one it replaced, the end of a memory, and what a row says.          *)

SuccessorsExist == \A j \in Ids : over[j] # NoId => Exists(j)

MemoryInv == StoreInv /\ TypeInv /\ SuccessorsExist

LEMMA InitMemory == Init => MemoryInv
<1>1. Init => SuccessorsExist
  BY DEF Init, StoreInit, SuccessorsExist
<1> QED BY <1>1, InitStoreInv, InitType DEF MemoryInv

\* run_migrations completes the rows without a target, and no other row.
LEMMA LogStays ==
    ASSUME [Next]_vars, NEW o \in operations, o.target # NoId PROVE o \in operations'
<1>1. ASSUME NEW t \in Threads, NEW j \in Jobs[t], Begin(t, j) PROVE o \in operations'
  BY <1>1 DEF Begin, Backfill
<1>2. CASE Crash \/ UNCHANGED vars
  BY <1>2 DEF Crash, storeVars, vars
<1>3. ASSUME NEW t \in Threads, Work(t) PROVE o \in operations'
  <2>1. CASE Apply(t)
    <3>1. CASE SupersedeOld(t) \/ LogInsert(t) \/ LogReject(t)
      BY <3>1 DEF SupersedeOld, Supersede, LogInsert, LogReject, LogOperation
    <3>2. CASE \/ RefuseInvalid(t) \/ NothingToDo(t) \/ NoSuchMemory(t) \/ FindExact(t)
               \/ Insert(t) \/ RejectOld(t) \/ RecordFeedback(t) \/ FeedbackRefused(t)
               \/ OperationFails(t)
      BY <3>2 DEF RefuseInvalid, NothingToDo, NoSuchMemory, FindExact, Insert, RejectOld, Reject,
         RecordFeedback, FeedbackRefused, OperationFails, storeVars
    <3> QED BY <2>1, <3>1, <3>2 DEF Apply
  <2>2. CASE ~Apply(t)
    BY <1>3, <2>2 DEF Work, ReadPacket, NothingToConsolidate, CreateRun, ModelFails,
       ModelAnswers, Record, EndRun, RunFails, SetRun, storeVars
  <2> QED BY <2>1, <2>2
<1> QED BY <1>1, <1>2, <1>3 DEF Next

LEMMA RowsStay ==
    ASSUME MemoryInv, [Next]_vars, NEW i \in Ids
    PROVE  /\ life[i] \in Gone => life'[i] \in Gone
           /\ over[i] # NoId => over'[i] = over[i]
           /\ over'[i] # NoId => life'[i] # "absent"
           /\ life[i] # "absent" => text'[i] = text[i] /\ author'[i] = author[i]
           /\ life'[i] = "active" /\ life[i] # "active" => i = rows + 1 /\ ~Full
<1>0. StoreInv /\ text \in [Ids -> Texts] /\ author \in [Ids -> Threads \cup {None}]
      /\ life \in [Ids -> Lifecycles] /\ over \in [Ids -> Ids \cup {NoId}]
      /\ (over[i] # NoId => life[i] # "absent")
  BY DEF MemoryInv, TypeInv, TypeOK, StoreInv, SuccessorsExist, Exists
<1> USE DEF Gone
<1>1. CASE Quiet \/ UNCHANGED vars
  BY <1>0, <1>1 DEF Quiet, vars, storeVars
<1>2. ASSUME NEW t \in Threads, Inserts(t)
      PROVE  /\ ~Full /\ (i # rows + 1 => life'[i] = life[i] /\ over'[i] = over[i]
                               /\ text'[i] = text[i] /\ author'[i] = author[i])
             /\ i = rows + 1 => life[i] = "absent" /\ life'[i] = "active"
  BY <1>0, <1>2, NewRow DEF Inserts, InsertMemory
<1>3. ASSUME NEW t \in Threads, Supersedes(t)
      PROVE  /\ ~Full /\ (i # rows + 1 => /\ life'[i] = life[i] \/ life'[i] = "superseded"
                                          /\ life[i] # "absent" \/ life'[i] = life[i]
                                          /\ over'[i] = over[i]
                                          /\ text'[i] = text[i] /\ author'[i] = author[i])
             /\ i = rows + 1 => life[i] = "absent" /\ life'[i] = "active"
  <2>1. PICK k \in Ids : \E c, e : Supersede(t, k, c, e)
    BY <1>3 DEF Supersedes
  <2>2. /\ ~Full /\ life[k] # "absent"
        /\ over' = [over EXCEPT ![rows + 1] = k]
        /\ life' = [life EXCEPT ![rows + 1] = "active", ![k] = "superseded"]
        /\ \E x : text' = [text EXCEPT ![rows + 1] = x]
        /\ author' = [author EXCEPT ![rows + 1] = t]
    BY <2>1 DEF Supersede, InsertMemory, Exists
  <2> QED BY <1>0, <2>2, NewRow
<1>4. ASSUME NEW k \in Ids, Reject(k)
      PROVE  /\ over' = over /\ text' = text /\ author' = author
             /\ life'[i] = life[i] \/ (life[i] # "absent" /\ life'[i] = "rejected")
  BY <1>0, <1>4 DEF Reject, Exists
<1> QED BY <1>0, <1>1, <1>2, <1>3, <1>4, StoreCases

LEMMA MemoryInvStep == ASSUME MemoryInv, [Next]_vars PROVE MemoryInv'
<1>1. StoreInv' /\ TypeInv'
  BY TypeStep DEF MemoryInv
<1>2. SuccessorsExist'
  BY RowsStay DEF SuccessorsExist, Exists
<1> QED BY <1>1, <1>2 DEF MemoryInv

-----------------------------------------------------------------------------
(* A superseded memory has its successor *)

HasSuccessor(i) ==
    /\ Operation("superseded", i, i) \in operations
    /\ \E j \in Ids : over[j] = i /\ Operation("remembered", i, j) \in operations

LEMMA SuccessorStays ==
    ASSUME MemoryInv, [Next]_vars, NEW i \in Ids, HasSuccessor(i) PROVE HasSuccessor(i)'
<1>1. i # NoId
  BY DEF Ids, NoId
<1>2. Operation("superseded", i, i) \in operations'
  BY <1>1, LogStays DEF HasSuccessor, Operation
<1>3. PICK j \in Ids : over[j] = i /\ Operation("remembered", i, j) \in operations
  BY DEF HasSuccessor
<1>4. over'[j] = i /\ Operation("remembered", i, j) \in operations'
  BY <1>1, <1>3, LogStays, RowsStay DEF Operation
<1> QED BY <1>2, <1>4 DEF HasSuccessor

LEMMA SuccessorStep ==
    ASSUME MemoryInv, SupersededHasSuccessor, [Next]_vars PROVE SupersededHasSuccessor'
<1> SUFFICES ASSUME NEW i \in Ids, life'[i] = "superseded" PROVE HasSuccessor(i)'
  BY DEF SupersededHasSuccessor, HasSuccessor
<1>0. StoreInv /\ life \in [Ids -> Lifecycles] /\ over \in [Ids -> Ids \cup {NoId}]
  BY DEF MemoryInv, StoreInv
<1>1. CASE life[i] = "superseded"
  BY <1>1, SuccessorStays DEF SupersededHasSuccessor, HasSuccessor
<1>2. CASE life[i] # "superseded"
  <2>1. ~(Quiet \/ UNCHANGED vars) /\ ~\E k \in Ids : Reject(k)
    BY <1>0, <1>2 DEF Quiet, vars, storeVars, Reject
  <2>2. ~\E t \in Threads : Inserts(t)
    BY <1>0, <1>2 DEF Inserts
  <2>3. PICK t \in Threads, k \in Ids : \E c, e : Supersede(t, k, c, e)
    BY <2>1, <2>2, StoreCases DEF Supersedes
  <2>4. /\ ~Full
        /\ over' = [over EXCEPT ![rows + 1] = k]
        /\ life' = [life EXCEPT ![rows + 1] = "active", ![k] = "superseded"]
        /\ operations' = operations \cup {Operation("remembered", k, rows + 1),
                                          Operation("superseded", k, k)}
    BY <2>3 DEF Supersede, InsertMemory
  <2>5. i = k /\ rows + 1 \in Ids
    BY <1>0, <1>2, <2>4, NewRow
  <2>6. over'[rows + 1] = i
    BY <1>0, <2>4, <2>5
  <2> QED BY <2>4, <2>5, <2>6 DEF HasSuccessor
<1> QED BY <1>1, <1>2

(* A superseded memory has its successor and both log rows, whatever fails *)
(* or crashes: supersede_memory makes the three changes in one transaction *)
(* and nothing else marks a memory as superseded.                          *)
THEOREM SupersededIsReplaced == Spec => []SupersededHasSuccessor
<1> DEFINE Inv == MemoryInv /\ SupersededHasSuccessor
<1>1. Init => Inv
  <2>1. Init => SupersededHasSuccessor
    BY DEF Init, StoreInit, SupersededHasSuccessor
  <2> QED BY <2>1, InitMemory
<1>2. Inv /\ [Next]_vars => Inv'
  BY MemoryInvStep, SuccessorStep
<1> QED BY <1>1, <1>2, PTL DEF Spec

-----------------------------------------------------------------------------
(* The feedback is true *)

Happened(kind, i) ==
    life[i] \in Gone /\ Operation(kind, i, i) \in operations

\* what a thread has done when it is about to log or record it
Changed(t) ==
    /\ pc[t] = "log_reject" => life[op[t].target] \in Gone
    /\ pc[t] = "feedback" =>
          IF op[t].result # NoId
          THEN /\ Happened("superseded", op[t].target)
               /\ over[op[t].result] = op[t].target
          ELSE Happened("rejected", op[t].target)

FeedbackInv ==
    /\ MemoryInv
    /\ \A t \in Threads : Changed(t)
    /\ FeedbackIsTrue

LEMMA HappenedStays ==
    ASSUME MemoryInv, [Next]_vars, NEW kind, NEW i \in Ids, Happened(kind, i)
    PROVE  Happened(kind, i)'
<1>1. Operation(kind, i, i) \in operations'
  BY LogStays DEF Happened, Operation, Ids, NoId
<1>2. life'[i] \in Gone
  BY RowsStay DEF Happened
<1> QED BY <1>1, <1>2 DEF Happened

\* How a thread comes to a place where it has something left to do.
LEMMA ThreadCases ==
    ASSUME ThreadType, [Next]_vars, NEW u \in Threads
    PROVE  \/ pc'[u] = pc[u] /\ op'[u] = op[u]
           \/ pc'[u] \notin {"insert", "log_reject", "feedback"}
           \/ FindExact(u) \/ SupersedeOld(u) \/ RejectOld(u) \/ LogReject(u)
<1> USE DEF ThreadType, Goes
<1>1. ASSUME NEW t \in Threads, NEW j \in Jobs[t], Begin(t, j)
      PROVE  \/ pc'[u] = pc[u] /\ op'[u] = op[u]
             \/ pc'[u] \notin {"insert", "log_reject", "feedback"}
  <2>1. j \in JobKinds
    BY ConsolidationAssumption
  <2>2. FirstPlace(j) \notin {"insert", "log_reject", "feedback"}
    BY <2>1 DEF FirstPlace, JobKinds
  <2> QED BY <1>1, <2>2 DEF Begin
<1>2. CASE Crash \/ UNCHANGED vars
  BY <1>2 DEF Crash, vars, threadVars
<1>3. ASSUME NEW t \in Threads, Work(t), u # t PROVE pc'[u] = pc[u] /\ op'[u] = op[u]
  BY <1>3 DEF Work, Apply, ReadPacket, NothingToConsolidate, CreateRun, ModelFails, ModelAnswers,
     Record, EndRun, RunFails, RefuseInvalid, NothingToDo, NoSuchMemory, FindExact, Insert,
     LogInsert, SupersedeOld, RejectOld, LogReject, RecordFeedback, FeedbackRefused,
     OperationFails, Only, Ends, Applied, Refused
<1>4. ASSUME Work(u), ~FindExact(u), ~SupersedeOld(u), ~RejectOld(u), ~LogReject(u)
      PROVE  pc'[u] \notin {"insert", "log_reject", "feedback"}
  BY <1>4 DEF Work, Apply, ReadPacket, NothingToConsolidate, CreateRun, ModelFails, ModelAnswers,
     Record, EndRun, RunFails, RefuseInvalid, NothingToDo, NoSuchMemory, Insert,
     LogInsert, RecordFeedback, FeedbackRefused, OperationFails, Only, Ends, Applied, Refused
<1> QED BY <1>1, <1>2, <1>3, <1>4 DEF Next

LEMMA ChangedStep ==
    ASSUME FeedbackInv, [Next]_vars, NEW u \in Threads PROVE Changed(u)'
<1>0. MemoryInv /\ ThreadType /\ PendingOp(u) /\ Changed(u) /\ StoreInv
      /\ (op[u].result = NoId \/ op[u].result \in Ids) /\ NoId \notin Ids
  BY DEF FeedbackInv, MemoryInv, TypeInv, TypeOK, ThreadType, PendingOps, Ops, Ids, NoId
<1>1. CASE pc'[u] = pc[u] /\ op'[u] = op[u]
  <2> SUFFICES ASSUME pc[u] \in {"log_reject", "feedback"}, op[u].target \in Ids PROVE Changed(u)'
    BY <1>0, <1>1 DEF Changed, PendingOp
  <2>1. PICK i \in Ids : i = op[u].target
    OBVIOUS
  <2>2. life[i] \in Gone => life'[i] \in Gone
    BY <1>0, RowsStay
  <2>3. \A kind : Happened(kind, i) => Happened(kind, i)'
    BY <1>0, HappenedStays
  <2>4. ASSUME op[u].result # NoId, over[op[u].result] = i PROVE over'[op[u].result] = i
    BY <1>0, <2>4, RowsStay
  <2> QED BY <1>0, <1>1, <2>1, <2>2, <2>3, <2>4 DEF Changed, Happened
<1>2. CASE pc'[u] \notin {"insert", "log_reject", "feedback"}
  BY <1>2 DEF Changed
<1>3. CASE FindExact(u)
  BY <1>0, <1>3 DEF FindExact, Goes, ThreadType, Changed
<1>4. CASE SupersedeOld(u)
  <2>1. PICK i \in Ids, c \in Contents, e \in packet[u] :
           /\ Supersede(u, i, c, e)
           /\ op' = [op EXCEPT ![u] = Superseding(i, rows')]
    BY <1>4 DEF SupersedeOld, Superseding
  <2>2. /\ ~Full /\ rows' = rows + 1
        /\ over' = [over EXCEPT ![rows + 1] = i]
        /\ life' = [life EXCEPT ![rows + 1] = "active", ![i] = "superseded"]
        /\ Operation("superseded", i, i) \in operations'
    BY <2>1 DEF Supersede, InsertMemory
  <2>3. rows + 1 \in Ids /\ rows + 1 # NoId
    BY <1>0, <2>2, NewRow
  <2>4. over'[rows + 1] = i /\ life'[i] = "superseded"
    BY <1>0, <2>2, <2>3 DEF StoreInv
  <2>5. op'[u] = Superseding(i, rows + 1) /\ pc'[u] = "feedback"
    BY <1>0, <1>4, <2>1, <2>2 DEF SupersedeOld, Goes, ThreadType
  <2>6. op'[u].target = i /\ op'[u].result = rows + 1
    BY <2>3, <2>5, SupersedingType
  <2> QED BY <2>2, <2>3, <2>4, <2>5, <2>6 DEF Changed, Happened, Gone
<1>5. CASE RejectOld(u)
  <2>1. PICK i \in Ids, r \in Grounds(u) :
           Reject(i) /\ op' = [op EXCEPT ![u] = Rejecting(i, r)]
    BY <1>5 DEF RejectOld, Rejecting
  <2>2. r \in Events \cup Reasons
    BY <1>0, <2>1 DEF Grounds, ThreadType
  <2>3. op'[u] = Rejecting(i, r) /\ pc'[u] = "log_reject"
    BY <1>0, <1>5, <2>1 DEF RejectOld, Goes, ThreadType
  <2>4. op'[u].target = i
    BY <2>2, <2>3, RejectingType
  <2>5. life'[i] = "rejected"
    BY <1>0, <2>1 DEF Reject, StoreInv
  <2> QED BY <2>3, <2>4, <2>5 DEF Changed, Gone
<1>6. CASE LogReject(u)
  <2>1. /\ pc[u] = "log_reject" /\ pc'[u] = "feedback" /\ op' = op /\ life' = life
        /\ Operation("rejected", op[u].target, op[u].target) \in operations'
    BY <1>0, <1>6 DEF LogReject, Only, Goes, ThreadType, LogOperation
  <2>2. op[u].result = NoId /\ life[op[u].target] \in Gone
    BY <1>0, <2>1 DEF PendingOp, Changed
  <2> QED BY <2>1, <2>2 DEF Changed, Happened
<1> QED BY <1>0, <1>1, <1>2, <1>3, <1>4, <1>5, <1>6, ThreadCases

\* Feedback is written by one statement.
LEMMA FeedbackGrows ==
    ASSUME [Next]_vars, NEW f \in feedback', f \notin feedback
    PROVE  \E t \in Threads : RecordFeedback(t) /\ f = FeedbackOf(t)
<1>1. ~UNCHANGED feedback
  OBVIOUS
<1>2. PICK t \in Threads : Work(t)
  BY <1>1 DEF Next, Begin, Crash, storeVars, vars
<1>3. RecordFeedback(t)
  BY <1>1, <1>2 DEF Work, Apply, ReadPacket, NothingToConsolidate, CreateRun, ModelFails,
     ModelAnswers, Record, EndRun, RunFails, RefuseInvalid, NothingToDo, NoSuchMemory, FindExact,
     Insert, LogInsert, SupersedeOld, Supersede, RejectOld, Reject, LogReject, FeedbackRefused,
     OperationFails, SetRun, storeVars
<1> QED BY <1>3 DEF RecordFeedback

TrueFeedback(f) ==
    /\ Happened(f.kind, f.memory)
    /\ f.kind = "superseded" => f.cause \in Ids /\ over[f.cause] = f.memory

LEMMA FeedbackStep ==
    ASSUME FeedbackInv, [Next]_vars PROVE FeedbackInv'
<1>0. MemoryInv /\ MemoryInv' /\ TypeOK /\ NoId \notin Ids
  BY MemoryInvStep DEF FeedbackInv, MemoryInv, TypeInv, Ids, NoId
<1>1. ASSUME NEW f \in feedback PROVE TrueFeedback(f)'
  <2>1. f \in Feedbacks /\ TrueFeedback(f)
    BY <1>0 DEF TypeOK, FeedbackInv, FeedbackIsTrue, TrueFeedback, Happened, Gone
  <2>2. PICK i \in Ids, kind \in {"superseded", "rejected"} : i = f.memory /\ kind = f.kind
    BY <2>1 DEF Feedbacks
  <2>3. Happened(kind, i)'
    BY <1>0, <2>1, <2>2, HappenedStays DEF TrueFeedback
  <2>4. ASSUME f.cause \in Ids, over[f.cause] = i PROVE over'[f.cause] = i
    BY <1>0, <2>4, RowsStay
  <2> QED BY <2>1, <2>2, <2>3, <2>4 DEF TrueFeedback, Happened
<1>2. ASSUME NEW f \in feedback', f \notin feedback PROVE TrueFeedback(f)'
  <2>1. PICK t \in Threads : RecordFeedback(t) /\ f = FeedbackOf(t)
    BY <1>2, FeedbackGrows
  <2>2. Changed(t) /\ pc[t] = "feedback" /\ UNCHANGED <<life, over, operations>>
    BY <2>1 DEF FeedbackInv, RecordFeedback
  <2>3. op[t].result \in Ids \cup {NoId}
    BY <1>0 DEF TypeOK, Ops
  <2> QED BY <2>1, <2>2, <2>3 DEF Changed, TrueFeedback, Happened, FeedbackOf, Feedback
<1>3. FeedbackIsTrue'
  BY <1>1, <1>2 DEF FeedbackIsTrue, TrueFeedback, Happened, Gone
<1>4. (\A t \in Threads : Changed(t))'
  BY ChangedStep
<1> QED BY <1>0, <1>3, <1>4 DEF FeedbackInv

(* What the feedback tells the next consolidation did happen: the memory   *)
(* was superseded by the memory it names, or rejected, both are logged,    *)
(* and nothing brought the memory back, although the change, the log row   *)
(* and the feedback are three statements among those of other threads.     *)
THEOREM FeedbackTellsTheTruth == Spec => []FeedbackIsTrue
<1>1. Init => FeedbackInv
  <2>1. Init => FeedbackIsTrue /\ \A t \in Threads : Changed(t)
    BY DEF Init, StoreInit, FeedbackIsTrue, Changed
  <2> QED BY <2>1, InitMemory DEF FeedbackInv
<1>2. FeedbackInv /\ [Next]_vars => FeedbackInv'
  BY FeedbackStep
<1>3. FeedbackInv => FeedbackIsTrue
  BY DEF FeedbackInv
<1> QED BY <1>1, <1>2, <1>3, PTL DEF Spec

-----------------------------------------------------------------------------
(* A run that is "running" is worked on *)

RunOwner(t) == pc[t] \in {"packet", "create_run", "model"} => job[t] \in {"live", "manual"}

RunOf(t) ==
    /\ HasRun(t) => runs[t] = "running"
    /\ faults = 0 /\ runs[t] = "running" => HasRun(t)

RunInv == TypeInv /\ \A t \in Threads : RunOwner(t) /\ RunOf(t)

\* A thread's own steps.
LEMMA OwnRun ==
    ASSUME TypeInv, NEW t \in Threads, RunOwner(t), RunOf(t), Work(t)
    PROVE  RunOwner(t)' /\ RunOf(t)'
<1>0. ThreadType /\ faults \in Nat /\ runs \in [Threads -> {"none", "running", "completed", "failed"}]
  BY ConsolidationAssumption DEF TypeInv, TypeOK, ThreadType
<1> USE DEF ThreadType, Goes, RunOwner, RunOf, HasRun
<1>1. CASE ReadPacket(t) \/ NothingToConsolidate(t)
  BY <1>0, <1>1 DEF ReadPacket, NothingToConsolidate, Ends, NoFault, storeVars
<1>2. CASE CreateRun(t) \/ ModelFails(t) \/ ModelAnswers(t)
  BY <1>0, <1>2 DEF CreateRun, ModelFails, ModelAnswers, Only, SetRun, NoFault, storeVars
<1>3. CASE Record(t) \/ EndRun(t)
  BY <1>0, <1>3 DEF Record, EndRun, Ends, SetRun, NoFault
<1>4. CASE RunFails(t)
  BY <1>0, <1>4 DEF RunFails, Ends, Fault, storeVars
<1>5. ASSUME NEW from \in {"next", "insert", "log", "log_reject", "feedback"},
             \/ Applied(t, from) \/ Refused(t, from)
             \/ \E to \in {"insert", "log", "log_reject", "feedback"} :
                    Goes(t, from, to) /\ UNCHANGED job,
             runs' = runs, faults' = faults \/ faults' = faults + 1
      PROVE  RunOwner(t)' /\ RunOf(t)'
  BY <1>0, <1>5 DEF Applied, Refused, Only, Ends
<1>6. CASE Apply(t)
  <2>1. runs' = runs /\ (faults' = faults \/ faults' = faults + 1)
    BY <1>6 DEF Apply, RefuseInvalid, NothingToDo, NoSuchMemory, FindExact, Insert, LogInsert,
       SupersedeOld, Supersede, RejectOld, Reject, LogReject, RecordFeedback, FeedbackRefused,
       OperationFails, NoFault, Fault, storeVars
  <2>2. \E from \in {"next", "insert", "log", "log_reject", "feedback"} :
           \/ Applied(t, from) \/ Refused(t, from)
           \/ \E to \in {"insert", "log", "log_reject", "feedback"} :
                  Goes(t, from, to) /\ UNCHANGED job
    <3>1. CASE FindExact(t) \/ Insert(t) \/ SupersedeOld(t) \/ RejectOld(t) \/ LogReject(t)
      BY <3>1 DEF FindExact, Insert, SupersedeOld, RejectOld, LogReject, Only
    <3>2. CASE \/ RefuseInvalid(t) \/ NothingToDo(t) \/ NoSuchMemory(t) \/ LogInsert(t)
               \/ RecordFeedback(t) \/ FeedbackRefused(t) \/ OperationFails(t)
      BY <3>2 DEF RefuseInvalid, NothingToDo, NoSuchMemory, LogInsert, RecordFeedback,
         FeedbackRefused, OperationFails
    <3> QED BY <1>6, <3>1, <3>2 DEF Apply
  <2> QED BY <1>5, <2>1, <2>2
<1> QED BY <1>1, <1>2, <1>3, <1>4, <1>6 DEF Work

LEMMA OtherRun ==
    ASSUME TypeInv, NEW t \in Threads, Work(t), NEW u \in Threads, u # t, RunOwner(u), RunOf(u)
    PROVE  RunOwner(u)' /\ RunOf(u)'
<1>0. ThreadType /\ faults \in Nat /\ runs \in [Threads -> {"none", "running", "completed", "failed"}]
  BY ConsolidationAssumption DEF TypeInv, TypeOK, ThreadType
<1>1. pc'[u] = pc[u] /\ job'[u] = job[u]
  BY <1>0 DEF Work, Apply, ReadPacket, NothingToConsolidate, CreateRun, ModelFails, ModelAnswers,
     Record, EndRun, RunFails, RefuseInvalid, NothingToDo, NoSuchMemory, FindExact, Insert,
     LogInsert, SupersedeOld, RejectOld, LogReject, RecordFeedback, FeedbackRefused,
     OperationFails, Only, Ends, Applied, Refused, Goes, ThreadType
<1>2. runs'[u] = runs[u] /\ (faults' = faults \/ faults' = faults + 1)
  BY <1>0 DEF Work, Apply, ReadPacket, NothingToConsolidate, CreateRun, ModelFails, ModelAnswers,
     Record, EndRun, RunFails, RefuseInvalid, NothingToDo, NoSuchMemory, FindExact, Insert,
     LogInsert, SupersedeOld, Supersede, RejectOld, Reject, LogReject, RecordFeedback,
     FeedbackRefused, OperationFails, SetRun, NoFault, Fault, storeVars
<1> QED BY <1>0, <1>1, <1>2 DEF RunOwner, RunOf, HasRun

LEMMA RunStep == ASSUME StoreInv, RunInv, [Next]_vars PROVE RunInv'
<1>0. TypeInv /\ TypeInv' /\ ThreadType /\ faults \in Nat
  BY TypeStep, ConsolidationAssumption DEF RunInv, TypeInv, TypeOK, ThreadType
<1>1. ASSUME NEW u \in Threads PROVE RunOwner(u)' /\ RunOf(u)'
  <2>0. RunOwner(u) /\ RunOf(u)
    BY DEF RunInv
  <2>1. ASSUME NEW t \in Threads, NEW j \in Jobs[t], Begin(t, j) PROVE RunOwner(u)' /\ RunOf(u)'
    <3>1. j \in JobKinds
      BY ConsolidationAssumption
    <3>2. pc[t] = "idle" /\ pc' = [pc EXCEPT ![t] = FirstPlace(j)] /\ job' = [job EXCEPT ![t] = j]
          /\ UNCHANGED <<runs, faults>>
      BY <2>1 DEF Begin, Goes, NoFault
    <3>3. CASE u = t
      BY <1>0, <2>0, <3>1, <3>2, <3>3 DEF RunOwner, RunOf, HasRun, FirstPlace, JobKinds, ThreadType
    <3>4. CASE u # t
      BY <1>0, <2>0, <3>2, <3>4 DEF RunOwner, RunOf, HasRun, ThreadType
    <3> QED BY <3>3, <3>4
  <2>2. CASE Crash
    BY <1>0, <2>2 DEF Crash, Fault, RunOwner, RunOf, HasRun
  <2>3. CASE UNCHANGED vars
    BY <2>0, <2>3 DEF vars, storeVars, threadVars, RunOwner, RunOf, HasRun
  <2>4. ASSUME NEW t \in Threads, Work(t) PROVE RunOwner(u)' /\ RunOf(u)'
    BY <1>0, <2>0, <2>4, OwnRun, OtherRun
  <2> QED BY <2>1, <2>2, <2>3, <2>4 DEF Next
<1> QED BY <1>0, <1>1 DEF RunInv

(* Operations are applied only while their run is "running", and a run is  *)
(* left behind "running" only by a crash or a failed statement: every      *)
(* refusal and every unreadable answer of the model leads to               *)
(* complete_consolidation_run or fail_consolidation_run.                   *)
THEOREM RunsAreWorkedOn == Spec => []RunningIsWorkedOn
<1>1. Init => StoreInv /\ RunInv
  <2>1. Init => \A t \in Threads : RunOwner(t) /\ RunOf(t)
    BY DEF Init, StoreInit, RunOwner, RunOf, HasRun
  <2> QED BY <2>1, InitStoreInv, InitType DEF RunInv
<1>2. StoreInv /\ RunInv /\ [Next]_vars => (StoreInv /\ RunInv)'
  BY StoreInvStep, RunStep
<1>3. RunInv => RunningIsWorkedOn
  BY DEF RunInv, RunOf, RunningIsWorkedOn
<1> QED BY <1>1, <1>2, <1>3, PTL DEF Spec

-----------------------------------------------------------------------------
(* A thread does not insert the same memory twice *)

SameText(i, t) == text[i] = [what |-> op[t].what, ref |-> op[t].ref]

\* what the search of create_memory found, as far as the thread itself goes
Fresh(t) ==
    pc[t] = "insert" => \A i \in Ids : life[i] = "active" /\ SameText(i, t) => author[i] # t

DuplicateInv == MemoryInv /\ (\A t \in Threads : Fresh(t)) /\ RetryDoesNotDuplicate

\* A new row is its thread's, which is then past its INSERT.
LEMMA NewAuthor ==
    ASSUME MemoryInv, [Next]_vars, ~Full, life[rows + 1] = "absent", life'[rows + 1] = "active"
    PROVE  \E t \in Threads :
              /\ author'[rows + 1] = t /\ pc'[t] # "insert"
              /\ \/ pc[t] = "insert" /\ text'[rows + 1] = [what |-> op[t].what, ref |-> op[t].ref]
                 \/ over'[rows + 1] \in Ids
<1>0. StoreInv /\ text \in [Ids -> Texts] /\ author \in [Ids -> Threads \cup {None}] /\ rows + 1 \in Ids
      /\ pc \in [Threads -> Places] /\ over \in [Ids -> Ids \cup {NoId}] /\ life \in [Ids -> Lifecycles]
  BY NewRow DEF MemoryInv, TypeInv, TypeOK, StoreInv
<1>1. ~UNCHANGED life
  OBVIOUS
<1>2. PICK t \in Threads : Work(t)
  BY <1>1 DEF Next, Begin, Crash, storeVars, vars
<1>3. Insert(t) \/ SupersedeOld(t) \/ RejectOld(t)
  BY <1>1, <1>2 DEF Work, Apply, ReadPacket, NothingToConsolidate, CreateRun, ModelFails,
     ModelAnswers, Record, EndRun, RunFails, RefuseInvalid, NothingToDo, NoSuchMemory, FindExact,
     LogInsert, LogReject, RecordFeedback, FeedbackRefused, OperationFails, SetRun, storeVars
<1>4. CASE Insert(t)
  BY <1>0, <1>4 DEF Insert, Inserts, InsertMemory, Goes
<1>5. CASE SupersedeOld(t)
  BY <1>0, <1>5 DEF SupersedeOld, Supersede, InsertMemory, Goes
<1>6. CASE RejectOld(t)
  BY <1>0, <1>6 DEF RejectOld, Reject
<1> QED BY <1>3, <1>4, <1>5, <1>6

LEMMA FreshStep ==
    ASSUME DuplicateInv, [Next]_vars, NEW u \in Threads PROVE Fresh(u)'
<1> SUFFICES ASSUME pc'[u] = "insert", NEW i \in Ids, life'[i] = "active", SameText(i, u)',
                    author'[i] = u
             PROVE  FALSE
  BY DEF Fresh
<1>0. MemoryInv /\ ThreadType /\ StoreInv /\ Fresh(u)
  BY DEF DuplicateInv, MemoryInv, TypeInv, TypeOK, ThreadType
<1>1. \/ pc[u] = "insert" /\ op'[u] = op[u]
      \/ FindExact(u)
  <2>1. ~SupersedeOld(u) /\ ~RejectOld(u) /\ ~LogReject(u)
    BY <1>0 DEF SupersedeOld, RejectOld, LogReject, Only, Goes, ThreadType
  <2> QED BY <1>0, <2>1, ThreadCases
<1>2. CASE life[i] = "active"
  <2>1. text'[i] = text[i] /\ author'[i] = author[i]
    BY <1>0, <1>2, RowsStay
  <2>2. CASE pc[u] = "insert" /\ op'[u] = op[u]
    BY <1>0, <1>2, <2>1, <2>2 DEF Fresh, SameText
  <2>3. CASE FindExact(u)
    <3>1. PICK c \in Contents, e \in packet[u] :
             ~ExactActive(c, e) /\ op' = [op EXCEPT ![u] = [NoOp EXCEPT !.what = c, !.ref = e]]
      BY <2>3 DEF FindExact
    <3>2. op'[u].what = c /\ op'[u].ref = e
      BY <1>0, <3>1 DEF ThreadType, NoOp
    <3> QED BY <1>2, <2>1, <3>1, <3>2 DEF ExactActive, SameText
  <2> QED BY <1>1, <2>2, <2>3
<1>3. CASE life[i] # "active"
  <2>1. i = rows + 1 /\ ~Full /\ life[i] = "absent"
    BY <1>0, <1>3, RowsStay, NewRow
  <2>2. PICK t \in Threads : author'[rows + 1] = t /\ pc'[t] # "insert"
    BY <1>0, <2>1, NewAuthor
  <2> QED BY <2>1, <2>2
<1> QED BY <1>2, <1>3

LEMMA DuplicateStep == ASSUME DuplicateInv, [Next]_vars PROVE DuplicateInv'
<1>0. MemoryInv /\ MemoryInv' /\ StoreInv /\ StoreInv'
  BY MemoryInvStep DEF DuplicateInv, MemoryInv
<1>1. (\A t \in Threads : Fresh(t))'
  BY FreshStep
<1>2. ASSUME NEW i \in Ids, NEW j \in Ids, i < j, over'[j] = NoId,
             life'[i] = "active", life'[j] = "active", text'[i] = text'[j], author'[i] = author'[j]
      PROVE  FALSE
  <2>1. over[j] = NoId
    BY <1>0, <1>2, RowsStay DEF StoreInv
  <2>2. i <= rows' /\ j <= rows' /\ rows' \in {rows, rows + 1} /\ rows \in Nat
    <3>1. rows' \in {rows, rows + 1}
      BY StoreCases DEF Quiet, Inserts, Supersedes, Supersede, Reject, InsertMemory, vars, storeVars
    <3> QED BY <1>0, <1>2, <3>1 DEF StoreInv, RowsAreDense, Exists
  <2>3. i # rows + 1
    BY <1>2, <2>2 DEF Ids
  <2>4. life[i] = "active" /\ text'[i] = text[i] /\ author'[i] = author[i]
    <3>1. life[i] = "active"
      BY <1>0, <1>2, <2>3, RowsStay
    <3> QED BY <1>0, <3>1, RowsStay
  <2>5. CASE life[j] = "active"
    <3>1. text'[j] = text[j] /\ author'[j] = author[j]
      BY <1>0, <2>5, RowsStay
    <3> QED BY <1>2, <2>1, <2>4, <2>5, <3>1 DEF DuplicateInv, RetryDoesNotDuplicate
  <2>6. CASE life[j] # "active"
    <3>1. j = rows + 1 /\ ~Full /\ life[j] = "absent"
      BY <1>0, <1>2, <2>6, RowsStay, NewRow
    <3>2. PICK t \in Threads :
             /\ author'[j] = t
             /\ \/ pc[t] = "insert" /\ text'[j] = [what |-> op[t].what, ref |-> op[t].ref]
                \/ over'[j] \in Ids
      BY <1>0, <1>2, <3>1, NewAuthor
    <3>3. pc[t] = "insert" /\ SameText(i, t)
      BY <1>2, <2>4, <3>2 DEF SameText, Ids, NoId
    <3> QED BY <1>2, <2>4, <3>2, <3>3 DEF DuplicateInv, Fresh
  <2> QED BY <2>5, <2>6
<1>3. RetryDoesNotDuplicate'
  BY <1>2 DEF RetryDoesNotDuplicate
<1> QED BY <1>0, <1>1, <1>3 DEF DuplicateInv

(* A thread that consolidates the same experience again adds no second     *)
(* copy of a memory: whatever others insert, supersede and reject between  *)
(* the search of create_memory and its INSERT, the rows of the thread      *)
(* itself are as the search saw them.                                      *)
THEOREM RetriesDoNotDuplicate == Spec => []RetryDoesNotDuplicate
<1>1. Init => DuplicateInv
  <2> SUFFICES ASSUME Init PROVE DuplicateInv
    OBVIOUS
  <2>1. \A t \in Threads : Fresh(t)
    BY DEF Init, Fresh
  <2>2. RetryDoesNotDuplicate
    BY StoreAssumption DEF Init, StoreInit, RetryDoesNotDuplicate, Ids
  <2> QED BY <2>1, <2>2, InitMemory DEF DuplicateInv
<1>2. DuplicateInv /\ [Next]_vars => DuplicateInv'
  BY DuplicateStep
<1>3. DuplicateInv => RetryDoesNotDuplicate
  BY DEF DuplicateInv
<1> QED BY <1>1, <1>2, <1>3, PTL DEF Spec
=============================================================================

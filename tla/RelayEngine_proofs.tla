------------------------ MODULE RelayEngine_proofs ------------------------
(***************************************************************************)
(* Theorems about the relay engine, for every number of sessions, pids,    *)
(* connections and interrupt requests.                                     *)
(*                                                                         *)
(* The first part says what each operation of the session tables keeps,    *)
(* the second proves the type invariant, and each further part one         *)
(* property from an inductive invariant of its own.                        *)
(***************************************************************************)
EXTENDS RelayEngine, TLAPS

-----------------------------------------------------------------------------
(* The operations of the session tables keep their types. *)

LEMMA EventTypes ==
    /\ \A n \in Nat : Progress(n) \in Event
    /\ \A st \in SessionStatus : Terminal(st) \in Event
    /\ TerminalStatus \subseteq SessionStatus
BY DEF Progress, Terminal, Event, SessionStatus, TerminalStatus

LEMMA ThreadTypes ==
    ASSUME NEW s \in Sessions
    PROVE  /\ Dispatcher(s) \in Threads
           /\ Handler(s) \in Threads
           /\ \A k \in Streams : Reader(s, k) \in Threads
           /\ \A i \in Interrupts : Interrupter(i) \in Threads
BY DEF Dispatcher, Handler, Reader, Interrupter, Threads

LEMMA CreateSessionType ==
    ASSUME ManagerTypeOK, NEW s \in Sessions, CreateSession(s)
    PROVE  ManagerTypeOK'
BY DEF ManagerTypeOK, CreateSession, tableVars, feedVars, SessionStatus

LEMMA UpdateStatusType ==
    ASSUME ManagerTypeOK, NEW t \in Threads, NEW s \in Sessions,
           NEW st \in SessionStatus, UpdateStatus(t, s, st)
    PROVE  ManagerTypeOK'
<1>1. status' \in [Sessions -> SessionStatus \cup {"Absent"}]
  BY DEF ManagerTypeOK, UpdateStatus
<1>2. notices' \in SUBSET [by : Threads, about : Sessions, event : Event]
  BY EventTypes DEF ManagerTypeOK, UpdateStatus
<1> QED BY <1>1, <1>2 DEF ManagerTypeOK, UpdateStatus, tableVars

LEMMA AddProgressType ==
    ASSUME ManagerTypeOK, NEW t \in Threads, NEW s \in Sessions, AddProgress(t, s)
    PROVE  ManagerTypeOK'
<1>1. logged' \in [Sessions -> Nat]
  BY DEF ManagerTypeOK, AddProgress
<1>2. logged[s] + 1 \in Nat
  BY DEF ManagerTypeOK
<1>3. notices' \in SUBSET [by : Threads, about : Sessions, event : Event]
  BY <1>2, EventTypes DEF ManagerTypeOK, AddProgress
<1> QED BY <1>1, <1>3 DEF ManagerTypeOK, AddProgress, tableVars

LEMMA SetResultType ==
    ASSUME ManagerTypeOK, NEW s \in Sessions, NEW r \in Results, SetResult(s, r)
    PROVE  ManagerTypeOK'
BY DEF ManagerTypeOK, SetResult, tableVars, feedVars

LEMMA ProcessTableType ==
    ASSUME ManagerTypeOK, NEW p, NEW s \in Sessions,
           RegisterProcess(p, s) \/ UnregisterProcess(p)
    PROVE  ManagerTypeOK'
BY DEF ManagerTypeOK, RegisterProcess, UnregisterProcess, sessionVars, feedVars

LEMMA InterruptMarkType ==
    ASSUME ManagerTypeOK, NEW s \in Sessions,
           MarkInterruptRequested(s) \/ ClearInterruptRequested(s)
    PROVE  ManagerTypeOK'
BY DEF ManagerTypeOK, MarkInterruptRequested, ClearInterruptRequested,
       sessionVars, feedVars

LEMMA SubscribeType ==
    ASSUME ManagerTypeOK, NEW c \in Clients, NEW s \in Sessions, Subscribe(c, s)
    PROVE  ManagerTypeOK'
BY DEF ManagerTypeOK, Subscribe, sessionVars, tableVars

LEMMA LookupSubscribersType ==
    ASSUME ManagerTypeOK, NEW m \in notices, LookupSubscribers(m)
    PROVE  ManagerTypeOK'
BY DEF ManagerTypeOK, LookupSubscribers, sessionVars, tableVars

LEMMA DeliveredType ==
    ASSUME ManagerTypeOK, NEW d \in deliveries, Delivered(d)
    PROVE  ManagerTypeOK'
BY DEF ManagerTypeOK, Delivered, sessionVars, tableVars

LEMMA ReplayedType ==
    ASSUME ManagerTypeOK, NEW c \in Clients, ReplayLeft(c), Replayed(c)
    PROVE  ManagerTypeOK' /\ ReplayEvent(c) \in Event
<1>1. NoReplay \in [next : Nat, last : Nat, end : SessionStatus \cup {"Absent"}]
  BY DEF NoReplay, SessionStatus
<1>2. ReplayEvent(c) \in Event
  BY EventTypes DEF ManagerTypeOK, ReplayLeft, ReplayEvent
<1>3. replay' \in [Clients -> [next : Nat, last : Nat,
                               end : SessionStatus \cup {"Absent"}]]
  BY <1>1 DEF ManagerTypeOK, Replayed
<1> QED BY <1>2, <1>3 DEF ManagerTypeOK, Replayed, sessionVars, tableVars

LEMMA ManagerUnchangedType ==
    ASSUME ManagerTypeOK, UNCHANGED managerVars
    PROVE  ManagerTypeOK'
BY DEF ManagerTypeOK, managerVars

-----------------------------------------------------------------------------
(* Type correctness.  A handler of an interrupt request that has begun     *)
(* knows which session it is about; without that the entry it logs would   *)
(* be about no session, so the type invariant needs it to be inductive.    *)

RequestNamed == \A i \in Interrupts : interruptPc[i] # "idle" => interruptOf[i] \in Sessions

TypeInv == TypeOK /\ RequestNamed

LEMMA InitTypeInv == Init => TypeInv
<1> SUFFICES ASSUME Init PROVE TypeInv
  OBVIOUS
<1>1. ManagerTypeOK
  BY DEF Init, ManagerInit, ManagerTypeOK, NoReplay, SessionStatus
<1>2. ThreadTypeOK
  BY DEF Init, ThreadTypeOK, HandlerLabel, DispatchLabel, InterruptLabel
<1>3. RequestNamed
  BY DEF Init, RequestNamed
<1> QED BY <1>1, <1>2, <1>3 DEF TypeInv, TypeOK

LEMMA HandlerTypeStep ==
    ASSUME TypeInv, NEW s \in Sessions, HandlerNext(s)
    PROVE  TypeInv'
<1> USE DEF TypeInv, TypeOK
<1>1. ThreadTypeOK' /\ RequestNamed'
  BY DEF HandlerNext, HandlerStep, HandleDispatch, DispatchToAgent, AgentNotFound,
         RejectDispatch, ReplyDispatch, ThreadTypeOK, RequestNamed, osVars,
         HandlerLabel, DispatchLabel
<1>2. ManagerTypeOK'
  <2>1. CASE HandleDispatch(s) BY <2>1, CreateSessionType DEF HandleDispatch
  <2>2. CASE DispatchToAgent(s)
    BY <2>2, UpdateStatusType, ThreadTypes DEF DispatchToAgent, SessionStatus
  <2>3. CASE AgentNotFound(s) BY <2>3, SetResultType DEF AgentNotFound, Results
  <2>4. CASE RejectDispatch(s)
    BY <2>4, UpdateStatusType, ThreadTypes DEF RejectDispatch, SessionStatus
  <2>5. CASE ReplyDispatch(s) BY <2>5, ManagerUnchangedType DEF ReplyDispatch
  <2> QED BY <2>1, <2>2, <2>3, <2>4, <2>5 DEF HandlerNext
<1> QED BY <1>1, <1>2

LEMMA DispatcherTypeStep ==
    ASSUME TypeInv, NEW s \in Sessions, DispatcherNext(s)
    PROVE  TypeInv'
<1> USE DEF TypeInv, TypeOK
<1>1. ThreadTypeOK' /\ RequestNamed'
  <2> USE DEF DispatchStep, ThreadTypeOK, RequestNamed, osVars, DispatchLabel
  <2>1. CASE SpawnProcess(s) BY <2>1 DEF SpawnProcess
  <2>2. CASE SpawnFails(s) \/ SaveSpawnError(s) \/ LogSpawnError(s)
    BY <2>2 DEF SpawnFails, SaveSpawnError, LogSpawnError
  <2>3. CASE Register(s) \/ AnnounceStart(s) BY <2>3 DEF Register, AnnounceStart
  <2>4. CASE StartReaders(s) BY <2>4 DEF StartReaders
  <2>5. CASE WaitReturns(s) BY <2>5 DEF WaitReturns
  <2>6. CASE JoinReaders(s) \/ Unregister(s) \/ CheckFlag(s) \/ CheckStatus(s)
    BY <2>6 DEF JoinReaders, Unregister, CheckFlag, CheckStatus
  <2>7. CASE SaveResult(s) \/ Finish(s) BY <2>7 DEF SaveResult, Finish
  <2>8. CASE ClearFlag(s) \/ MarkInterrupted(s) \/ SaveInterrupted(s)
    BY <2>8 DEF ClearFlag, MarkInterrupted, SaveInterrupted
  <2> QED BY <2>1, <2>2, <2>3, <2>4, <2>5, <2>6, <2>7, <2>8 DEF DispatcherNext
<1>2. ManagerTypeOK'
  <2>1. CASE UNCHANGED managerVars BY <2>1, ManagerUnchangedType
  <2>2. CASE SaveSpawnError(s) \/ SaveResult(s)
    BY <2>2, SetResultType DEF SaveSpawnError, SaveResult, Results
  <2>3. CASE SaveInterrupted(s)
    BY <2>3, SetResultType, ManagerUnchangedType DEF SaveInterrupted, Results
  <2>4. CASE LogSpawnError(s) \/ AnnounceStart(s)
    BY <2>4, AddProgressType, ThreadTypes DEF LogSpawnError, AnnounceStart
  <2>5. CASE Register(s) \/ Unregister(s)
    BY <2>5, ProcessTableType DEF Register, Unregister
  <2>6. CASE ClearFlag(s) BY <2>6, InterruptMarkType DEF ClearFlag
  <2>7. CASE Finish(s) \/ MarkInterrupted(s)
    BY <2>7, UpdateStatusType, ThreadTypes DEF Finish, MarkInterrupted, SessionStatus
  <2> QED BY <2>1, <2>2, <2>3, <2>4, <2>5, <2>6, <2>7
          DEF DispatcherNext, SpawnProcess, SpawnFails, StartReaders, WaitReturns,
              JoinReaders, CheckFlag, CheckStatus
<1> QED BY <1>1, <1>2

LEMMA ReaderTypeStep ==
    ASSUME TypeInv, NEW s \in Sessions, NEW k \in Streams, ReaderNext(s, k)
    PROVE  TypeInv'
<1> USE DEF TypeInv, TypeOK, ReaderNext, ReadLine, ReadFails, ReadEnd
<1>1. ThreadTypeOK' /\ RequestNamed'
  BY DEF ReaderStep, ThreadTypeOK, RequestNamed, osVars
<1>2. ManagerTypeOK'
  BY AddProgressType, ManagerUnchangedType, ThreadTypes
<1> QED BY <1>1, <1>2

LEMMA InterruptTypeStep ==
    ASSUME TypeInv, NEW i \in Interrupts,
           InterruptNext(i) \/ \E s \in Sessions : InterruptRequest(i, s)
    PROVE  TypeInv'
<1> USE DEF TypeInv, TypeOK
<1>1. CASE \E s \in Sessions : InterruptRequest(i, s)
  <2>1. UNCHANGED managerVars
    BY <1>1 DEF InterruptRequest, FindProcess, NoProcessFound
  <2>2. ThreadTypeOK' /\ RequestNamed'
    <3> USE DEF InterruptStep, ThreadTypeOK, RequestNamed, osVars, InterruptLabel
    <3>1. PICK s \in Sessions : InterruptRequest(i, s)
      BY <1>1
    <3>2. CASE FindProcess(i, s)
      BY <3>2 DEF FindProcess
    <3>3. CASE NoProcessFound(i, s)
      BY <3>3 DEF NoProcessFound
    <3> QED BY <3>1, <3>2, <3>3 DEF InterruptRequest
  <2> QED BY <2>1, <2>2, ManagerUnchangedType
<1>2. CASE InterruptNext(i)
  <2>1. interruptOf[i] \in Sessions
    BY <1>2 DEF InterruptNext, InterruptStep, RequestNamed, MarkRequested, KillSucceeds,
                KillFails, ClearAfterFailedKill, LogInterrupt, UnregisterKilled,
                SetInterrupted
  <2>2. ThreadTypeOK' /\ RequestNamed'
    <3> USE DEF InterruptStep, ThreadTypeOK, RequestNamed, osVars, InterruptLabel
    <3>1. CASE KillSucceeds(i) BY <3>1 DEF KillSucceeds
    <3> QED BY <1>2, <3>1
            DEF InterruptNext, MarkRequested, KillFails, ClearAfterFailedKill,
                LogInterrupt, UnregisterKilled, SetInterrupted
  <2>3. ManagerTypeOK'
    <3>1. CASE KillSucceeds(i) \/ KillFails(i)
      BY <3>1, ManagerUnchangedType DEF KillSucceeds, KillFails
    <3>2. CASE MarkRequested(i) \/ ClearAfterFailedKill(i)
      BY <3>2, <2>1, InterruptMarkType DEF MarkRequested, ClearAfterFailedKill
    <3>3. CASE LogInterrupt(i)
      BY <3>3, <2>1, AddProgressType, ThreadTypes DEF LogInterrupt
    <3>4. CASE UnregisterKilled(i)
      BY <3>4, <2>1, ProcessTableType DEF UnregisterKilled
    <3>5. CASE SetInterrupted(i)
      BY <3>5, <2>1, UpdateStatusType, ThreadTypes DEF SetInterrupted, SessionStatus
    <3> QED BY <1>2, <3>1, <3>2, <3>3, <3>4, <3>5 DEF InterruptNext
  <2> QED BY <2>2, <2>3
<1> QED BY <1>1, <1>2

LEMMA FeedTypeStep ==
    ASSUME TypeInv,
           \/ \E c \in Clients, s \in Sessions : HandleSubscribe(c, s)
           \/ \E c \in Clients : ReplayNext(c)
           \/ \E t \in Threads : Publish(t)
    PROVE  TypeInv'
<1> USE DEF TypeInv, TypeOK
<1>1. CASE \E c \in Clients, s \in Sessions : HandleSubscribe(c, s)
  BY <1>1, SubscribeType DEF HandleSubscribe, ThreadTypeOK, RequestNamed, pcVars, osVars
<1>2. CASE \E c \in Clients : ReplayNext(c)
  BY <1>2, ReplayedType DEF ReplayNext, Wire, ThreadTypeOK, RequestNamed, pcVars, osVars
<1>3. CASE \E t \in Threads : Publish(t)
  <2>1. CASE \E t \in Threads : StartPublish(t)
    BY <2>1, LookupSubscribersType
       DEF StartPublish, ThreadTypeOK, RequestNamed, pcVars, osVars
  <2>2. CASE \E t \in Threads : SendEvent(t)
    <3>1. PICK d \in deliveries : Wire(d.to, d.event) /\ Delivered(d)
                                    /\ UNCHANGED <<pcVars, osVars>>
      BY <2>2 DEF SendEvent
    <3>2. d.to \in Clients /\ d.event \in Event
      BY DEF ManagerTypeOK
    <3> QED BY <3>1, <3>2, DeliveredType DEF Wire, ThreadTypeOK, RequestNamed, pcVars, osVars
  <2> QED BY <1>3, <2>1, <2>2 DEF Publish
<1> QED BY <1>1, <1>2, <1>3

LEMMA TypeInvStep == TypeInv /\ [Next]_vars => TypeInv'
<1> SUFFICES ASSUME TypeInv, [Next]_vars PROVE TypeInv'
  OBVIOUS
<1>1. ASSUME NEW s \in Sessions, ProcessExits(s) PROVE TypeInv'
  BY <1>1, ManagerUnchangedType
     DEF ProcessExits, TypeInv, TypeOK, ThreadTypeOK, RequestNamed, pcVars
<1>2. CASE UNCHANGED vars
  BY <1>2, ManagerUnchangedType DEF vars, TypeInv, TypeOK, ThreadTypeOK, RequestNamed
<1> QED BY <1>1, <1>2, HandlerTypeStep, DispatcherTypeStep, ReaderTypeStep,
           InterruptTypeStep, FeedTypeStep DEF Next, AllServed

(* In every reachable state the session tables, the threads' program       *)
(* counters and the events written to connections have their types.        *)
THEOREM TypeCorrect == Spec => []TypeOK
<1>1. TypeInv => TypeOK
  BY DEF TypeInv
<1> QED BY <1>1, InitTypeInv, TypeInvStep, PTL DEF Spec

-----------------------------------------------------------------------------
(* Results.  Where the dispatcher stands tells whether the result is       *)
(* stored: nothing is stored while it works, and it passes the statements  *)
(* that end the session only with a result.                                *)

Working == {"spawn", "register", "announce", "readers", "wait", "join", "unregister",
            "checkFlag", "checkStatus", "saveResult", "clearFlag", "markInterrupted",
            "saveInterrupted", "saveError"}

ResultOf(s) ==
    /\ handlerPc[s] \in {"off", "lookup"} => dispatchPc[s] = "off" /\ result[s] = "none"
    /\ handlerPc[s] = "reject" => dispatchPc[s] = "off" /\ result[s] # "none"
    /\ dispatchPc[s] \in Working => result[s] = "none"
    /\ dispatchPc[s] \in {"logError", "finish", "done"} => result[s] # "none"
    /\ status[s] \in {"Completed", "Failed"} => result[s] # "none"

ResultInv == \A s \in Sessions : ResultOf(s)

(* What the threads that are neither a session's dispatch handler nor its  *)
(* dispatcher do to sessions.                                              *)
OthersStep ==
    \/ \E s \in Sessions : ProcessExits(s)
    \/ \E s \in Sessions, k \in Streams : ReaderNext(s, k)
    \/ \E i \in Interrupts : InterruptNext(i)
    \/ \E i \in Interrupts, s \in Sessions : InterruptRequest(i, s)
    \/ \E c \in Clients, s \in Sessions : HandleSubscribe(c, s)
    \/ \E c \in Clients : ReplayNext(c)
    \/ \E t \in Threads : Publish(t)
    \/ AllServed

LEMMA NextCases ==
    Next <=> \/ \E s \in Sessions : HandlerNext(s)
             \/ \E s \in Sessions : DispatcherNext(s)
             \/ OthersStep
BY DEF Next, OthersStep

LEMMA OthersKeep ==
    ASSUME TypeInv, OthersStep
    PROVE  /\ UNCHANGED <<handlerPc, dispatchPc, result, pidOf>>
           /\ \A s \in Sessions : status'[s] # status[s] => status'[s] = "Interrupted"
<1>1. CASE \E s \in Sessions : ProcessExits(s)
  BY <1>1 DEF ProcessExits, managerVars, pcVars
<1>2. CASE \E s \in Sessions, k \in Streams : ReaderNext(s, k)
  BY <1>2 DEF ReaderNext, ReadLine, ReadFails, ReadEnd, ReaderStep, AddProgress,
              managerVars, osVars
<1>3. CASE \E i \in Interrupts : InterruptNext(i)
  <2> PICK i \in Interrupts : InterruptNext(i)
    BY <1>3
  <2> USE DEF InterruptStep, managerVars, osVars, sessionVars
  <2>1. CASE MarkRequested(i) BY <2>1 DEF MarkRequested, MarkInterruptRequested
  <2>2. CASE KillSucceeds(i) BY <2>2 DEF KillSucceeds
  <2>3. CASE KillFails(i) BY <2>3 DEF KillFails
  <2>4. CASE ClearAfterFailedKill(i)
    BY <2>4 DEF ClearAfterFailedKill, ClearInterruptRequested
  <2>5. CASE LogInterrupt(i) BY <2>5 DEF LogInterrupt, AddProgress
  <2>6. CASE UnregisterKilled(i) BY <2>6 DEF UnregisterKilled, UnregisterProcess
  <2>7. CASE SetInterrupted(i)
    BY <2>7 DEF SetInterrupted, UpdateStatus, TypeInv, TypeOK, ManagerTypeOK
  <2> QED BY <2>1, <2>2, <2>3, <2>4, <2>5, <2>6, <2>7 DEF InterruptNext
<1>4. CASE \E i \in Interrupts, s \in Sessions : InterruptRequest(i, s)
  BY <1>4 DEF InterruptRequest, FindProcess, NoProcessFound, InterruptStep,
              managerVars, osVars
<1>5. CASE \E c \in Clients, s \in Sessions : HandleSubscribe(c, s)
  BY <1>5 DEF HandleSubscribe, Subscribe, sessionVars, pcVars, osVars
<1>6. CASE \E c \in Clients : ReplayNext(c)
  BY <1>6 DEF ReplayNext, Replayed, sessionVars, pcVars, osVars
<1>7. CASE \E t \in Threads : Publish(t)
  BY <1>7 DEF Publish, StartPublish, SendEvent, LookupSubscribers, Delivered,
              sessionVars, pcVars, osVars
<1>8. CASE AllServed
  BY <1>8 DEF AllServed, vars, managerVars
<1> QED BY <1>1, <1>2, <1>3, <1>4, <1>5, <1>6, <1>7, <1>8 DEF OthersStep

LEMMA ResultInvInit == Init => ResultInv
<1> SUFFICES ASSUME Init, NEW s \in Sessions PROVE ResultOf(s)
  BY DEF ResultInv
<1>1. /\ handlerPc[s] = "off" /\ dispatchPc[s] = "off"
      /\ result[s] = "none" /\ status[s] = "Absent"
  BY DEF Init, ManagerInit
<1> QED BY <1>1 DEF ResultOf, Working

LEMMA ResultInvStep == TypeInv /\ ResultInv /\ [Next]_vars => ResultInv'
<1> SUFFICES ASSUME TypeInv, ResultInv, [Next]_vars, NEW q \in Sessions
             PROVE  ResultOf(q)'
  BY DEF ResultInv
<1> USE DEF TypeInv, TypeOK, ManagerTypeOK, ThreadTypeOK, ResultInv, ResultOf, Working
<1>1. ASSUME NEW s \in Sessions, HandlerNext(s) PROVE ResultOf(q)'
  <2> USE DEF HandlerStep
  <2>1. CASE HandleDispatch(s) BY <2>1 DEF HandleDispatch, CreateSession
  <2>2. CASE DispatchToAgent(s) BY <2>2 DEF DispatchToAgent, UpdateStatus
  <2>3. CASE AgentNotFound(s) BY <2>3 DEF AgentNotFound, SetResult
  <2>4. CASE RejectDispatch(s) BY <2>4 DEF RejectDispatch, UpdateStatus
  <2>5. CASE ReplyDispatch(s) BY <2>5 DEF ReplyDispatch, managerVars
  <2> QED BY <1>1, <2>1, <2>2, <2>3, <2>4, <2>5 DEF HandlerNext
<1>2. ASSUME NEW s \in Sessions, DispatcherNext(s) PROVE ResultOf(q)'
  <2> USE DEF DispatchStep
  <2>1. CASE SpawnProcess(s) \/ SpawnFails(s) \/ StartReaders(s) \/ WaitReturns(s)
               \/ JoinReaders(s) \/ CheckFlag(s) \/ CheckStatus(s)
    BY <2>1 DEF SpawnProcess, SpawnFails, StartReaders, WaitReturns, JoinReaders,
                CheckFlag, CheckStatus, managerVars
  <2>2. CASE SaveSpawnError(s) \/ SaveResult(s)
    BY <2>2 DEF SaveSpawnError, SaveResult, SetResult
  <2>3. CASE LogSpawnError(s) \/ AnnounceStart(s)
    BY <2>3 DEF LogSpawnError, AnnounceStart, AddProgress
  <2>4. CASE Register(s) \/ Unregister(s) \/ ClearFlag(s)
    BY <2>4 DEF Register, Unregister, ClearFlag, RegisterProcess, UnregisterProcess,
                ClearInterruptRequested, sessionVars
  <2>5. CASE Finish(s) \/ MarkInterrupted(s)
    BY <2>5 DEF Finish, MarkInterrupted, UpdateStatus
  <2>6. CASE SaveInterrupted(s)
    BY <2>6 DEF SaveInterrupted, SetResult, managerVars
  <2> QED BY <1>2, <2>1, <2>2, <2>3, <2>4, <2>5, <2>6 DEF DispatcherNext
<1>3. CASE OthersStep
  BY <1>3, OthersKeep
<1>4. CASE UNCHANGED vars
  BY <1>4 DEF vars, managerVars
<1> QED BY <1>1, <1>2, <1>3, <1>4, NextCases

(* A session that a poll shows as completed or failed has its result, and  *)
(* an interrupted one gets it from its dispatcher.                         *)
THEOREM EndedSessionsHaveResults == Spec => []EndedHasResult
<1>1. ResultInv => EndedHasResult
  BY DEF ResultInv, ResultOf, EndedHasResult
<1> QED BY <1>1, InitTypeInv, TypeInvStep, ResultInvInit, ResultInvStep, PTL DEF Spec

LEMMA ResultKept ==
    TypeInv /\ ResultInv /\ [Next]_vars =>
        [\A s \in Sessions : result[s] # "none" => result'[s] = result[s]]_vars
<1> SUFFICES ASSUME TypeInv, ResultInv, Next, NEW q \in Sessions, result[q] # "none"
             PROVE  result'[q] = result[q]
  OBVIOUS
<1> USE DEF TypeInv, TypeOK, ManagerTypeOK, ResultInv, ResultOf, Working
<1>1. ASSUME NEW s \in Sessions, HandlerNext(s) PROVE result'[q] = result[q]
  BY <1>1 DEF HandlerNext, HandlerStep, HandleDispatch, DispatchToAgent, AgentNotFound,
              RejectDispatch, ReplyDispatch, CreateSession, UpdateStatus, SetResult,
              managerVars
<1>2. ASSUME NEW s \in Sessions, DispatcherNext(s) PROVE result'[q] = result[q]
  <2>1. CASE SaveSpawnError(s) \/ SaveResult(s) \/ SaveInterrupted(s)
    BY <2>1 DEF SaveSpawnError, SaveResult, SaveInterrupted, DispatchStep, SetResult,
                managerVars
  <2>2. CASE UNCHANGED result
    BY <2>2
  <2> QED BY <1>2, <2>1, <2>2
          DEF DispatcherNext, SpawnProcess, SpawnFails, LogSpawnError, Register,
              AnnounceStart, StartReaders, WaitReturns, JoinReaders, Unregister,
              CheckFlag, CheckStatus, Finish, ClearFlag, MarkInterrupted, managerVars,
              sessionVars, AddProgress, RegisterProcess, UnregisterProcess,
              ClearInterruptRequested, UpdateStatus
<1>3. CASE OthersStep
  BY <1>3, OthersKeep
<1> QED BY <1>1, <1>2, <1>3, NextCases

(* No thread ever replaces a stored result: the spawn-error path, the      *)
(* normal path and the interrupted path exclude each other.                *)
THEOREM ResultsAreFinal == Spec => ResultIsFinal
BY InitTypeInv, TypeInvStep, ResultInvInit, ResultInvStep, ResultKept, PTL
   DEF Spec, ResultIsFinal

-----------------------------------------------------------------------------
(* Registrations.  An entry of the process table names the process of its  *)
(* session, and exists only while the dispatcher is between its two calls. *)

Registered == {"announce", "readers", "wait", "join", "unregister"}

RegistrationInv ==
    \A p \in Pids, s \in Sessions :
        processes[p] = s => pidOf[s] = p /\ dispatchPc[s] \in Registered

LEMMA RegistrationInvInit == Init => RegistrationInv
BY NoneAssumption DEF Init, ManagerInit, RegistrationInv

LEMMA RegistrationInvStep ==
    TypeInv /\ ResultInv /\ RegistrationInv /\ [Next]_vars => RegistrationInv'
<1> SUFFICES ASSUME TypeInv, ResultInv, RegistrationInv, [Next]_vars,
                    NEW p \in Pids, NEW q \in Sessions, processes'[p] = q
             PROVE  pidOf'[q] = p /\ dispatchPc'[q] \in Registered
  BY DEF RegistrationInv
<1> USE NoneAssumption DEF TypeInv, TypeOK, ManagerTypeOK, ThreadTypeOK,
                           RegistrationInv, Registered
<1>1. ASSUME NEW s \in Sessions, HandlerNext(s)
      PROVE  pidOf'[q] = p /\ dispatchPc'[q] \in Registered
  <2>1. processes' = processes /\ pidOf' = pidOf
    BY <1>1 DEF HandlerNext, HandlerStep, HandleDispatch, DispatchToAgent, AgentNotFound,
                RejectDispatch, ReplyDispatch, CreateSession, UpdateStatus, SetResult,
                managerVars, tableVars, osVars
  <2>2. CASE DispatchToAgent(s)
    <3>1. dispatchPc[s] = "off"
      BY <2>2 DEF DispatchToAgent, HandlerStep, ResultInv, ResultOf
    <3> QED BY <2>1, <2>2, <3>1 DEF DispatchToAgent
  <2>3. CASE UNCHANGED dispatchPc
    BY <2>1, <2>3
  <2> QED BY <1>1, <2>2, <2>3 DEF HandlerNext, HandleDispatch, AgentNotFound,
                                  RejectDispatch, ReplyDispatch
<1>2. ASSUME NEW s \in Sessions, DispatcherNext(s)
      PROVE  pidOf'[q] = p /\ dispatchPc'[q] \in Registered
  <2> USE DEF DispatchStep
  <2>1. CASE SpawnProcess(s)
    BY <2>1 DEF SpawnProcess, managerVars
  <2>2. CASE Register(s)
    BY <2>2 DEF Register, RegisterProcess, osVars
  <2>3. CASE Unregister(s)
    BY <2>3 DEF Unregister, UnregisterProcess, osVars
  <2>4. CASE AnnounceStart(s) \/ StartReaders(s) \/ WaitReturns(s) \/ JoinReaders(s)
    <3>1. processes' = processes /\ pidOf' = pidOf
      BY <2>4 DEF AnnounceStart, StartReaders, WaitReturns, JoinReaders, AddProgress,
                  managerVars, tableVars, osVars
    <3>2. \E to \in Registered : dispatchPc' = [dispatchPc EXCEPT ![s] = to]
      BY <2>4 DEF AnnounceStart, StartReaders, WaitReturns, JoinReaders
    <3> QED BY <3>1, <3>2
  <2>5. CASE \/ SpawnFails(s) \/ SaveSpawnError(s) \/ LogSpawnError(s) \/ CheckFlag(s)
             \/ CheckStatus(s) \/ SaveResult(s) \/ Finish(s) \/ ClearFlag(s)
             \/ MarkInterrupted(s) \/ SaveInterrupted(s)
    BY <2>5 DEF SpawnFails, SaveSpawnError, LogSpawnError, CheckFlag, CheckStatus,
                SaveResult, Finish, ClearFlag, MarkInterrupted, SaveInterrupted,
                AddProgress, SetResult, UpdateStatus, ClearInterruptRequested,
                managerVars, tableVars, sessionVars, osVars
  <2> QED BY <1>2, <2>1, <2>2, <2>3, <2>4, <2>5 DEF DispatcherNext
<1>3. CASE OthersStep
  <2>1. processes'[p] = q => processes[p] = q
    <3>1. CASE \E i \in Interrupts : InterruptNext(i)
      BY <3>1 DEF InterruptNext, MarkRequested, KillSucceeds, KillFails,
                  ClearAfterFailedKill, LogInterrupt, UnregisterKilled, SetInterrupted,
                  MarkInterruptRequested, ClearInterruptRequested, AddProgress,
                  UnregisterProcess, UpdateStatus, managerVars, tableVars
    <3>2. CASE processes' = processes
      BY <3>2
    <3> QED BY <1>3, <3>1, <3>2
            DEF OthersStep, ProcessExits, ReaderNext, ReadLine, ReadFails, ReadEnd,
                AddProgress, InterruptRequest, FindProcess, NoProcessFound,
                HandleSubscribe, Subscribe, ReplayNext, Replayed, Publish, StartPublish,
                SendEvent, LookupSubscribers, Delivered, AllServed, vars, managerVars,
                tableVars
  <2> QED BY <1>3, <2>1, OthersKeep
<1>4. CASE UNCHANGED vars
  BY <1>4 DEF vars, managerVars
<1> QED BY <1>1, <1>2, <1>3, <1>4, NextCases

(* A session whose dispatcher has unregistered its process, or never had   *)
(* one, is not in the process table, even if the system gave its pid out   *)
(* again meanwhile.                                                        *)
THEOREM NoRegistrationLeft == Spec => []NoStaleRegistration
<1>1. TypeInv /\ RegistrationInv => NoStaleRegistration
  BY DEF RegistrationInv, NoStaleRegistration, Unregistered, Registered
<1> QED BY <1>1, InitTypeInv, TypeInvStep, ResultInvInit, ResultInvStep,
           RegistrationInvInit, RegistrationInvStep, PTL DEF Spec

-----------------------------------------------------------------------------
(* Subscriptions.  Every step but those of the publication itself leaves   *)
(* what is on its way alone and announces what it adds to a session.       *)

Announced ==
    /\ UNCHANGED <<subscribers, replay, received>>
    /\ notices \subseteq notices' /\ deliveries \subseteq deliveries'
    /\ \A s \in Sessions :
         \/ logged'[s] = logged[s]
         \/ /\ logged'[s] = logged[s] + 1
            /\ \E m \in notices' : m.about = s /\ m.event = Progress(logged'[s])
    /\ \A s \in Sessions :
         status'[s] # status[s] /\ status'[s] \in TerminalStatus =>
             \E m \in notices' : m.about = s /\ m.event = Terminal(status'[s])

Feeding ==
    \/ \E c \in Clients, s \in Sessions : HandleSubscribe(c, s)
    \/ \E c \in Clients : ReplayNext(c)
    \/ \E t \in Threads : Publish(t)

LEMMA UpdateStatusAnnounced ==
    ASSUME TypeInv, NEW t, NEW s \in Sessions, NEW st \in SessionStatus,
           UpdateStatus(t, s, st), UNCHANGED received
    PROVE  Announced
<1>1. UNCHANGED <<logged, subscribers, deliveries, replay>> /\ notices \subseteq notices'
  BY DEF UpdateStatus
<1>2. ASSUME NEW q \in Sessions, status'[q] # status[q], status'[q] \in TerminalStatus
      PROVE  \E m \in notices' : m.about = q /\ m.event = Terminal(status'[q])
  <2>1. q = s /\ status'[q] = st
    BY <1>2 DEF UpdateStatus, TypeInv, TypeOK, ManagerTypeOK
  <2>2. [by |-> t, about |-> s, event |-> Terminal(st)] \in notices'
    BY <1>2, <2>1 DEF UpdateStatus
  <2> QED BY <2>1, <2>2
<1> QED BY <1>1, <1>2 DEF Announced

LEMMA AddProgressAnnounced ==
    ASSUME TypeInv, NEW t, NEW s \in Sessions, AddProgress(t, s), UNCHANGED received
    PROVE  Announced
<1>1. /\ UNCHANGED <<status, subscribers, deliveries, replay>>
      /\ notices \subseteq notices'
  BY DEF AddProgress
<1>2. /\ logged'[s] = logged[s] + 1
      /\ \A q \in Sessions : q # s => logged'[q] = logged[q]
  BY DEF AddProgress, TypeInv, TypeOK, ManagerTypeOK
<1>3. [by |-> t, about |-> s, event |-> Progress(logged[s] + 1)] \in notices'
  BY DEF AddProgress
<1>4. \E m \in notices' : m.about = s /\ m.event = Progress(logged'[s])
  BY <1>2, <1>3
<1> QED BY <1>1, <1>2, <1>4 DEF Announced

LEMMA SilentAnnounced ==
    ASSUME UNCHANGED <<status, logged, subscribers, notices, deliveries, replay, received>>
    PROVE  Announced
BY DEF Announced

LEMMA EveryStepAnnounces ==
    ASSUME TypeInv, [Next]_vars
    PROVE  Announced \/ Feeding
<1> DEFINE Silent == UNCHANGED <<status, logged, subscribers, notices, deliveries,
                                 replay, received>>
<1> USE DEF managerVars, sessionVars, tableVars, feedVars
<1>1. ASSUME NEW s \in Sessions, HandlerNext(s) PROVE Announced
  <2>1. CASE HandleDispatch(s)
    BY <2>1 DEF HandleDispatch, HandlerStep, CreateSession, Announced, TypeInv, TypeOK,
                ManagerTypeOK, TerminalStatus
  <2>2. CASE DispatchToAgent(s) \/ RejectDispatch(s)
    BY <2>2, UpdateStatusAnnounced
       DEF DispatchToAgent, RejectDispatch, HandlerStep, SessionStatus
  <2>3. CASE AgentNotFound(s) \/ ReplyDispatch(s)
    BY <2>3, SilentAnnounced DEF AgentNotFound, ReplyDispatch, HandlerStep, SetResult
  <2> QED BY <1>1, <2>1, <2>2, <2>3 DEF HandlerNext
<1>2. ASSUME NEW s \in Sessions, DispatcherNext(s) PROVE Announced
  <2> USE DEF DispatchStep
  <2>1. CASE LogSpawnError(s) \/ AnnounceStart(s)
    BY <2>1, AddProgressAnnounced DEF LogSpawnError, AnnounceStart
  <2>2. CASE Finish(s) \/ MarkInterrupted(s)
    BY <2>2, UpdateStatusAnnounced DEF Finish, MarkInterrupted, SessionStatus
  <2>3. CASE SaveSpawnError(s) \/ SaveResult(s) \/ SaveInterrupted(s) \/ Register(s)
               \/ Unregister(s) \/ ClearFlag(s)
    BY <2>3, SilentAnnounced
       DEF SaveSpawnError, SaveResult, SaveInterrupted, Register, Unregister, ClearFlag,
           SetResult, RegisterProcess, UnregisterProcess, ClearInterruptRequested
  <2> QED BY <1>2, <2>1, <2>2, <2>3, SilentAnnounced
          DEF DispatcherNext, SpawnProcess, SpawnFails, StartReaders, WaitReturns,
              JoinReaders, CheckFlag, CheckStatus
<1>3. ASSUME NEW s \in Sessions, NEW k \in Streams, ReaderNext(s, k) PROVE Announced
  BY <1>3, AddProgressAnnounced, SilentAnnounced
     DEF ReaderNext, ReadLine, ReadFails, ReadEnd, ReaderStep
<1>4. ASSUME NEW i \in Interrupts, NEW s \in Sessions, InterruptRequest(i, s)
      PROVE  Announced
  BY <1>4, SilentAnnounced DEF InterruptRequest, FindProcess, NoProcessFound, InterruptStep
<1>5. ASSUME NEW i \in Interrupts, InterruptNext(i) PROVE Announced
  <2> USE DEF InterruptStep
  <2>1. interruptOf[i] \in Sessions
    BY <1>5 DEF TypeInv, InterruptNext, RequestNamed, MarkRequested, KillSucceeds,
                KillFails, ClearAfterFailedKill, LogInterrupt, UnregisterKilled,
                SetInterrupted
  <2>2. CASE LogInterrupt(i)
    BY <2>1, <2>2, AddProgressAnnounced DEF LogInterrupt
  <2>3. CASE SetInterrupted(i)
    BY <2>1, <2>3, UpdateStatusAnnounced DEF SetInterrupted, SessionStatus
  <2>4. CASE MarkRequested(i) \/ KillSucceeds(i) \/ KillFails(i)
               \/ ClearAfterFailedKill(i) \/ UnregisterKilled(i)
    BY <2>4, SilentAnnounced
       DEF MarkRequested, KillSucceeds, KillFails, ClearAfterFailedKill,
           UnregisterKilled, MarkInterruptRequested, ClearInterruptRequested,
           UnregisterProcess
  <2> QED BY <1>5, <2>2, <2>3, <2>4 DEF InterruptNext
<1>6. ASSUME NEW s \in Sessions, ProcessExits(s) PROVE Announced
  BY <1>6, SilentAnnounced DEF ProcessExits
<1>7. CASE UNCHANGED vars
  BY <1>7, SilentAnnounced DEF vars
<1> QED BY <1>1, <1>2, <1>3, <1>4, <1>5, <1>6, <1>7 DEF Next, AllServed, Feeding

Covered(c, s, e) == Heard(c, e) \/ Coming(c, s, e)

Events == {Progress(n) : n \in Nat} \cup {Terminal(st) : st \in TerminalStatus}

LEMMA WireKeepsHeard ==
    ASSUME TypeInv, NEW d \in Clients, NEW e \in Event, Wire(d, e)
    PROVE  /\ Heard(d, e)'
           /\ \A c \in Clients : \A x : Heard(c, x) => Heard(c, x)'
<1>1. received \in [Clients -> Seq(Event)] /\ received[d] \in Seq(Event)
  BY DEF TypeInv, TypeOK, ThreadTypeOK
<1>2. received'[d] = Append(received[d], e)
  BY <1>1 DEF Wire
<1>3. /\ DOMAIN received[d] \subseteq DOMAIN received'[d]
      /\ \A n \in DOMAIN received[d] : received'[d][n] = received[d][n]
      /\ Len(received[d]) + 1 \in DOMAIN received'[d]
      /\ received'[d][Len(received[d]) + 1] = e
  BY <1>1, <1>2
<1>4. \A c \in Clients : c # d => received'[c] = received[c]
  BY <1>1 DEF Wire
<1> QED BY <1>3, <1>4 DEF Heard

\* A count that may have grown by one has at most its new end to look at.
LEMMA OneMore ==
    ASSUME NEW old \in Nat, NEW new, new = old \/ new = old + 1, NEW n \in 1..new
    PROVE  n \in 1..old \/ (n = old + 1 /\ new = old + 1)
OBVIOUS

LEMMA NoEventLostStep ==
    TypeInv /\ NoEventLost /\ [Next]_vars => NoEventLost'
<1> SUFFICES ASSUME TypeInv, NoEventLost, [Next]_vars,
                    NEW s \in Sessions, NEW c \in subscribers'[s]
             PROVE  /\ \A n \in 1..logged'[s] : Covered(c, s, Progress(n))'
                    /\ status'[s] \in TerminalStatus =>
                         Covered(c, s, Terminal(status[s]))'
  BY DEF NoEventLost, Covered
<1> USE DEF TypeInv, TypeOK, ManagerTypeOK, ThreadTypeOK
<1>0. c \in Clients
  BY TypeInvStep
<1>1. CASE Announced
  <2>1. c \in subscribers[s]
    BY <1>1 DEF Announced
  <2>2. ASSUME NEW e, Covered(c, s, e) PROVE Covered(c, s, e)'
    BY <1>1, <2>2 DEF Announced, Covered, Heard, Coming
  <2>3. ASSUME NEW n \in 1..logged'[s] PROVE Covered(c, s, Progress(n))'
    <3>1. CASE n \in 1..logged[s]
      BY <2>1, <2>2, <3>1 DEF NoEventLost, Covered
    <3>2. CASE n = logged[s] + 1 /\ logged'[s] = logged[s] + 1
      <4>1. \/ logged'[s] = logged[s]
            \/ \E m \in notices' : m.about = s /\ m.event = Progress(logged'[s])
        BY <1>1 DEF Announced
      <4>2. \E m \in notices' : m.about = s /\ m.event = Progress(n)
        BY <3>2, <4>1
      <4> QED BY <4>2 DEF Covered, Coming
    <3>3. logged[s] \in Nat /\ (logged'[s] = logged[s] \/ logged'[s] = logged[s] + 1)
      BY <1>1 DEF Announced
    <3>4. n \in 1..logged[s] \/ (n = logged[s] + 1 /\ logged'[s] = logged[s] + 1)
      BY <3>3, OneMore
    <3> QED BY <3>1, <3>2, <3>4
  <2>4. ASSUME status'[s] \in TerminalStatus PROVE Covered(c, s, Terminal(status[s]))'
    <3>1. CASE status'[s] = status[s]
      BY <2>1, <2>2, <2>4, <3>1 DEF NoEventLost, Covered
    <3>2. CASE status'[s] # status[s]
      BY <1>1, <2>4, <3>2 DEF Announced, Covered, Coming
    <3> QED BY <3>1, <3>2
  <2> QED BY <2>3, <2>4
<1>2. CASE Feeding
  <2>1. ASSUME UNCHANGED <<logged, status>>, c \in subscribers[s],
               \A e \in Events : Covered(c, s, e) => Covered(c, s, e)'
        PROVE  /\ \A n \in 1..logged'[s] : Covered(c, s, Progress(n))'
               /\ status'[s] \in TerminalStatus => Covered(c, s, Terminal(status[s]))'
    <3>1. \A n \in 1..logged[s] : Progress(n) \in Events
      BY DEF Events
    <3>2. status[s] \in TerminalStatus => Terminal(status[s]) \in Events
      BY DEF Events
    <3> QED BY <2>1, <3>1, <3>2 DEF NoEventLost, Covered
  <2>2. ASSUME NEW d \in Clients, NEW q \in Sessions, HandleSubscribe(d, q)
        PROVE  /\ \A n \in 1..logged'[s] : Covered(c, s, Progress(n))'
               /\ status'[s] \in TerminalStatus => Covered(c, s, Terminal(status[s]))'
    <3>1. /\ UNCHANGED <<received, notices, deliveries, logged, status>>
          /\ subscribers' = [subscribers EXCEPT ![q] = @ \cup {d}]
          /\ replay' = [replay EXCEPT ![d] =
                          [next |-> 1, last |-> logged[q], end |-> status[q]]]
          /\ d \notin subscribers[s]
      BY <2>2 DEF HandleSubscribe, Subscribe, sessionVars
    <3>2. CASE c = d
      <4>1. q = s
        BY <3>1, <3>2
      <4>2. replay'[c] = [next |-> 1, last |-> logged[s], end |-> status[s]]
        BY <1>0, <3>1, <3>2, <4>1
      <4> QED BY <3>1, <4>2 DEF Covered, Coming, Progress, Terminal
    <3>3. CASE c # d
      <4>1. replay'[c] = replay[c] /\ c \in subscribers[s]
        BY <1>0, <3>1, <3>3
      <4>2. \A e \in Events : Covered(c, s, e) => Covered(c, s, e)'
        BY <3>1, <4>1 DEF Covered, Heard, Coming
      <4> QED BY <2>1, <3>1, <4>1, <4>2
    <3> QED BY <3>2, <3>3
  <2>3. ASSUME NEW d \in Clients, ReplayNext(d)
        PROVE  \A e \in Events : Covered(c, s, e) => Covered(c, s, e)'
    <3>1. PICK x \in Event : x = ReplayEvent(d)
      BY <2>3, ReplayedType DEF ReplayNext
    <3>2. /\ UNCHANGED <<notices, deliveries>>
          /\ Heard(d, x)'
          /\ \A e : Heard(c, e) => Heard(c, e)'
      BY <2>3, <3>1, <1>0, WireKeepsHeard DEF ReplayNext, Replayed
    <3>3. CASE c # d
      <4>1. replay'[c] = replay[c]
        BY <1>0, <2>3, <3>3 DEF ReplayNext, Replayed
      <4> QED BY <3>2, <4>1 DEF Covered, Coming
    <3>4. PICK f \in Nat, l \in Nat : f = replay[c].next /\ l = replay[c].last
      BY <1>0
    <3>5. CASE c = d /\ f <= l
      <4>1. /\ replay'[c].next = f + 1 /\ replay'[c].last = l
            /\ replay'[c].end = replay[c].end
        BY <1>0, <2>3, <3>4, <3>5 DEF ReplayNext, Replayed
      <4>2. Heard(c, Progress(f))'
        BY <3>1, <3>2, <3>4, <3>5 DEF ReplayEvent
      <4>3. ASSUME NEW n \in Nat, Covered(c, s, Progress(n))
            PROVE  Covered(c, s, Progress(n))'
        <5>1. CASE f <= n /\ n <= l
          <6>1. n = f \/ f + 1 <= n
            BY <5>1
          <6>2. CASE n = f
            BY <4>2, <6>2 DEF Covered
          <6>3. CASE f + 1 <= n
            BY <4>1, <5>1, <6>3 DEF Covered, Coming, Progress
          <6> QED BY <6>1, <6>2, <6>3
        <5>2. CASE ~(f <= n /\ n <= l)
          <6>1. \/ Heard(c, Progress(n))
                \/ \E m \in notices : m.about = s /\ m.event = Progress(n)
                \/ \E y \in deliveries : y.to = c /\ y.event = Progress(n)
            BY <3>4, <4>3, <5>2 DEF Covered, Coming, Progress
          <6> QED BY <3>2, <6>1 DEF Covered, Coming
        <5> QED BY <5>1, <5>2
      <4>4. ASSUME NEW st \in TerminalStatus, Covered(c, s, Terminal(st))
            PROVE  Covered(c, s, Terminal(st))'
        BY <3>2, <4>1, <4>4 DEF Covered, Coming, Terminal
      <4> QED BY <4>3, <4>4 DEF Events
    <3>6. CASE c = d /\ ~(f <= l)
      <4>1. x = Terminal(replay[c].end)
        BY <3>1, <3>4, <3>6 DEF ReplayEvent
      <4>2. ASSUME NEW n \in Nat, Covered(c, s, Progress(n))
            PROVE  Covered(c, s, Progress(n))'
        <5>1. ~(f <= n /\ n <= l)
          BY <3>6
        <5>2. \/ Heard(c, Progress(n))
              \/ \E m \in notices : m.about = s /\ m.event = Progress(n)
              \/ \E y \in deliveries : y.to = c /\ y.event = Progress(n)
          BY <3>4, <4>2, <5>1 DEF Covered, Coming, Progress
        <5> QED BY <3>2, <5>2 DEF Covered, Coming
      <4>3. ASSUME NEW st \in TerminalStatus, Covered(c, s, Terminal(st))
            PROVE  Covered(c, s, Terminal(st))'
        <5>1. CASE replay[c].end = st
          BY <3>2, <3>6, <4>1, <5>1 DEF Covered
        <5>2. CASE replay[c].end # st
          BY <3>2, <4>3, <5>2 DEF Covered, Coming, Terminal
        <5> QED BY <5>1, <5>2
      <4> QED BY <4>2, <4>3 DEF Events
    <3> QED BY <3>3, <3>5, <3>6
  <2>4. ASSUME NEW m \in notices, LookupSubscribers(m), UNCHANGED received
        PROVE  \A e \in Events : c \in subscribers[s] /\ Covered(c, s, e) => Covered(c, s, e)'
    <3>1. UNCHANGED <<replay, received>> /\ deliveries \subseteq deliveries'
      BY <2>4 DEF LookupSubscribers
    <3>2. ASSUME c \in subscribers[s], NEW e \in Events,
                 NEW n \in notices, n.about = s, n.event = e
          PROVE  Coming(c, s, e)'
      <4>1. CASE n = m
        <5>1. [by |-> m.by, to |-> c, event |-> m.event] \in deliveries'
          BY <2>4, <3>2, <4>1 DEF LookupSubscribers
        <5> QED BY <5>1, <3>2, <4>1 DEF Coming
      <4>2. CASE n # m
        BY <2>4, <3>2, <4>2 DEF LookupSubscribers, Coming
      <4> QED BY <4>1, <4>2
    <3>3. ASSUME c \in subscribers[s], NEW e \in Events, Coming(c, s, e)
          PROVE  Coming(c, s, e)'
      <4>1. CASE \E n \in notices : n.about = s /\ n.event = e
        BY <3>2, <3>3, <4>1
      <4>2. CASE ~\E n \in notices : n.about = s /\ n.event = e
        BY <3>1, <3>3, <4>2 DEF Coming
      <4> QED BY <4>1, <4>2
    <3> QED BY <3>1, <3>3 DEF Covered, Heard
  <2>5. ASSUME NEW d \in deliveries, Wire(d.to, d.event), Delivered(d)
        PROVE  \A e \in Events : Covered(c, s, e) => Covered(c, s, e)'
    <3>1. UNCHANGED <<notices, replay>> /\ deliveries' = deliveries \ {d}
      BY <2>5 DEF Delivered
    <3>2. /\ d.to \in Clients /\ d.event \in Event
      BY <2>5
    <3>3. /\ Heard(d.to, d.event)'
          /\ \A e : Heard(c, e) => Heard(c, e)'
      BY <1>0, <2>5, <3>2, WireKeepsHeard
    <3> QED BY <3>1, <3>3 DEF Covered, Coming
  <2>6. ASSUME NEW d \in Clients, ReplayNext(d)
        PROVE  UNCHANGED <<logged, status>> /\ c \in subscribers[s]
    BY <2>6 DEF ReplayNext, Replayed, sessionVars
  <2>7. ASSUME NEW t \in Threads, Publish(t)
        PROVE  UNCHANGED <<logged, status>> /\ c \in subscribers[s]
    BY <2>7 DEF Publish, StartPublish, SendEvent, LookupSubscribers, Delivered, sessionVars
  <2>8. CASE \E d \in Clients : ReplayNext(d)
    BY <2>1, <2>3, <2>6, <2>8
  <2>9. CASE \E t \in Threads : Publish(t)
    <3>1. \A e \in Events : Covered(c, s, e) => Covered(c, s, e)'
      BY <2>4, <2>5, <2>7, <2>9 DEF Publish, StartPublish, SendEvent
    <3> QED BY <2>1, <2>7, <2>9, <3>1
  <2> QED BY <1>2, <2>2, <2>8, <2>9 DEF Feeding
<1> QED BY <1>1, <1>2, EveryStepAnnounces

(* Whenever a client subscribes, every entry of the session's log and its  *)
(* terminal status reach it or are on their way, whatever the threads that *)
(* log and the one that replays do meanwhile.                              *)
THEOREM NoSubscriberMissesAnEvent == Spec => []NoEventLost
<1>1. Init => NoEventLost
  BY DEF Init, ManagerInit, NoEventLost
<1> QED BY <1>1, InitTypeInv, TypeInvStep, NoEventLostStep, PTL DEF Spec
-----------------------------------------------------------------------------
(* An interrupt reaches the agent of its session, as long as freed pids    *)
(* are not given out again.  An agent process runs, or is a zombie, while  *)
(* its dispatcher is between the spawn and the wait; an interrupt can find *)
(* it once it is registered.                                               *)
Spawned == {"register", "announce", "readers", "wait"}
Announcing == {"announce", "readers", "wait"}
Found == {"announce", "readers", "wait", "join", "unregister", "checkFlag", "checkStatus",
          "saveResult", "finish", "clearFlag", "markInterrupted", "saveInterrupted", "done"}

ProcessOf(s) ==
    /\ os[s] \in {"running", "exited"} <=> dispatchPc[s] \in Spawned
    /\ dispatchPc[s] \in Spawned => pidOf[s] \in Pids
    /\ dispatchPc[s] \in {"off", "spawn", "saveError", "logError"} => outcome[s] = "none"

ProcessInv == \A s \in Sessions : ProcessOf(s)

LEMMA ProcessInvInit == Init => ProcessInv
BY DEF Init, ProcessInv, ProcessOf, Spawned

(* Beside its dispatcher, a session's process is changed by itself and by a *)
(* kill only.                                                               *)
LEMMA OthersProcesses ==
    ASSUME OthersStep
    PROVE  \/ UNCHANGED <<os, outcome>>
           \/ \E s \in Sessions : ProcessExits(s)
           \/ \E i \in Interrupts : KillSucceeds(i)
<1>1. CASE \E i \in Interrupts : InterruptNext(i)
  <2> PICK i \in Interrupts : InterruptNext(i)
    BY <1>1
  <2>1. CASE KillSucceeds(i)
    BY <2>1
  <2>2. CASE ~KillSucceeds(i)
    BY <2>2 DEF InterruptNext, MarkRequested, KillFails, ClearAfterFailedKill, LogInterrupt,
                UnregisterKilled, SetInterrupted, osVars
  <2> QED BY <2>1, <2>2
<1>2. CASE ~\E i \in Interrupts : InterruptNext(i)
  BY <1>2 DEF OthersStep, ReaderNext, ReadLine, ReadFails, ReadEnd, ReaderStep,
              InterruptRequest, FindProcess, NoProcessFound, HandleSubscribe, ReplayNext,
              Publish, StartPublish, SendEvent, AllServed, vars, osVars
<1> QED BY <1>1, <1>2

LEMMA ProcessInvStep == TypeInv /\ ResultInv /\ ProcessInv /\ [Next]_vars => ProcessInv'
<1> SUFFICES ASSUME TypeInv, ResultInv, ProcessInv, [Next]_vars, NEW q \in Sessions
             PROVE  ProcessOf(q)'
  BY DEF ProcessInv
<1> USE DEF TypeInv, TypeOK, ManagerTypeOK, ThreadTypeOK, ProcessInv, ProcessOf, Spawned
<1>1. ASSUME NEW s \in Sessions, HandlerNext(s) PROVE ProcessOf(q)'
  <2>1. UNCHANGED <<os, pidOf, outcome>>
    BY <1>1 DEF HandlerNext, HandlerStep, HandleDispatch, DispatchToAgent, AgentNotFound,
                RejectDispatch, ReplyDispatch, osVars
  <2>2. \/ UNCHANGED dispatchPc
        \/ dispatchPc[s] = "off" /\ dispatchPc' = [dispatchPc EXCEPT ![s] = "spawn"]
    BY <1>1 DEF HandlerNext, HandlerStep, HandleDispatch, DispatchToAgent, AgentNotFound,
                RejectDispatch, ReplyDispatch, ResultInv, ResultOf
  <2> QED BY <2>1, <2>2
<1>2. ASSUME NEW s \in Sessions, DispatcherNext(s) PROVE ProcessOf(q)'
  <2> USE DEF DispatchStep, osVars
  <2>1. CASE SpawnProcess(s) BY <2>1 DEF SpawnProcess
  <2>2. CASE WaitReturns(s) BY <2>2 DEF WaitReturns
  <2>3. CASE SpawnFails(s) \/ SaveSpawnError(s) \/ LogSpawnError(s)
    BY <2>3 DEF SpawnFails, SaveSpawnError, LogSpawnError
  <2>4. CASE Register(s) \/ AnnounceStart(s) \/ StartReaders(s)
    BY <2>4 DEF Register, AnnounceStart, StartReaders
  <2>5. CASE JoinReaders(s) \/ Unregister(s) \/ CheckFlag(s) \/ CheckStatus(s)
    BY <2>5 DEF JoinReaders, Unregister, CheckFlag, CheckStatus
  <2>6. CASE SaveResult(s) \/ Finish(s) \/ ClearFlag(s) \/ MarkInterrupted(s)
               \/ SaveInterrupted(s)
    BY <2>6 DEF SaveResult, Finish, ClearFlag, MarkInterrupted, SaveInterrupted
  <2> QED BY <1>2, <2>1, <2>2, <2>3, <2>4, <2>5, <2>6 DEF DispatcherNext
<1>3. CASE OthersStep
  <2>1. UNCHANGED <<dispatchPc, pidOf>>
    BY <1>3, OthersKeep
  <2>2. CASE UNCHANGED <<os, outcome>>
    BY <2>1, <2>2
  <2>3. CASE \E s \in Sessions : ProcessExits(s)
    BY <2>1, <2>3 DEF ProcessExits
  <2>4. CASE \E i \in Interrupts : KillSucceeds(i)
    BY <2>1, <2>4 DEF KillSucceeds
  <2> QED BY <1>3, <2>2, <2>3, <2>4, OthersProcesses
<1>4. CASE UNCHANGED vars
  BY <1>4 DEF vars
<1> QED BY <1>1, <1>2, <1>3, <1>4, NextCases

(* No two sessions share a pid; a request in progress names the session    *)
(* whose agent has the pid it found, and once its kill was sent that agent *)
(* no longer runs.                                                         *)
OwnPids ==
    \A s, q \in Sessions : pidOf[s] = pidOf[q] /\ pidOf[s] \in Pids => s = q

TargetOf(i) ==
    /\ interruptPc[i] = "idle" => interruptOf[i] = None
    /\ InProgress(i) =>
         /\ pidOf[interruptOf[i]] = interruptPid[i] /\ interruptPid[i] \in Pids
         /\ dispatchPc[interruptOf[i]] \in Found
    /\ interruptPc[i] \in {"log", "unregister"} => os[interruptOf[i]] # "running"

AgentInv ==
    /\ OwnPids
    /\ \A i \in Interrupts : TargetOf(i)
    /\ RunningCanBeFound
    /\ KillNeedsRequest

(* A dispatcher is moved by its own steps, and started by the handler. *)
LEMMA DispatchKept ==
    ASSUME TypeInv, [Next]_vars, NEW q \in Sessions
    PROVE  dispatchPc'[q] = dispatchPc[q] \/ DispatcherNext(q) \/ DispatchToAgent(q)
<1> USE DEF TypeInv, TypeOK, ThreadTypeOK
<1>1. ASSUME NEW s \in Sessions, HandlerNext(s)
      PROVE  dispatchPc'[q] = dispatchPc[q] \/ DispatchToAgent(q)
  <2>1. CASE DispatchToAgent(s)
    BY <2>1 DEF DispatchToAgent
  <2> QED BY <1>1, <2>1 DEF HandlerNext, HandleDispatch, AgentNotFound, RejectDispatch,
                            ReplyDispatch
<1>2. ASSUME NEW s \in Sessions, DispatcherNext(s), s # q
      PROVE  dispatchPc'[q] = dispatchPc[q]
  BY <1>2 DEF DispatcherNext, DispatchStep, SpawnProcess, SpawnFails, SaveSpawnError,
              LogSpawnError, Register, AnnounceStart, StartReaders, WaitReturns,
              JoinReaders, Unregister, CheckFlag, CheckStatus, SaveResult, Finish,
              ClearFlag, MarkInterrupted, SaveInterrupted
<1>3. OthersStep \/ UNCHANGED vars => dispatchPc'[q] = dispatchPc[q]
  BY OthersKeep DEF vars
<1> QED BY <1>1, <1>2, <1>3, NextCases

(* A dispatcher never returns to before its registration. *)
LEMMA FoundStays ==
    ASSUME TypeInv, ResultInv, [Next]_vars, NEW q \in Sessions, dispatchPc[q] \in Found
    PROVE  dispatchPc'[q] \in Found
<1> USE DEF TypeInv, TypeOK, ThreadTypeOK, Found
<1>1. ASSUME NEW s \in Sessions, HandlerNext(s) PROVE dispatchPc'[q] \in Found
  <2>1. CASE DispatchToAgent(s)
    BY <2>1 DEF DispatchToAgent, HandlerStep, ResultInv, ResultOf
  <2> QED BY <1>1, <2>1 DEF HandlerNext, HandleDispatch, AgentNotFound, RejectDispatch,
                            ReplyDispatch
<1>2. ASSUME NEW s \in Sessions, DispatcherNext(s) PROVE dispatchPc'[q] \in Found
  <2> USE DEF DispatchStep
  <2>1. CASE SpawnProcess(s) \/ SpawnFails(s) \/ SaveSpawnError(s) \/ LogSpawnError(s)
               \/ Register(s) \/ AnnounceStart(s) \/ StartReaders(s) \/ WaitReturns(s)
    BY <2>1 DEF SpawnProcess, SpawnFails, SaveSpawnError, LogSpawnError, Register,
                AnnounceStart, StartReaders, WaitReturns
  <2>2. CASE JoinReaders(s) \/ Unregister(s) \/ CheckFlag(s) \/ CheckStatus(s)
               \/ SaveResult(s) \/ Finish(s) \/ ClearFlag(s) \/ MarkInterrupted(s)
               \/ SaveInterrupted(s)
    BY <2>2 DEF JoinReaders, Unregister, CheckFlag, CheckStatus, SaveResult, Finish,
                ClearFlag, MarkInterrupted, SaveInterrupted
  <2> QED BY <1>2, <2>1, <2>2 DEF DispatcherNext
<1>3. CASE OthersStep
  BY <1>3, OthersKeep
<1>4. CASE UNCHANGED vars
  BY <1>4 DEF vars
<1> QED BY <1>1, <1>2, <1>3, <1>4, NextCases

(* A pid is given out, and an agent starts, by SpawnProcess only. *)
LEMMA ProcessesStart ==
    ASSUME TypeInv, [Next]_vars
    PROVE  \/ /\ pidOf' = pidOf
              /\ \A q \in Sessions : os'[q] = "running" => os[q] = "running"
           \/ \E s \in Sessions : SpawnProcess(s)
<1> USE DEF TypeInv, TypeOK, ThreadTypeOK
<1>1. ASSUME NEW s \in Sessions, HandlerNext(s) PROVE UNCHANGED <<pidOf, os>>
  BY <1>1 DEF HandlerNext, HandlerStep, HandleDispatch, DispatchToAgent, AgentNotFound,
              RejectDispatch, ReplyDispatch, osVars
<1>2. ASSUME NEW s \in Sessions, DispatcherNext(s)
      PROVE  \/ pidOf' = pidOf /\ \A q \in Sessions : os'[q] = "running" => os[q] = "running"
             \/ SpawnProcess(s)
  <2>1. CASE WaitReturns(s)
    BY <2>1 DEF WaitReturns
  <2> QED BY <1>2, <2>1
          DEF DispatcherNext, SpawnFails, SaveSpawnError, LogSpawnError, Register,
              AnnounceStart, StartReaders, JoinReaders, Unregister, CheckFlag, CheckStatus,
              SaveResult, Finish, ClearFlag, MarkInterrupted, SaveInterrupted, osVars
<1>3. ASSUME OthersStep
      PROVE  pidOf' = pidOf /\ \A q \in Sessions : os'[q] = "running" => os[q] = "running"
  <2>1. pidOf' = pidOf
    BY <1>3, OthersKeep
  <2>2. CASE \E s \in Sessions : ProcessExits(s)
    BY <2>1, <2>2 DEF ProcessExits
  <2>3. CASE \E i \in Interrupts : KillSucceeds(i)
    BY <2>1, <2>3 DEF KillSucceeds
  <2> QED BY <1>3, <2>1, <2>2, <2>3, OthersProcesses
<1>4. CASE UNCHANGED vars
  BY <1>4 DEF vars
<1> QED BY <1>1, <1>2, <1>3, <1>4, NextCases

(* An interrupt request is served by its own thread only. *)
LEMMA RequestKept ==
    ASSUME TypeInv, [Next]_vars, NEW i \in Interrupts
    PROVE  \/ /\ interruptPc'[i] = interruptPc[i] /\ interruptOf'[i] = interruptOf[i]
              /\ interruptPid'[i] = interruptPid[i]
           \/ InterruptNext(i)
           \/ \E s \in Sessions : InterruptRequest(i, s)
<1> USE DEF TypeInv, TypeOK, ThreadTypeOK
<1>1. ASSUME NEW s \in Sessions, HandlerNext(s) \/ DispatcherNext(s) \/ ProcessExits(s)
      PROVE  UNCHANGED <<interruptPc, interruptOf, interruptPid>>
  <2>1. CASE HandlerNext(s)
    BY <2>1 DEF HandlerNext, HandlerStep, HandleDispatch, DispatchToAgent, AgentNotFound,
                RejectDispatch, ReplyDispatch
  <2>2. CASE DispatcherNext(s)
    BY <2>2 DEF DispatcherNext, DispatchStep, SpawnProcess, SpawnFails, SaveSpawnError,
                LogSpawnError, Register, AnnounceStart, StartReaders, WaitReturns,
                JoinReaders, Unregister, CheckFlag, CheckStatus, SaveResult, Finish,
                ClearFlag, MarkInterrupted, SaveInterrupted
  <2> QED BY <1>1, <2>1, <2>2 DEF ProcessExits, pcVars
<1>2. ASSUME NEW j \in Interrupts, InterruptNext(j), i # j
      PROVE  /\ interruptPc'[i] = interruptPc[i] /\ interruptOf'[i] = interruptOf[i]
             /\ interruptPid'[i] = interruptPid[i]
  BY <1>2 DEF InterruptNext, InterruptStep, MarkRequested, KillSucceeds, KillFails,
              ClearAfterFailedKill, LogInterrupt, UnregisterKilled, SetInterrupted
<1>3. ASSUME NEW j \in Interrupts, NEW s \in Sessions, InterruptRequest(j, s), i # j
      PROVE  /\ interruptPc'[i] = interruptPc[i] /\ interruptOf'[i] = interruptOf[i]
             /\ interruptPid'[i] = interruptPid[i]
  BY <1>3 DEF InterruptRequest, FindProcess, NoProcessFound, InterruptStep
<1>4. ASSUME NEW s \in Sessions, NEW k \in Streams, ReaderNext(s, k)
      PROVE  UNCHANGED <<interruptPc, interruptOf, interruptPid>>
  BY <1>4 DEF ReaderNext, ReadLine, ReadFails, ReadEnd, ReaderStep
<1>5. ASSUME Feeding \/ UNCHANGED vars
      PROVE  UNCHANGED <<interruptPc, interruptOf, interruptPid>>
  BY <1>5 DEF Feeding, HandleSubscribe, ReplayNext, Publish, StartPublish, SendEvent, vars,
              pcVars
<1> QED BY <1>1, <1>2, <1>3, <1>4, <1>5 DEF Next, Feeding, AllServed

LEMMA AgentInvInit == ~RecyclePids /\ Init => AgentInv
BY NoneAssumption DEF Init, ManagerInit, AgentInv, OwnPids, TargetOf, RunningCanBeFound,
   KillNeedsRequest, InProgress

LEMMA OwnPidsStep ==
    ASSUME ~RecyclePids, TypeInv, OwnPids, [Next]_vars
    PROVE  OwnPids'
<1> USE DEF OwnPids, TypeInv, TypeOK, ThreadTypeOK
<1>1. CASE pidOf' = pidOf
  BY <1>1
<1>2. ASSUME NEW s \in Sessions, SpawnProcess(s) PROVE OwnPids'
  <2> PICK p \in Pids : /\ \A q \in Sessions : pidOf[q] # p
                        /\ pidOf' = [pidOf EXCEPT ![s] = p]
    BY <1>2 DEF SpawnProcess
  <2> QED OBVIOUS
<1> QED BY <1>1, <1>2, ProcessesStart

LEMMA TargetStep ==
    ASSUME ~RecyclePids, TypeInv, ResultInv, ProcessInv, RegistrationInv, AgentInv,
           [Next]_vars, NEW i \in Interrupts
    PROVE  TargetOf(i)'
<1> USE DEF AgentInv, TargetOf, InProgress
<1>1. ASSUME NEW s \in Sessions, InterruptRequest(i, s) PROVE TargetOf(i)'
  <2>1. UNCHANGED <<processes, pidOf, dispatchPc>>
    BY <1>1 DEF InterruptRequest, FindProcess, NoProcessFound, InterruptStep, managerVars,
                osVars
  <2>2. CASE FindProcess(i, s)
    <3>1. PICK p \in Pids : /\ processes[p] = s
                            /\ interruptPid' = [interruptPid EXCEPT ![i] = p]
      BY <2>2 DEF FindProcess
    <3>2. pidOf[s] = p /\ dispatchPc[s] \in Found
      BY <3>1 DEF RegistrationInv, Registered, Found
    <3>3. /\ interruptPc'[i] = "mark" /\ interruptOf'[i] = s /\ interruptPid'[i] = p
      BY <2>2, <3>1 DEF FindProcess, InterruptStep, TypeInv, TypeOK, ThreadTypeOK
    <3> QED BY <2>1, <3>2, <3>3
  <2>3. CASE NoProcessFound(i, s)
    BY <2>3 DEF NoProcessFound, InterruptStep, TypeInv, TypeOK, ThreadTypeOK
  <2> QED BY <1>1, <2>2, <2>3 DEF InterruptRequest
<1>2. CASE InterruptNext(i)
  <2> DEFINE s == interruptOf[i]
  <2>1. /\ InProgress(i) /\ UNCHANGED <<interruptOf, interruptPid, pidOf>>
        /\ interruptPc'[i] # "idle"
    BY <1>2 DEF InterruptNext, MarkRequested, KillSucceeds, KillFails, ClearAfterFailedKill,
                LogInterrupt, UnregisterKilled, SetInterrupted, InterruptStep, osVars,
                TypeInv, TypeOK, ThreadTypeOK
  <2>2. s \in Sessions /\ dispatchPc'[s] \in Found
    BY <2>1, FoundStays DEF TypeInv, RequestNamed
  <2>3. interruptPc'[i] \in {"log", "unregister"} => os'[s] # "running"
    <3>1. CASE KillSucceeds(i)
      BY <2>1, <2>2, <3>1 DEF KillSucceeds
    <3>2. CASE LogInterrupt(i)
      BY <3>2 DEF LogInterrupt, InterruptStep, osVars
    <3> QED BY <1>2, <3>1, <3>2
            DEF InterruptNext, MarkRequested, KillFails, ClearAfterFailedKill,
                UnregisterKilled, SetInterrupted, InterruptStep, TypeInv, TypeOK, ThreadTypeOK
  <2> QED BY <2>1, <2>2, <2>3
<1>3. CASE /\ interruptPc'[i] = interruptPc[i] /\ interruptOf'[i] = interruptOf[i]
           /\ interruptPid'[i] = interruptPid[i]
  <2> DEFINE s == interruptOf[i]
  <2>1. CASE InProgress(i)
    <3>1. s \in Sessions /\ dispatchPc[s] \in Found /\ dispatchPc'[s] \in Found
      BY <2>1, FoundStays DEF TypeInv, RequestNamed
    <3>2. pidOf'[s] = pidOf[s] /\ (os'[s] = "running" => os[s] = "running")
      <4>1. ASSUME NEW q \in Sessions, SpawnProcess(q)
            PROVE  pidOf'[s] = pidOf[s] /\ os'[s] = os[s]
        <5>1. q # s
          BY <3>1, <4>1 DEF SpawnProcess, DispatchStep, Found
        <5> QED BY <3>1, <4>1, <5>1 DEF SpawnProcess, TypeInv, TypeOK, ThreadTypeOK
      <4> QED BY <3>1, <4>1, ProcessesStart
    <3> QED BY <1>3, <2>1, <3>1, <3>2
  <2>2. CASE ~InProgress(i)
    BY <1>3, <2>2
  <2> QED BY <2>1, <2>2
<1> QED BY <1>1, <1>2, <1>3, RequestKept

(* An entry of the process table is removed by the session's dispatcher and *)
(* by an interrupt that has killed the process.                             *)
LEMMA EntriesGo ==
    ASSUME TypeInv, [Next]_vars
    PROVE  \/ processes' = processes
           \/ \E s \in Sessions : Register(s) \/ Unregister(s)
           \/ \E i \in Interrupts : UnregisterKilled(i)
<1>1. ASSUME NEW s \in Sessions, HandlerNext(s) PROVE processes' = processes
  BY <1>1 DEF HandlerNext, HandleDispatch, DispatchToAgent, AgentNotFound, RejectDispatch,
              ReplyDispatch, CreateSession, UpdateStatus, SetResult, managerVars, tableVars
<1>2. ASSUME NEW s \in Sessions, DispatcherNext(s)
      PROVE  processes' = processes \/ Register(s) \/ Unregister(s)
  BY <1>2 DEF DispatcherNext, SpawnProcess, SpawnFails, SaveSpawnError, LogSpawnError,
              AnnounceStart, StartReaders, WaitReturns, JoinReaders, CheckFlag, CheckStatus,
              SaveResult, Finish, ClearFlag, MarkInterrupted, SaveInterrupted, AddProgress,
              SetResult, UpdateStatus, ClearInterruptRequested, managerVars, tableVars
<1>3. ASSUME NEW i \in Interrupts, InterruptNext(i)
      PROVE  processes' = processes \/ UnregisterKilled(i)
  BY <1>3 DEF InterruptNext, MarkRequested, KillSucceeds, KillFails, ClearAfterFailedKill,
              LogInterrupt, SetInterrupted, MarkInterruptRequested, ClearInterruptRequested,
              AddProgress, UpdateStatus, managerVars, tableVars
<1>4. CASE ~\E i \in Interrupts : InterruptNext(i)
  <2>1. OthersStep => processes' = processes
    BY <1>4 DEF OthersStep, ProcessExits, ReaderNext, ReadLine, ReadFails, ReadEnd,
              AddProgress, InterruptRequest, FindProcess, NoProcessFound, HandleSubscribe,
              Subscribe, ReplayNext, Replayed, Publish, StartPublish, SendEvent,
              LookupSubscribers, Delivered, AllServed, vars, managerVars, tableVars
  <2>2. UNCHANGED vars => processes' = processes
    BY DEF vars, managerVars
  <2> QED BY <1>1, <1>2, <2>1, <2>2, NextCases
<1> QED BY <1>3, <1>4

LEMMA RunningCanBeFoundStep ==
    ASSUME ~RecyclePids, TypeInv, ResultInv, ProcessInv, RegistrationInv, AgentInv,
           [Next]_vars, NEW q \in Sessions,
           os'[q] = "running", dispatchPc'[q] \in {"announce", "readers", "wait"}
    PROVE  processes'[pidOf'[q]] = q
<1> USE DEF TypeInv, TypeOK, ManagerTypeOK, ThreadTypeOK
<1>1. pidOf'[q] = pidOf[q] /\ os[q] = "running"
  <2>1. ASSUME NEW s \in Sessions, SpawnProcess(s)
        PROVE  pidOf'[q] = pidOf[q] /\ os'[q] = os[q]
    <3>1. s # q
      BY <2>1 DEF SpawnProcess, DispatchStep
    <3> QED BY <2>1, <3>1 DEF SpawnProcess
  <2> QED BY <2>1, ProcessesStart
<1>2. dispatchPc[q] \in Spawned /\ pidOf[q] \in Pids
  BY <1>1 DEF ProcessInv, ProcessOf
<1>3. ASSUME dispatchPc[q] \in {"announce", "readers", "wait"} PROVE processes[pidOf[q]] = q
  BY <1>1, <1>3 DEF AgentInv, RunningCanBeFound
<1>4. dispatchPc[q] \in {"announce", "readers", "wait"} \/ Register(q)
  <2> SUFFICES ASSUME dispatchPc[q] = "register"
               PROVE  Register(q)
    BY <1>2 DEF Spawned
  <2>1. ~DispatchToAgent(q)
    BY DEF DispatchToAgent, HandlerStep, ResultInv, ResultOf
  <2>2. DispatcherNext(q)
    BY <2>1, DispatchKept
  <2> QED BY <2>2
          DEF DispatcherNext, DispatchStep, SpawnProcess, SpawnFails, SaveSpawnError,
              LogSpawnError, AnnounceStart, StartReaders, WaitReturns, JoinReaders,
              Unregister, CheckFlag, CheckStatus, SaveResult, Finish, ClearFlag,
              MarkInterrupted, SaveInterrupted
<1>5. CASE Register(q)
  BY <1>1, <1>2, <1>5 DEF Register, RegisterProcess, osVars
<1>6. CASE ~Register(q)
  <2>1. processes[pidOf[q]] = q
    BY <1>3, <1>4, <1>6
  <2>2. ASSUME NEW s \in Sessions, Register(s) PROVE processes'[pidOf[q]] = q
    <3>1. s # q /\ pidOf[s] \in Pids
      BY <1>6, <2>2 DEF Register, DispatchStep, ProcessInv, ProcessOf, Spawned
    <3>2. pidOf[s] # pidOf[q]
      BY <3>1 DEF AgentInv, OwnPids
    <3> QED BY <1>2, <2>1, <2>2, <3>2 DEF Register, RegisterProcess
  <2>3. ASSUME NEW s \in Sessions, Unregister(s) PROVE processes'[pidOf[q]] = q
    <3>1. s # q
      BY <1>2, <2>3 DEF Unregister, DispatchStep, Spawned
    <3>2. pidOf[s] # pidOf[q]
      BY <1>2, <3>1 DEF AgentInv, OwnPids
    <3> QED BY <1>2, <2>1, <2>3, <3>2 DEF Unregister, UnregisterProcess
  <2>4. ASSUME NEW i \in Interrupts, UnregisterKilled(i) PROVE processes'[pidOf[q]] = q
    <3>1. /\ interruptPc[i] = "unregister" /\ interruptOf[i] \in Sessions
      BY <2>4 DEF UnregisterKilled, InterruptStep, TypeInv, RequestNamed
    <3>2. pidOf[interruptOf[i]] = interruptPid[i] /\ os[interruptOf[i]] # "running"
      BY <3>1 DEF AgentInv, TargetOf, InProgress
    <3>3. interruptPid[i] # pidOf[q]
      BY <1>1, <1>2, <3>1, <3>2 DEF AgentInv, OwnPids
    <3> QED BY <1>2, <2>1, <2>4, <3>3 DEF UnregisterKilled, UnregisterProcess
  <2> QED BY <1>1, <2>1, <2>2, <2>3, <2>4, EntriesGo
<1> QED BY <1>5, <1>6

LEMMA KillNeedsRequestStep ==
    ASSUME ~RecyclePids, TypeInv, AgentInv, [Next]_vars, NEW q \in Sessions,
           outcome'[q] = "killed"
    PROVE  \E i \in Interrupts : interruptOf'[i] = q
<1> USE DEF TypeInv, TypeOK, ThreadTypeOK
<1>1. CASE outcome[q] = "killed"
  <2>1. PICK i \in Interrupts : interruptOf[i] = q
    BY <1>1 DEF AgentInv, KillNeedsRequest
  <2>2. interruptPc[i] # "idle"
    BY <2>1, NoneAssumption DEF AgentInv, TargetOf
  <2>3. interruptOf'[i] = interruptOf[i]
    BY <2>2, RequestKept
       DEF InterruptNext, MarkRequested, KillSucceeds, KillFails, ClearAfterFailedKill,
           LogInterrupt, UnregisterKilled, SetInterrupted, InterruptRequest, FindProcess,
           NoProcessFound, InterruptStep
  <2> QED BY <2>1, <2>3
<1>2. CASE outcome[q] # "killed"
  <2>1. ASSUME NEW i \in Interrupts, KillSucceeds(i) PROVE interruptOf'[i] = q
    <3>1. pidOf[q] = interruptPid[i] /\ interruptPc[i] = "kill" /\ interruptOf[i] \in Sessions
      BY <1>2, <2>1 DEF KillSucceeds, InterruptStep, RequestNamed
    <3>2. pidOf[interruptOf[i]] = interruptPid[i] /\ interruptPid[i] \in Pids
      BY <3>1 DEF AgentInv, TargetOf, InProgress
    <3>3. interruptOf[i] = q
      BY <3>1, <3>2 DEF AgentInv, OwnPids
    <3> QED BY <2>1, <3>3 DEF KillSucceeds
  <2>2. ASSUME NEW s \in Sessions, ProcessExits(s) PROVE outcome'[q] # "killed"
    BY <1>2, <2>2 DEF ProcessExits
  <2>3. ASSUME NEW s \in Sessions, HandlerNext(s) \/ DispatcherNext(s)
        PROVE  outcome' = outcome
    <3>1. CASE HandlerNext(s)
      BY <3>1 DEF HandlerNext, HandlerStep, HandleDispatch, DispatchToAgent, AgentNotFound,
                  RejectDispatch, ReplyDispatch, osVars
    <3>2. CASE DispatcherNext(s)
      BY <3>2 DEF DispatcherNext, SpawnProcess, SpawnFails, SaveSpawnError, LogSpawnError,
                  Register, AnnounceStart, StartReaders, WaitReturns, JoinReaders, Unregister,
                  CheckFlag, CheckStatus, SaveResult, Finish, ClearFlag, MarkInterrupted,
                  SaveInterrupted, osVars
    <3> QED BY <2>3, <3>1, <3>2
  <2>4. UNCHANGED vars => outcome' = outcome
    BY DEF vars
  <2> QED BY <1>2, <2>1, <2>2, <2>3, <2>4, NextCases, OthersProcesses
<1> QED BY <1>1, <1>2

LEMMA AgentInvStep ==
    ASSUME ~RecyclePids, TypeInv, ResultInv, ProcessInv, RegistrationInv, AgentInv,
           [Next]_vars
    PROVE  AgentInv'
<1>1. OwnPids'
  BY OwnPidsStep DEF AgentInv
<1>2. RunningCanBeFound'
  BY RunningCanBeFoundStep DEF RunningCanBeFound
<1>3. KillNeedsRequest'
  BY KillNeedsRequestStep DEF KillNeedsRequest
<1> QED BY <1>1, <1>2, <1>3, TargetStep DEF AgentInv

(* As long as the system does not give a freed pid out again, a running    *)
(* agent is found under its pid from its registration on, and an agent is  *)
(* killed only if its own session was to be interrupted, however many      *)
(* interrupts, for this and other sessions, are under way.                 *)
THEOREM InterruptsReachTheirAgents ==
    ASSUME ~RecyclePids
    PROVE  Spec => []InterruptReachesItsAgent
<1>1. AgentInv => InterruptReachesItsAgent
  BY DEF AgentInv, InterruptReachesItsAgent
<1>2. TypeInv /\ ResultInv /\ ProcessInv /\ RegistrationInv /\ AgentInv /\ [Next]_vars
        => AgentInv'
  BY AgentInvStep
<1> QED BY <1>1, <1>2, InitTypeInv, TypeInvStep, ResultInvInit, ResultInvStep,
           ProcessInvInit, ProcessInvStep, RegistrationInvInit, RegistrationInvStep,
           AgentInvInit, PTL DEF Spec
-----------------------------------------------------------------------------
(* An interrupt decides its session's end.  Clients that wait for an       *)
(* interrupt before the next have one at a time in progress per session.   *)
OneAtATime ==
    \A i, j \in Interrupts :
        InProgress(i) /\ InProgress(j) /\ interruptOf[i] = interruptOf[j] => i = j

(* Where a registered dispatcher has not looked at the mark yet. *)
Unchecked == {"announce", "readers", "wait", "join", "unregister", "checkFlag"}

(* The dispatcher is going to end the session as interrupted, or has. *)
Doomed(s) ==
    \/ dispatchPc[s] \in Unchecked /\ s \in interruptRequested
    \/ dispatchPc[s] = "clearFlag"
    \/ dispatchPc[s] = "markInterrupted" /\ s \notin interruptRequested
    \/ /\ dispatchPc[s] \in {"saveInterrupted", "done"}
       /\ status[s] = "Interrupted" /\ s \notin interruptRequested

(* From the kill on, the interrupt's session is doomed: the agent that was *)
(* killed had not been waited for, so its dispatcher sees the mark.        *)
DecidedBy(i) ==
    LET s == interruptOf[i]
    IN  /\ interruptPc[i] = "kill" /\ dispatchPc[s] \in Announcing => s \in interruptRequested
        /\ interruptPc[i] \in {"log", "unregister", "setStatus"} => Doomed(s)
        /\ interruptPc[i] = "ok" =>
             status[s] = "Interrupted" /\ dispatchPc[s] \in Found \ {"saveResult", "finish"}

(* A mark is seen by the dispatcher or is its interrupt's to clear. *)
MarkSeen(s) ==
    s \in interruptRequested =>
        \/ dispatchPc[s] \in Unchecked \cup {"clearFlag"}
        \/ \E i \in Interrupts : InProgress(i) /\ interruptOf[i] = s

DecideInv ==
    /\ OneAtATime
    /\ \A i \in Interrupts : DecidedBy(i)
    /\ \A s \in Sessions : MarkSeen(s)

(* Marks are set and cleared by these steps only. *)
LEMMA MarksKept ==
    ASSUME TypeInv, [Next]_vars
    PROVE  \/ interruptRequested' = interruptRequested
           \/ \E s \in Sessions : ClearFlag(s)
           \/ \E i \in Interrupts : MarkRequested(i) \/ ClearAfterFailedKill(i)
<1>1. ASSUME NEW s \in Sessions, HandlerNext(s)
      PROVE  interruptRequested' = interruptRequested
  BY <1>1 DEF HandlerNext, HandleDispatch, DispatchToAgent, AgentNotFound, RejectDispatch,
              ReplyDispatch, CreateSession, UpdateStatus, SetResult, managerVars, tableVars
<1>2. ASSUME NEW s \in Sessions, DispatcherNext(s)
      PROVE  interruptRequested' = interruptRequested \/ ClearFlag(s)
  BY <1>2 DEF DispatcherNext, SpawnProcess, SpawnFails, SaveSpawnError, LogSpawnError,
              Register, AnnounceStart, StartReaders, WaitReturns, JoinReaders, Unregister,
              CheckFlag, CheckStatus, SaveResult, Finish, MarkInterrupted, SaveInterrupted,
              AddProgress, SetResult, UpdateStatus, RegisterProcess, UnregisterProcess,
              managerVars, tableVars
<1>3. ASSUME NEW i \in Interrupts, InterruptNext(i)
      PROVE  interruptRequested' = interruptRequested \/ MarkRequested(i)
               \/ ClearAfterFailedKill(i)
  BY <1>3 DEF InterruptNext, KillSucceeds, KillFails, LogInterrupt, UnregisterKilled,
              SetInterrupted, UnregisterProcess, AddProgress, UpdateStatus, managerVars,
              tableVars
<1>4. CASE ~\E i \in Interrupts : InterruptNext(i)
  <2>1. OthersStep => interruptRequested' = interruptRequested
    BY <1>4 DEF OthersStep, ProcessExits, ReaderNext, ReadLine, ReadFails, ReadEnd,
              AddProgress, InterruptRequest, FindProcess, NoProcessFound, HandleSubscribe,
              Subscribe, ReplayNext, Replayed, Publish, StartPublish, SendEvent,
              LookupSubscribers, Delivered, AllServed, vars, managerVars, tableVars
  <2>2. UNCHANGED vars => interruptRequested' = interruptRequested
    BY DEF vars, managerVars
  <2> QED BY <1>1, <1>2, <2>1, <2>2, NextCases
<1> QED BY <1>3, <1>4

(* Once a session has a dispatcher, that one ends it or it is interrupted. *)
LEMMA StatusKept ==
    ASSUME TypeInv, ResultInv, [Next]_vars, NEW q \in Sessions
    PROVE  \/ status'[q] = status[q]
           \/ dispatchPc[q] = "off"
           \/ Finish(q)
           \/ status'[q] = "Interrupted"
<1> USE DEF TypeInv, TypeOK, ManagerTypeOK, ThreadTypeOK
<1>1. ASSUME NEW s \in Sessions, HandlerNext(s)
      PROVE  status'[q] = status[q] \/ dispatchPc[q] = "off"
  BY <1>1 DEF HandlerNext, HandlerStep, HandleDispatch, DispatchToAgent, AgentNotFound,
              RejectDispatch, ReplyDispatch, CreateSession, UpdateStatus, SetResult,
              managerVars, ResultInv, ResultOf
<1>2. ASSUME NEW s \in Sessions, DispatcherNext(s)
      PROVE  status'[q] = status[q] \/ Finish(q) \/ status'[q] = "Interrupted"
  <2>1. CASE Finish(s)
    BY <2>1 DEF Finish, UpdateStatus
  <2>2. CASE MarkInterrupted(s)
    BY <2>2 DEF MarkInterrupted, UpdateStatus
  <2>3. CASE ~(Finish(s) \/ MarkInterrupted(s))
    BY <1>2, <2>3
       DEF DispatcherNext, SpawnProcess, SpawnFails, SaveSpawnError, LogSpawnError,
           Register, AnnounceStart, StartReaders, WaitReturns, JoinReaders, Unregister,
           CheckFlag, CheckStatus, SaveResult, ClearFlag, SaveInterrupted, AddProgress,
           SetResult, RegisterProcess, UnregisterProcess, ClearInterruptRequested,
           managerVars, sessionVars
  <2> QED BY <2>1, <2>2, <2>3
<1>3. CASE OthersStep
  BY <1>3, OthersKeep
<1>4. CASE UNCHANGED vars
  BY <1>4 DEF vars, managerVars
<1> QED BY <1>1, <1>2, <1>3, <1>4, NextCases

LEMMA OneAtATimeStep ==
    ASSUME SerialInterrupts, TypeInv, OneAtATime, [Next]_vars
    PROVE  OneAtATime'
<1> SUFFICES ASSUME NEW i \in Interrupts, NEW j \in Interrupts, InProgress(i)',
                    InProgress(j)', interruptOf'[i] = interruptOf'[j], i # j
             PROVE  FALSE
  BY DEF OneAtATime
<1> USE DEF TypeInv, TypeOK, ThreadTypeOK, InProgress
<1>1. ASSUME NEW k \in Interrupts, InterruptNext(k)
      PROVE  InProgress(k) /\ interruptOf'[k] = interruptOf[k]
  BY <1>1 DEF InterruptNext, InterruptStep, MarkRequested, KillSucceeds, KillFails,
              ClearAfterFailedKill, LogInterrupt, UnregisterKilled, SetInterrupted
<1>2. ASSUME NEW k \in Interrupts, NEW l \in Interrupts, k # l, NEW s \in Sessions,
             InterruptRequest(k, s), InProgress(k)', InProgress(l)'
      PROVE  interruptOf'[k] # interruptOf'[l]
  BY <1>2 DEF InterruptRequest, FindProcess, NoProcessFound, InterruptStep, MayInterrupt
<1>3. CASE \E s \in Sessions : InterruptRequest(i, s) \/ InterruptRequest(j, s)
  BY <1>2, <1>3
<1>4. CASE ~\E s \in Sessions : InterruptRequest(i, s) \/ InterruptRequest(j, s)
  <2>1. InProgress(i) /\ interruptOf'[i] = interruptOf[i]
    BY <1>1, <1>4, RequestKept
  <2>2. InProgress(j) /\ interruptOf'[j] = interruptOf[j]
    BY <1>1, <1>4, RequestKept
  <2> QED BY <2>1, <2>2 DEF OneAtATime
<1> QED BY <1>3, <1>4

(* Among the interrupts, only the one in progress for a session touches    *)
(* the session's mark.                                                     *)
LEMMA MarkOfTarget ==
    ASSUME TypeInv, OneAtATime, [Next]_vars, NEW i \in Interrupts, InProgress(i),
           ~MarkRequested(i), ~ClearAfterFailedKill(i), ~ClearFlag(interruptOf[i])
    PROVE  interruptOf[i] \in interruptRequested'
             <=> interruptOf[i] \in interruptRequested
<1> USE DEF TypeInv, TypeOK, ManagerTypeOK, ThreadTypeOK
<1> DEFINE s == interruptOf[i]
<1>1. CASE interruptRequested' = interruptRequested
  BY <1>1
<1>2. ASSUME NEW q \in Sessions, ClearFlag(q)
      PROVE  s \in interruptRequested' <=> s \in interruptRequested
  <2>1. q # s
    BY <1>2
  <2> QED BY <1>2, <2>1 DEF ClearFlag, ClearInterruptRequested
<1>3. ASSUME NEW j \in Interrupts, MarkRequested(j) \/ ClearAfterFailedKill(j)
      PROVE  s \in interruptRequested' <=> s \in interruptRequested
  <2>1. i # j /\ InProgress(j)
    BY <1>3 DEF MarkRequested, ClearAfterFailedKill, InterruptStep, InProgress
  <2>2. interruptOf[j] # s
    BY <2>1 DEF OneAtATime
  <2> QED BY <1>3, <2>2 DEF MarkRequested, ClearAfterFailedKill, MarkInterruptRequested,
                            ClearInterruptRequested
<1> QED BY <1>1, <1>2, <1>3, MarksKept

(* What is known of a state when the step of DecideInv is taken. *)
DecidePrior == /\ TypeInv /\ ResultInv /\ ProcessInv /\ RegistrationInv /\ AgentInv
               /\ DecideInv

LEMMA DecideInvInit == Init => DecideInv
BY DEF Init, ManagerInit, DecideInv, OneAtATime, DecidedBy, MarkSeen, InProgress

(* While its interrupt is in progress a doomed session stays doomed. *)
LEMMA DoomedStep ==
    ASSUME DecidePrior, [Next]_vars, NEW i \in Interrupts, InProgress(i),
           ~MarkRequested(i), ~ClearAfterFailedKill(i), Doomed(interruptOf[i])
    PROVE  Doomed(interruptOf[i])'
<1> DEFINE s == interruptOf[i]
<1> USE DEF DecidePrior, Doomed, Unchecked
<1>1. s \in Sessions /\ dispatchPc[s] \in Found
  BY DEF AgentInv, TargetOf, TypeInv, RequestNamed, InProgress
<1>2. interruptOf'[i] = s
  BY RequestKept DEF InterruptNext, InterruptRequest, FindProcess, NoProcessFound,
     MarkRequested, KillSucceeds, KillFails, ClearAfterFailedKill, LogInterrupt,
     UnregisterKilled, SetInterrupted, InterruptStep, InProgress
<1>3. CASE ClearFlag(s)
  BY <1>1, <1>2, <1>3 DEF ClearFlag, ClearInterruptRequested, DispatchStep, TypeInv,
                          TypeOK, ThreadTypeOK
<1>4. CASE ~ClearFlag(s)
  <2>1. s \in interruptRequested' <=> s \in interruptRequested
    BY <1>4, MarkOfTarget DEF DecideInv
  <2>2. CASE dispatchPc'[s] = dispatchPc[s]
    <3>1. ~Finish(s) /\ dispatchPc[s] # "off"
      BY <1>1 DEF Finish, DispatchStep, Found
    <3> QED BY <1>1, <1>2, <2>1, <2>2, <3>1, StatusKept
  <2>3. CASE DispatchToAgent(s)
    BY <1>1, <2>3 DEF DispatchToAgent, HandlerStep, ResultInv, ResultOf, Found
  <2>4. CASE DispatcherNext(s)
    <3> USE DEF DispatchStep, TypeInv, TypeOK, ManagerTypeOK, ThreadTypeOK
    <3>1. CASE SpawnProcess(s) \/ SpawnFails(s) \/ SaveSpawnError(s) \/ LogSpawnError(s)
                 \/ Register(s) \/ AnnounceStart(s) \/ StartReaders(s) \/ WaitReturns(s)
                 \/ JoinReaders(s) \/ Unregister(s)
      BY <1>1, <1>2, <2>1, <3>1
         DEF SpawnProcess, SpawnFails, SaveSpawnError, LogSpawnError, Register,
             AnnounceStart, StartReaders, WaitReturns, JoinReaders, Unregister
    <3>2. CASE CheckFlag(s)
      BY <1>1, <1>2, <2>1, <3>2 DEF CheckFlag
    <3>3. CASE CheckStatus(s) \/ SaveResult(s) \/ Finish(s)
      BY <1>1, <3>3 DEF CheckStatus, SaveResult, Finish
    <3>4. CASE MarkInterrupted(s)
      BY <1>1, <1>2, <2>1, <3>4 DEF MarkInterrupted, UpdateStatus
    <3>5. CASE SaveInterrupted(s)
      BY <1>1, <1>2, <2>1, <3>5 DEF SaveInterrupted, SetResult, managerVars
    <3> QED BY <1>4, <2>4, <3>1, <3>2, <3>3, <3>4, <3>5 DEF DispatcherNext
  <2> QED BY <1>1, <2>2, <2>3, <2>4, DispatchKept
<1> QED BY <1>3, <1>4

(* A dispatcher announces its agent only after it has registered it. *)
LEMMA AnnouncedBefore ==
    ASSUME TypeInv, ResultInv, [Next]_vars, NEW q \in Sessions, dispatchPc[q] \in Found,
           dispatchPc'[q] \in Announcing
    PROVE  dispatchPc[q] \in Announcing
<1> USE DEF TypeInv, TypeOK, ThreadTypeOK, Found, Announcing
<1>1. CASE DispatcherNext(q)
  BY <1>1 DEF DispatcherNext, DispatchStep, SpawnProcess, SpawnFails, SaveSpawnError,
              LogSpawnError, Register, AnnounceStart, StartReaders, WaitReturns,
              JoinReaders, Unregister, CheckFlag, CheckStatus, SaveResult, Finish,
              ClearFlag, MarkInterrupted, SaveInterrupted
<1>2. CASE DispatchToAgent(q)
  BY <1>2 DEF DispatchToAgent, HandlerStep, ResultInv, ResultOf
<1> QED BY <1>1, <1>2, DispatchKept

LEMMA DecidedByStep ==
    ASSUME ~RecyclePids, DecidePrior, [Next]_vars, NEW i \in Interrupts
    PROVE  DecidedBy(i)'
<1> USE DEF DecidedBy, DecidePrior
<1>1. ASSUME NEW s \in Sessions, InterruptRequest(i, s) PROVE DecidedBy(i)'
  BY <1>1 DEF InterruptRequest, FindProcess, NoProcessFound, InterruptStep, TypeInv,
              TypeOK, ThreadTypeOK
<1>2. CASE InterruptNext(i)
  <2> DEFINE s == interruptOf[i]
  <2>1. InProgress(i) /\ s \in Sessions /\ dispatchPc[s] \in Found
    BY <1>2 DEF InterruptNext, MarkRequested, KillSucceeds, KillFails, LogInterrupt,
                ClearAfterFailedKill, UnregisterKilled, SetInterrupted, InterruptStep,
                InProgress, AgentInv, TargetOf, TypeInv, RequestNamed
  <2>2. UNCHANGED <<interruptOf, dispatchPc>> /\ s = interruptOf'[i]
    BY <1>2 DEF InterruptNext, MarkRequested, KillSucceeds, KillFails, LogInterrupt,
                ClearAfterFailedKill, UnregisterKilled, SetInterrupted, InterruptStep
  <2> USE DEF InterruptStep, TypeInv, TypeOK, ManagerTypeOK, ThreadTypeOK
  <2>3. CASE MarkRequested(i)
    BY <2>1, <2>2, <2>3 DEF MarkRequested, MarkInterruptRequested
  <2>4. CASE KillSucceeds(i)
    <3>1. PICK q \in Sessions : pidOf[q] = interruptPid[i] /\ os[q] \in {"running", "exited"}
      BY <2>4 DEF KillSucceeds, InUse
    <3>2. q = s
      BY <2>1, <3>1 DEF AgentInv, TargetOf, OwnPids
    <3>3. dispatchPc[s] \in Announcing
      BY <2>1, <3>1, <3>2 DEF ProcessInv, ProcessOf, Spawned, Found, Announcing
    <3>4. s \in interruptRequested /\ interruptRequested' = interruptRequested
      BY <2>4, <3>3 DEF KillSucceeds, managerVars, DecideInv
    <3>5. Doomed(s)'
      BY <2>2, <3>3, <3>4 DEF Doomed, Unchecked, Announcing
    <3> QED BY <2>1, <2>2, <2>4, <3>5 DEF KillSucceeds
  <2>5. CASE KillFails(i) \/ ClearAfterFailedKill(i)
    BY <2>1, <2>2, <2>5 DEF KillFails, ClearAfterFailedKill
  <2>6. CASE LogInterrupt(i) \/ UnregisterKilled(i)
    <3>1. Doomed(s)
      BY <2>6 DEF LogInterrupt, UnregisterKilled, DecideInv
    <3>2. Doomed(s)'
      BY <2>1, <2>6, <3>1, DoomedStep DEF LogInterrupt, UnregisterKilled, MarkRequested,
                                          ClearAfterFailedKill
    <3> QED BY <2>1, <2>2, <2>6, <3>2 DEF LogInterrupt, UnregisterKilled
  <2>7. CASE SetInterrupted(i)
    <3>1. Doomed(s)
      BY <2>7 DEF SetInterrupted, DecideInv
    <3>2. dispatchPc[s] \in Found \ {"saveResult", "finish"}
      BY <3>1 DEF Doomed, Unchecked, Found
    <3> QED BY <2>1, <2>2, <2>7, <3>2 DEF SetInterrupted, UpdateStatus
  <2> QED BY <1>2, <2>3, <2>4, <2>5, <2>6, <2>7 DEF InterruptNext
<1>3. CASE /\ interruptPc'[i] = interruptPc[i] /\ interruptOf'[i] = interruptOf[i]
           /\ ~InterruptNext(i)
  <2> DEFINE s == interruptOf[i]
  <2>1. ~MarkRequested(i) /\ ~ClearAfterFailedKill(i)
    BY <1>3 DEF InterruptNext
  <2>2. CASE interruptPc[i] = "kill"
    <3>1. InProgress(i) /\ s \in Sessions /\ dispatchPc[s] \in Found
      BY <2>2 DEF InProgress, AgentInv, TargetOf, TypeInv, RequestNamed
    <3>2. SUFFICES ASSUME dispatchPc'[s] \in Announcing
                   PROVE  s \in interruptRequested'
      BY <1>3, <2>2
    <3>3. dispatchPc[s] \in Announcing
      BY <3>1, <3>2, AnnouncedBefore
    <3>4. s \in interruptRequested /\ ~ClearFlag(s)
      BY <2>2, <3>3 DEF DecideInv, ClearFlag, DispatchStep, Announcing
    <3> QED BY <2>1, <3>1, <3>4, MarkOfTarget DEF DecideInv
  <2>3. CASE interruptPc[i] \in {"log", "unregister", "setStatus"}
    <3>1. InProgress(i) /\ Doomed(s)
      BY <2>3 DEF InProgress, DecideInv
    <3> QED BY <1>3, <2>1, <2>3, <3>1, DoomedStep
  <2>4. CASE interruptPc[i] = "ok"
    <3>1. /\ s \in Sessions /\ status[s] = "Interrupted"
          /\ dispatchPc[s] \in Found \ {"saveResult", "finish"}
      BY <2>4 DEF DecideInv, TypeInv, RequestNamed
    <3>2. status'[s] = "Interrupted"
      BY <3>1, StatusKept DEF Finish, DispatchStep, Found
    <3>3. dispatchPc'[s] \notin {"saveResult", "finish"}
      <4>1. CASE DispatcherNext(s)
        BY <3>1, <4>1
           DEF DispatcherNext, DispatchStep, SpawnProcess, SpawnFails, SaveSpawnError,
               LogSpawnError, Register, AnnounceStart, StartReaders, WaitReturns,
               JoinReaders, Unregister, CheckFlag, CheckStatus, SaveResult, Finish,
               ClearFlag, MarkInterrupted, SaveInterrupted, TypeInv, TypeOK, ThreadTypeOK,
               Found
      <4>2. CASE DispatchToAgent(s)
        BY <3>1, <4>2 DEF DispatchToAgent, HandlerStep, ResultInv, ResultOf, Found
      <4> QED BY <3>1, <4>1, <4>2, DispatchKept
    <3> QED BY <1>3, <2>4, <3>1, <3>2, <3>3, FoundStays
  <2> QED BY <1>3, <2>2, <2>3, <2>4
<1> QED BY <1>1, <1>2, <1>3, RequestKept

LEMMA MarkSeenStep ==
    ASSUME DecidePrior, [Next]_vars, NEW s \in Sessions
    PROVE  MarkSeen(s)'
<1> USE DEF MarkSeen, DecidePrior, TypeInv, TypeOK, ManagerTypeOK, ThreadTypeOK
<1> SUFFICES ASSUME s \in interruptRequested'
             PROVE  \/ dispatchPc'[s] \in Unchecked \cup {"clearFlag"}
                    \/ \E i \in Interrupts : InProgress(i)' /\ interruptOf'[i] = s
  OBVIOUS
<1>1. ASSUME NEW i \in Interrupts, InProgress(i), interruptOf[i] = s
      PROVE  \/ dispatchPc'[s] \in Unchecked \cup {"clearFlag"}
             \/ InProgress(i)' /\ interruptOf'[i] = s
  <2>1. CASE ClearAfterFailedKill(i)
    BY <1>1, <2>1 DEF ClearAfterFailedKill, ClearInterruptRequested
  <2>2. CASE SetInterrupted(i)
    <3>1. Doomed(s) /\ interruptRequested' = interruptRequested /\ dispatchPc' = dispatchPc
      BY <1>1, <2>2 DEF SetInterrupted, InterruptStep, UpdateStatus, tableVars, DecideInv,
                        DecidedBy
    <3> QED BY <3>1 DEF Doomed
  <2>3. CASE InterruptNext(i) /\ ~ClearAfterFailedKill(i) /\ ~SetInterrupted(i)
    BY <1>1, <2>3 DEF InterruptNext, MarkRequested, KillSucceeds, KillFails, LogInterrupt,
                      UnregisterKilled, InterruptStep, InProgress
  <2>4. CASE ~InterruptNext(i)
    BY <1>1, <2>4, RequestKept DEF InterruptRequest, FindProcess, NoProcessFound,
                                   InterruptStep, InProgress
  <2> QED BY <2>1, <2>2, <2>3, <2>4
<1>2. CASE \E i \in Interrupts : InProgress(i) /\ interruptOf[i] = s
  BY <1>1, <1>2
<1>3. CASE ~\E i \in Interrupts : InProgress(i) /\ interruptOf[i] = s
  <2>1. s \in interruptRequested
    <3>1. ASSUME NEW i \in Interrupts, MarkRequested(i), s \notin interruptRequested
          PROVE  FALSE
      BY <1>3, <3>1 DEF MarkRequested, MarkInterruptRequested, InterruptStep, InProgress
    <3> QED BY <3>1, MarksKept DEF ClearFlag, ClearAfterFailedKill, ClearInterruptRequested
  <2>2. dispatchPc[s] \in Unchecked \cup {"clearFlag"}
    BY <1>3, <2>1 DEF DecideInv
  <2>3. CASE DispatcherNext(s)
    <3> USE DEF DispatchStep, Unchecked
    <3>1. CASE ClearFlag(s)
      BY <3>1 DEF ClearFlag, ClearInterruptRequested
    <3>2. CASE ~ClearFlag(s)
      BY <2>1, <2>2, <2>3, <3>2
         DEF DispatcherNext, SpawnProcess, SpawnFails, SaveSpawnError, LogSpawnError,
             Register, AnnounceStart, StartReaders, WaitReturns, JoinReaders, Unregister,
             CheckFlag, CheckStatus, SaveResult, Finish, MarkInterrupted, SaveInterrupted
    <3> QED BY <3>1, <3>2
  <2>4. CASE DispatchToAgent(s)
    BY <2>2, <2>4 DEF DispatchToAgent, HandlerStep, ResultInv, ResultOf, Unchecked
  <2> QED BY <2>2, <2>3, <2>4, DispatchKept
<1> QED BY <1>2, <1>3

LEMMA DecideInvStep ==
    ASSUME SerialInterrupts, ~RecyclePids, DecidePrior, [Next]_vars
    PROVE  DecideInv'
<1>1. OneAtATime'
  BY OneAtATimeStep DEF DecidePrior, DecideInv
<1> QED BY <1>1, DecidedByStep, MarkSeenStep DEF DecideInv

(* If clients wait for an interrupt before the next and freed pids are not *)
(* given out again, an interrupt answered with success has ended its       *)
(* session for good, and none leaves a mark behind that nobody looks at.   *)
THEOREM InterruptsDecide ==
    ASSUME SerialInterrupts, ~RecyclePids
    PROVE  Spec => []InterruptDecides
<1>1. TypeInv /\ DecideInv => InterruptDecides
  <2> SUFFICES ASSUME TypeInv, DecideInv PROVE NoMarkLeft
    BY DEF InterruptDecides, DecideInv, DecidedBy
  <2> SUFFICES ASSUME NEW s \in interruptRequested, dispatchPc[s] = "done"
               PROVE  \E i \in Interrupts : InProgress(i) /\ interruptOf[i] = s
    BY DEF NoMarkLeft
  <2>1. s \in Sessions
    BY DEF TypeInv, TypeOK, ManagerTypeOK
  <2> QED BY <2>1 DEF DecideInv, MarkSeen, Unchecked
<1>2. TypeInv /\ ResultInv /\ ProcessInv /\ RegistrationInv /\ AgentInv /\ DecideInv
        /\ [Next]_vars => DecideInv'
  BY DecideInvStep DEF DecidePrior
<1>3. TypeInv /\ ResultInv /\ ProcessInv /\ RegistrationInv /\ AgentInv /\ [Next]_vars
        => AgentInv'
  BY AgentInvStep
<1> QED BY <1>1, <1>2, <1>3, InitTypeInv, TypeInvStep, ResultInvInit, ResultInvStep,
           ProcessInvInit, ProcessInvStep, RegistrationInvInit, RegistrationInvStep,
           AgentInvInit, DecideInvInit, PTL DEF Spec
-----------------------------------------------------------------------------
(* The engine implements the life cycle of SessionLifecycle.  StatusOf is  *)
(* the status and the result a session has at each label of its threads.   *)
StatusOf(s) ==
    /\ handlerPc[s] = "off" => status[s] = "Absent"
    /\ handlerPc[s] = "lookup" => status[s] = "Pending"
    /\ handlerPc[s] = "reject" => status[s] = "Pending" /\ result[s] = "failed"
    /\ dispatchPc[s] \in {"spawn", "register", "saveError", "logError", "saveResult",
                          "finish"}
         => status[s] = "Running"
    /\ dispatchPc[s] \in Unchecked \cup {"checkStatus", "clearFlag", "markInterrupted"}
         => status[s] \in {"Running", "Interrupted"}
    /\ dispatchPc[s] = "saveInterrupted" => status[s] = "Interrupted"
    /\ dispatchPc[s] = "logError" => result[s] = "failed"
    /\ dispatchPc[s] = "finish" =>
         result[s] = (IF outcome[s] = "ok" THEN "ok" ELSE "failed")

StatusInv == \A s \in Sessions : StatusOf(s)

LEMMA StatusInvInit == Init => StatusInv
<1> SUFFICES ASSUME Init, NEW s \in Sessions PROVE StatusOf(s)
  BY DEF StatusInv
<1>1. /\ handlerPc[s] = "off" /\ dispatchPc[s] = "off" /\ status[s] = "Absent"
  BY DEF Init, ManagerInit
<1> QED BY <1>1 DEF StatusOf, Unchecked

(* Beside a session's own two threads, only interrupts set its status. *)
LEMMA OthersStatus ==
    ASSUME OthersStep
    PROVE  status' = status \/ \E i \in Interrupts : SetInterrupted(i)
<1>1. ASSUME NEW i \in Interrupts, InterruptNext(i)
      PROVE  status' = status \/ SetInterrupted(i)
  BY <1>1 DEF InterruptNext, MarkRequested, KillSucceeds, KillFails, LogInterrupt,
              ClearAfterFailedKill, UnregisterKilled, UnregisterProcess, AddProgress,
              MarkInterruptRequested, ClearInterruptRequested, managerVars, sessionVars
<1>2. CASE ~\E i \in Interrupts : InterruptNext(i)
  BY <1>2 DEF OthersStep, ProcessExits, ReaderNext, ReadLine, ReadFails, ReadEnd,
              AddProgress, InterruptRequest, FindProcess, NoProcessFound, HandleSubscribe,
              Subscribe, ReplayNext, Replayed, Publish, StartPublish, SendEvent,
              LookupSubscribers, Delivered, AllServed, vars, managerVars, sessionVars
<1> QED BY <1>1, <1>2

(* What an interrupt that is about to set the status finds. *)
LEMMA BeforeSetInterrupted ==
    ASSUME DecidePrior, NEW i \in Interrupts, SetInterrupted(i)
    PROVE  /\ interruptOf[i] \in Sessions
           /\ dispatchPc[interruptOf[i]] \in Unchecked \cup {"clearFlag", "markInterrupted",
                                                             "saveInterrupted", "done"}
           /\ dispatchPc[interruptOf[i]] = "done" => status[interruptOf[i]] = "Interrupted"
<1>1. interruptPc[i] = "setStatus"
  BY DEF SetInterrupted, InterruptStep
<1>2. interruptOf[i] \in Sessions
  BY <1>1 DEF DecidePrior, TypeInv, RequestNamed
<1>3. Doomed(interruptOf[i])
  BY <1>1 DEF DecidePrior, DecideInv, DecidedBy
<1>4. /\ dispatchPc[interruptOf[i]] \in Unchecked \cup {"clearFlag", "markInterrupted",
                                                        "saveInterrupted", "done"}
      /\ dispatchPc[interruptOf[i]] = "done" => status[interruptOf[i]] = "Interrupted"
  BY <1>3 DEF Doomed, Unchecked
<1> QED BY <1>2, <1>4

LEMMA StatusInvStep ==
    ASSUME DecidePrior, StatusInv, [Next]_vars
    PROVE  StatusInv'
<1> SUFFICES ASSUME NEW q \in Sessions PROVE StatusOf(q)'
  BY DEF StatusInv
<1> USE DEF DecidePrior, TypeInv, TypeOK, ManagerTypeOK, ThreadTypeOK, StatusOf, Unchecked
<1> HIDE DEF DecideInv, AgentInv, RegistrationInv, ProcessInv
<1>0. StatusOf(q) /\ ResultOf(q)
  BY DEF StatusInv, ResultInv
<1>1. ASSUME NEW s \in Sessions, HandlerNext(s) PROVE StatusOf(q)'
  <2> USE <1>0 DEF HandlerStep, ResultOf, osVars
  <2>1. CASE HandleDispatch(s) BY <2>1 DEF HandleDispatch, CreateSession
  <2>2. CASE DispatchToAgent(s) BY <2>2 DEF DispatchToAgent, UpdateStatus
  <2>3. CASE AgentNotFound(s) BY <2>3 DEF AgentNotFound, SetResult
  <2>4. CASE RejectDispatch(s) BY <2>4 DEF RejectDispatch, UpdateStatus
  <2>5. CASE ReplyDispatch(s) BY <2>5 DEF ReplyDispatch, managerVars
  <2> QED BY <1>1, <2>1, <2>2, <2>3, <2>4, <2>5 DEF HandlerNext
<1>2. ASSUME NEW s \in Sessions, DispatcherNext(s) PROVE StatusOf(q)'
  <2> USE <1>0 DEF DispatchStep, ResultOf, osVars
  <2>1. CASE SpawnProcess(s) BY <2>1 DEF SpawnProcess, managerVars
  <2>2. CASE SpawnFails(s) BY <2>2 DEF SpawnFails, managerVars
  <2>3. CASE SaveSpawnError(s) BY <2>3 DEF SaveSpawnError, SetResult
  <2>4. CASE LogSpawnError(s)
    <3>1. outcome[s] = "none"
      BY <2>4 DEF LogSpawnError, ProcessInv, ProcessOf
    <3> QED BY <2>4, <3>1 DEF LogSpawnError, AddProgress
  <2>5. CASE Register(s) BY <2>5 DEF Register, RegisterProcess, sessionVars
  <2>6. CASE AnnounceStart(s) BY <2>6 DEF AnnounceStart, AddProgress
  <2>7. CASE StartReaders(s) BY <2>7 DEF StartReaders, managerVars
  <2>8. CASE WaitReturns(s) BY <2>8 DEF WaitReturns, managerVars
  <2>9. CASE JoinReaders(s) BY <2>9 DEF JoinReaders, managerVars
  <2>10. CASE Unregister(s) BY <2>10 DEF Unregister, UnregisterProcess, sessionVars
  <2>11. CASE CheckFlag(s) BY <2>11 DEF CheckFlag, managerVars
  <2>12. CASE CheckStatus(s) BY <2>12 DEF CheckStatus, managerVars
  <2>13. CASE SaveResult(s) BY <2>13 DEF SaveResult, SetResult
  <2>14. CASE Finish(s) BY <2>14 DEF Finish, UpdateStatus
  <2>15. CASE ClearFlag(s) BY <2>15 DEF ClearFlag, ClearInterruptRequested, sessionVars
  <2>16. CASE MarkInterrupted(s) BY <2>16 DEF MarkInterrupted, UpdateStatus
  <2>17. CASE SaveInterrupted(s) BY <2>17 DEF SaveInterrupted, SetResult, managerVars
  <2> QED BY <1>2, <2>1, <2>2, <2>3, <2>4, <2>5, <2>6, <2>7, <2>8, <2>9, <2>10, <2>11,
             <2>12, <2>13, <2>14, <2>15, <2>16, <2>17 DEF DispatcherNext
<1>3. CASE OthersStep
  <2>1. UNCHANGED <<handlerPc, dispatchPc, result>>
    BY <1>3, OthersKeep
  <2>2. dispatchPc[q] = "finish" => outcome'[q] = outcome[q]
    <3>1. dispatchPc[q] = "finish" => os[q] # "running"
      BY DEF ProcessInv, ProcessOf, Spawned
    <3>2. ASSUME NEW s \in Sessions, ProcessExits(s), s # q PROVE outcome'[q] = outcome[q]
      BY <3>2 DEF ProcessExits
    <3>3. ASSUME NEW i \in Interrupts, KillSucceeds(i), os[q] # "running"
          PROVE  outcome'[q] = outcome[q]
      BY <3>3 DEF KillSucceeds
    <3>4. os[q] # "running" => ~ProcessExits(q)
      BY DEF ProcessExits
    <3> QED BY <1>3, <3>1, <3>2, <3>3, <3>4, OthersProcesses
  <2>3. CASE status' = status
    BY <1>0, <2>1, <2>2, <2>3
  <2>4. ASSUME NEW i \in Interrupts, SetInterrupted(i) PROVE StatusOf(q)'
    <3>1. status' = [status EXCEPT ![interruptOf[i]] = "Interrupted"]
      BY <2>4 DEF SetInterrupted, UpdateStatus
    <3>2. CASE interruptOf[i] = q
      <4>1. dispatchPc[q] \in Unchecked \cup {"clearFlag", "markInterrupted",
                                              "saveInterrupted", "done"}
        BY <2>4, <3>2, BeforeSetInterrupted
      <4> QED BY <1>0, <2>1, <2>2, <3>1, <3>2, <4>1 DEF ResultOf
    <3>3. CASE interruptOf[i] # q
      BY <1>0, <2>1, <2>2, <3>1, <3>3
    <3> QED BY <3>2, <3>3
  <2> QED BY <1>3, <2>3, <2>4, OthersStatus
<1>4. CASE UNCHANGED vars
  BY <1>0, <1>4 DEF vars, managerVars
<1> QED BY <1>1, <1>2, <1>3, <1>4, NextCases

(* Every step of the engine is a step of the life cycle or leaves the      *)
(* status and the result alone.                                            *)
LEMMA LifeSteps ==
    ASSUME DecidePrior, StatusInv, [Next]_vars
    PROVE  [Lifecycle!LifeNext]_Lifecycle!lifeVars
<1> USE DEF Lifecycle!lifeVars, TypeInv, TypeOK, ManagerTypeOK, ThreadTypeOK
<1>0. TypeInv /\ ResultInv
  BY DEF DecidePrior
<1> SUFFICES ASSUME ~UNCHANGED <<status, result>> PROVE Lifecycle!LifeNext
  OBVIOUS
<1>1. ASSUME NEW s \in Sessions, HandlerNext(s) PROVE Lifecycle!LifeNext
  <2>0. StatusOf(s) /\ ResultOf(s)
    BY <1>0 DEF StatusInv, ResultInv
  <2> USE <1>0, <2>0 DEF HandlerStep, ResultOf, StatusOf
  <2>1. CASE HandleDispatch(s)
    <3>1. Lifecycle!Accept(s)
      BY <2>1 DEF HandleDispatch, CreateSession, Lifecycle!Accept, Lifecycle!Moves
    <3> QED BY <3>1 DEF Lifecycle!LifeNext
  <2>2. CASE DispatchToAgent(s)
    <3>1. Lifecycle!Start(s)
      BY <2>2 DEF DispatchToAgent, UpdateStatus, Lifecycle!Start, Lifecycle!Moves
    <3> QED BY <3>1 DEF Lifecycle!LifeNext
  <2>3. CASE AgentNotFound(s)
    <3>1. Lifecycle!Refuse(s)
      BY <2>3 DEF AgentNotFound, SetResult, Lifecycle!Refuse, Lifecycle!Records
    <3> QED BY <3>1 DEF Lifecycle!LifeNext
  <2>4. CASE RejectDispatch(s)
    <3>1. Lifecycle!Fail(s)
      BY <2>4 DEF RejectDispatch, UpdateStatus, Lifecycle!Fail, Lifecycle!Moves
    <3> QED BY <3>1 DEF Lifecycle!LifeNext
  <2>5. CASE ReplyDispatch(s)
    BY <2>5 DEF ReplyDispatch, managerVars
  <2> QED BY <1>1, <2>1, <2>2, <2>3, <2>4, <2>5 DEF HandlerNext
<1>2. ASSUME NEW s \in Sessions, DispatcherNext(s) PROVE Lifecycle!LifeNext
  <2>0. StatusOf(s) /\ ResultOf(s)
    BY <1>0 DEF StatusInv, ResultInv
  <2> USE <1>0, <2>0 DEF DispatchStep, ResultOf, StatusOf, Working
  <2>1. CASE SaveSpawnError(s)
    <3>1. Lifecycle!Record(s)
      BY <2>1 DEF SaveSpawnError, SetResult, Lifecycle!Record, Lifecycle!Records
    <3> QED BY <3>1 DEF Lifecycle!LifeNext
  <2>2. CASE SaveResult(s)
    <3>1. Lifecycle!Record(s)
      BY <2>2 DEF SaveResult, SetResult, Lifecycle!Record, Lifecycle!Records
    <3> QED BY <3>1 DEF Lifecycle!LifeNext
  <2>3. CASE Finish(s)
    <3>1. Lifecycle!Complete(s) \/ Lifecycle!Fail(s)
      BY <2>3 DEF Finish, UpdateStatus, Lifecycle!Complete, Lifecycle!Fail, Lifecycle!Moves
    <3> QED BY <3>1 DEF Lifecycle!LifeNext
  <2>4. CASE MarkInterrupted(s)
    <3>1. /\ result[s] = "none" /\ UNCHANGED result /\ status[s] \in {"Running", "Interrupted"}
          /\ status' = [status EXCEPT ![s] = "Interrupted"]
      BY <2>4 DEF MarkInterrupted, UpdateStatus
    <3>2. CASE status[s] = "Running"
      <4>1. Lifecycle!Interrupt(s)
        BY <3>1, <3>2 DEF Lifecycle!Interrupt, Lifecycle!Moves
      <4> QED BY <4>1 DEF Lifecycle!LifeNext
    <3>3. CASE status[s] = "Interrupted"
      BY <3>1, <3>3
    <3> QED BY <3>1, <3>2, <3>3
  <2>5. CASE SaveInterrupted(s)
    <3>1. Lifecycle!Explain(s)
      BY <2>5 DEF SaveInterrupted, SetResult, Lifecycle!Explain, Lifecycle!Records
    <3> QED BY <3>1 DEF Lifecycle!LifeNext
  <2>6. CASE ~(SaveSpawnError(s) \/ SaveResult(s) \/ Finish(s) \/ MarkInterrupted(s)
                 \/ SaveInterrupted(s))
    BY <1>2, <2>6
       DEF DispatcherNext, SpawnProcess, SpawnFails, LogSpawnError, Register, AnnounceStart,
           StartReaders, WaitReturns, JoinReaders, Unregister, CheckFlag, CheckStatus,
           ClearFlag, AddProgress, RegisterProcess, UnregisterProcess,
           ClearInterruptRequested, managerVars, sessionVars
  <2> QED BY <2>1, <2>2, <2>3, <2>4, <2>5, <2>6
<1>3. CASE OthersStep
  <2>1. UNCHANGED result
    BY <1>0, <1>3, OthersKeep
  <2> PICK i \in Interrupts : SetInterrupted(i)
    BY <1>3, <2>1, OthersStatus
  <2> DEFINE s == interruptOf[i]
  <2>2. status' = [status EXCEPT ![s] = "Interrupted"]
    BY DEF SetInterrupted, UpdateStatus
  <2>3. s \in Sessions /\ status[s] # "Interrupted"
    BY <1>0, <2>1, <2>2, BeforeSetInterrupted
  <2>4. StatusOf(s) /\ ResultOf(s)
    BY <1>0, <2>3 DEF StatusInv, ResultInv
  <2>5. dispatchPc[s] \in Unchecked \cup {"clearFlag", "markInterrupted"}
    BY <2>3, <2>4, BeforeSetInterrupted DEF StatusOf
  <2>6. status[s] = "Running" /\ result[s] = "none"
    BY <2>3, <2>4, <2>5 DEF StatusOf, ResultOf, Working, Unchecked
  <2>7. Lifecycle!Interrupt(s)
    BY <2>1, <2>2, <2>6 DEF Lifecycle!Interrupt, Lifecycle!Moves
  <2> QED BY <2>3, <2>7 DEF Lifecycle!LifeNext
<1>4. CASE UNCHANGED vars
  BY <1>4 DEF vars, managerVars
<1> QED BY <1>1, <1>2, <1>3, <1>4, NextCases

(* Under the same assumptions every behaviour of the engine is one of the  *)
(* abstract life cycle: a session ends once, in one way and with one       *)
(* result, whatever its threads and its interrupts do.                     *)
THEOREM LifecycleImplemented ==
    ASSUME SerialInterrupts, ~RecyclePids
    PROVE  Spec => ImplementsLifecycle
<1>1. Init => Lifecycle!LifeInit
  BY DEF Init, ManagerInit, Lifecycle!LifeInit
<1>2. TypeInv /\ ResultInv /\ ProcessInv /\ RegistrationInv /\ AgentInv /\ DecideInv
        /\ [Next]_vars => DecideInv'
  BY DecideInvStep DEF DecidePrior
<1>3. TypeInv /\ ResultInv /\ ProcessInv /\ RegistrationInv /\ AgentInv /\ [Next]_vars
        => AgentInv'
  BY AgentInvStep
<1>4. TypeInv /\ ResultInv /\ ProcessInv /\ RegistrationInv /\ AgentInv /\ DecideInv
        /\ StatusInv /\ [Next]_vars => StatusInv' /\ [Lifecycle!LifeNext]_Lifecycle!lifeVars
  BY StatusInvStep, LifeSteps DEF DecidePrior
<1> QED BY <1>1, <1>2, <1>3, <1>4, InitTypeInv, TypeInvStep, ResultInvInit, ResultInvStep,
           ProcessInvInit, ProcessInvStep, RegistrationInvInit, RegistrationInvStep,
           AgentInvInit, DecideInvInit, StatusInvInit, PTL
        DEF Spec, ImplementsLifecycle, Lifecycle!LifeSpec
-----------------------------------------------------------------------------
(* What a subscriber was told is true.  A connection subscribes to one     *)
(* session, and as long as that session has no result nothing that was     *)
(* sent, is being sent or is to be replayed says it completed or failed.   *)
Finished(e) == e.terminal /\ e.status \in {"Completed", "Failed"}

OneSession(c) ==
    /\ \A s, q \in Sessions : c \in subscribers[s] /\ c \in subscribers[q] => s = q
    /\ (\A s \in Sessions : c \notin subscribers[s]) =>
         /\ received[c] = << >> /\ replay[c] = NoReplay
         /\ \A d \in deliveries : d.to # c

NotToldOf(s, c) ==
    /\ \A n \in DOMAIN received[c] : ~Finished(received[c][n])
    /\ \A d \in deliveries : d.to = c => ~Finished(d.event)
    /\ replay[c].end \notin {"Completed", "Failed"}

ToldOf(s, c) == c \in subscribers[s] /\ result[s] = "none" => NotToldOf(s, c)

NoticesTrue == \A m \in notices : Finished(m.event) => result[m.about] # "none"

ToldInv ==
    /\ NoticesTrue
    /\ \A c \in Clients : OneSession(c)
    /\ \A s \in Sessions, c \in Clients : ToldOf(s, c)

(* What the publishing threads and the subscriptions work on. *)
feed == <<subscribers, deliveries, replay, received>>

LEMMA ToldInvInit == Init => ToldInv
BY DEF Init, ManagerInit, ToldInv, NoticesTrue, OneSession, ToldOf, NoReplay

(* ResultKept, for one session. *)
LEMMA ResultStays ==
    ASSUME TypeInv, ResultInv, [Next]_vars, NEW s \in Sessions, result[s] # "none"
    PROVE  result'[s] # "none"
<1>1. CASE UNCHANGED vars
  BY <1>1 DEF vars, managerVars
<1>2. CASE ~UNCHANGED vars
  BY <1>2, ResultKept
<1> QED BY <1>1, <1>2

(* Only the publishing steps touch what subscribers are sent, and only a   *)
(* session that has its result is announced as completed or failed.        *)
LEMMA FeedSteps ==
    ASSUME TypeInv, ResultInv, [Next]_vars
    PROVE  \/ UNCHANGED feed /\ \A m \in notices' \ notices :
                                    Finished(m.event) => result[m.about] # "none"
           \/ \E c \in Clients, s \in Sessions : HandleSubscribe(c, s)
           \/ \E c \in Clients : ReplayNext(c)
           \/ \E t \in Threads : StartPublish(t) \/ SendEvent(t)
<1> DEFINE Quiet == UNCHANGED feed /\ \A m \in notices' \ notices :
                                        Finished(m.event) => result[m.about] # "none"
<1>1. ASSUME NEW t, NEW s \in Sessions, NEW st, UNCHANGED received, UpdateStatus(t, s, st),
             st \in {"Completed", "Failed"} => result[s] # "none"
      PROVE  Quiet
  BY <1>1 DEF UpdateStatus, feed, Finished, Terminal
<1>2. ASSUME NEW t, NEW s \in Sessions, UNCHANGED received, AddProgress(t, s)
      PROVE  Quiet
  BY <1>2 DEF AddProgress, feed, Finished, Progress
<1>3. ASSUME UNCHANGED <<received, feedVars>> PROVE Quiet
  BY <1>3 DEF feed, feedVars
<1>4. ASSUME NEW s \in Sessions, HandlerNext(s) PROVE Quiet
  <2> HIDE DEF Quiet
  <2>0. UNCHANGED received
    BY <1>4 DEF HandlerNext, HandlerStep, HandleDispatch, DispatchToAgent, AgentNotFound,
                RejectDispatch, ReplyDispatch
  <2>1. CASE DispatchToAgent(s)
    <3>1. UpdateStatus(Handler(s), s, "Running")
      BY <2>1 DEF DispatchToAgent
    <3> QED BY <1>1, <2>0, <3>1
  <2>2. CASE RejectDispatch(s)
    <3>1. UpdateStatus(Handler(s), s, "Failed") /\ result[s] # "none"
      BY <2>2 DEF RejectDispatch, HandlerStep, ResultInv, ResultOf
    <3> QED BY <1>1, <2>0, <3>1
  <2>3. CASE HandleDispatch(s) \/ AgentNotFound(s) \/ ReplyDispatch(s)
    <3>1. UNCHANGED feedVars
      BY <2>3 DEF HandleDispatch, AgentNotFound, ReplyDispatch, CreateSession, SetResult,
                  managerVars, feedVars
    <3> QED BY <1>3, <2>0, <3>1
  <2> QED BY <1>4, <2>1, <2>2, <2>3 DEF HandlerNext
<1>5. ASSUME NEW s \in Sessions, DispatcherNext(s) PROVE Quiet
  <2> HIDE DEF Quiet
  <2>0. UNCHANGED received
    BY <1>5 DEF DispatcherNext, DispatchStep, SpawnProcess, SpawnFails, SaveSpawnError,
                LogSpawnError, Register, AnnounceStart, StartReaders, WaitReturns,
                JoinReaders, Unregister, CheckFlag, CheckStatus, SaveResult, Finish,
                ClearFlag, MarkInterrupted, SaveInterrupted
  <2>1. CASE LogSpawnError(s) \/ AnnounceStart(s)
    <3>1. AddProgress(Dispatcher(s), s)
      BY <2>1 DEF LogSpawnError, AnnounceStart
    <3> QED BY <1>2, <2>0, <3>1
  <2>2. CASE MarkInterrupted(s)
    <3>1. UpdateStatus(Dispatcher(s), s, "Interrupted")
      BY <2>2 DEF MarkInterrupted
    <3> QED BY <1>1, <2>0, <3>1
  <2>3. CASE Finish(s)
    <3>1. result[s] # "none"
      BY <2>3 DEF Finish, DispatchStep, ResultInv, ResultOf
    <3>2. UpdateStatus(Dispatcher(s), s, IF outcome[s] = "ok" THEN "Completed" ELSE "Failed")
      BY <2>3 DEF Finish
    <3> QED BY <1>1, <2>0, <3>1, <3>2
  <2>4. CASE ~(LogSpawnError(s) \/ AnnounceStart(s) \/ MarkInterrupted(s) \/ Finish(s))
    <3>1. UNCHANGED feedVars
      BY <1>5, <2>4
         DEF DispatcherNext, SpawnProcess, SpawnFails, SaveSpawnError, Register,
             StartReaders, WaitReturns, JoinReaders, Unregister, CheckFlag, CheckStatus,
             SaveResult, ClearFlag, SaveInterrupted, SetResult, RegisterProcess,
             UnregisterProcess, ClearInterruptRequested, managerVars, feedVars
    <3> QED BY <1>3, <2>0, <3>1
  <2> QED BY <2>1, <2>2, <2>3, <2>4
<1>6. ASSUME NEW i \in Interrupts, InterruptNext(i) PROVE Quiet
  <2> HIDE DEF Quiet
  <2>0. UNCHANGED received
    BY <1>6 DEF InterruptNext, InterruptStep, MarkRequested, KillSucceeds, KillFails,
                ClearAfterFailedKill, LogInterrupt, UnregisterKilled, SetInterrupted
  <2>1. interruptOf[i] \in Sessions
    BY <1>6 DEF InterruptNext, InterruptStep, MarkRequested, KillSucceeds, KillFails,
                ClearAfterFailedKill, LogInterrupt, UnregisterKilled, SetInterrupted,
                TypeInv, RequestNamed
  <2>2. CASE LogInterrupt(i)
    <3>1. AddProgress(Interrupter(i), interruptOf[i])
      BY <2>2 DEF LogInterrupt
    <3> QED BY <1>2, <2>0, <2>1, <3>1
  <2>3. CASE SetInterrupted(i)
    <3>1. UpdateStatus(Interrupter(i), interruptOf[i], "Interrupted")
      BY <2>3 DEF SetInterrupted
    <3> QED BY <1>1, <2>0, <2>1, <3>1
  <2>4. CASE ~(LogInterrupt(i) \/ SetInterrupted(i))
    <3>1. UNCHANGED feedVars
      BY <1>6, <2>4 DEF InterruptNext, MarkRequested, KillSucceeds, KillFails,
                        ClearAfterFailedKill, UnregisterKilled, UnregisterProcess,
                        MarkInterruptRequested, ClearInterruptRequested, managerVars,
                        feedVars
    <3> QED BY <1>3, <2>0, <3>1
  <2> QED BY <2>2, <2>3, <2>4
<1>7. ASSUME NEW s \in Sessions, NEW k \in Streams, ReaderNext(s, k) PROVE Quiet
  <2> HIDE DEF Quiet
  <2>1. CASE AddProgress(Reader(s, k), s)
    BY <1>2, <1>7, <2>1 DEF ReaderNext, ReaderStep, ReadLine, ReadFails, ReadEnd
  <2>2. CASE UNCHANGED managerVars
    BY <1>3, <1>7, <2>2 DEF ReaderNext, ReaderStep, ReadLine, ReadFails, ReadEnd,
                            managerVars, feedVars
  <2> QED BY <1>7, <2>1, <2>2 DEF ReaderNext, ReadLine, ReadFails, ReadEnd
<1>8. ASSUME \/ \E s \in Sessions : ProcessExits(s)
             \/ \E i \in Interrupts, s \in Sessions : InterruptRequest(i, s)
             \/ AllServed
             \/ UNCHANGED vars
      PROVE  Quiet
  <2> HIDE DEF Quiet
  <2>1. UNCHANGED <<received, feedVars>>
    BY <1>8 DEF ProcessExits, InterruptRequest, FindProcess, NoProcessFound, InterruptStep,
                AllServed, vars, managerVars, feedVars
  <2> QED BY <1>3, <2>1
<1> HIDE DEF Quiet
<1>9. CASE Quiet
  BY <1>9 DEF Quiet
<1>10. CASE ~Quiet
  BY <1>4, <1>5, <1>6, <1>7, <1>8, <1>10 DEF Next, Publish
<1> QED BY <1>9, <1>10

(* The events on a connection after one more was written. *)
LEMMA AppendedEvent ==
    ASSUME NEW r \in Seq(Event), NEW e \in Event, NEW n \in DOMAIN Append(r, e)
    PROVE  (n \in DOMAIN r /\ Append(r, e)[n] = r[n]) \/ Append(r, e)[n] = e
<1>1. n \in 1..(Len(r) + 1)
  OBVIOUS
<1> QED BY <1>1

LEMMA ToldInvStep ==
    ASSUME TypeInv, ResultInv, ToldInv, [Next]_vars
    PROVE  ToldInv'
<1> USE DEF TypeInv, TypeOK, ManagerTypeOK, ThreadTypeOK
<1>0. \A s \in Sessions : result'[s] = "none" => result[s] = "none"
  BY ResultStays
<1>1. CASE UNCHANGED feed /\ \A m \in notices' \ notices :
                                Finished(m.event) => result[m.about] # "none"
  <2>1. NoticesTrue'
    <3> SUFFICES ASSUME NEW m \in notices', Finished(m.event) PROVE result'[m.about] # "none"
      BY DEF NoticesTrue
    <3>1. m.about \in Sessions
      BY TypeInvStep
    <3>2. result[m.about] # "none"
      BY <1>1 DEF ToldInv, NoticesTrue
    <3> QED BY <3>1, <3>2, ResultStays
  <2>2. ASSUME NEW c \in Clients PROVE OneSession(c)'
    BY <1>1 DEF ToldInv, OneSession, feed
  <2>3. ASSUME NEW s \in Sessions, NEW c \in Clients PROVE ToldOf(s, c)'
    BY <1>0, <1>1 DEF ToldInv, ToldOf, NotToldOf, feed
  <2> QED BY <2>1, <2>2, <2>3 DEF ToldInv
<1>2. ASSUME NEW c \in Clients, NEW q \in Sessions, HandleSubscribe(c, q) PROVE ToldInv'
  <2>1. /\ UNCHANGED <<result, notices, deliveries, received>>
        /\ subscribers' = [subscribers EXCEPT ![q] = @ \cup {c}]
        /\ replay' = [replay EXCEPT ![c] =
                        [next |-> 1, last |-> logged[q], end |-> status[q]]]
        /\ \A s \in Sessions : c \notin subscribers[s]
    BY <1>2 DEF HandleSubscribe, Subscribe, sessionVars
  <2>2. OneSession(c)
    BY DEF ToldInv
  <2>3. ASSUME NEW b \in Clients PROVE OneSession(b)'
    <3>1. CASE b = c
      BY <2>1, <3>1 DEF OneSession
    <3>2. CASE b # c
      BY <2>1, <3>2 DEF ToldInv, OneSession
    <3> QED BY <3>1, <3>2
  <2>4. ASSUME NEW s \in Sessions, NEW b \in Clients PROVE ToldOf(s, b)'
    <3>1. CASE b = c
      <4>1. status[q] \in {"Completed", "Failed"} => result[q] # "none"
        BY DEF ResultInv, ResultOf
      <4> QED BY <2>1, <2>2, <3>1, <4>1 DEF OneSession, ToldOf, NotToldOf
    <3>2. CASE b # c
      BY <2>1, <3>2 DEF ToldInv, ToldOf, NotToldOf
    <3> QED BY <3>1, <3>2
  <2> QED BY <2>1, <2>3, <2>4 DEF ToldInv, NoticesTrue
<1>3. ASSUME NEW c \in Clients, ReplayNext(c) PROVE ToldInv'
  <2>1. /\ UNCHANGED <<result, notices, subscribers, deliveries>>
        /\ received' = [received EXCEPT ![c] = Append(@, ReplayEvent(c))]
        /\ ReplayLeft(c)
    BY <1>3 DEF ReplayNext, Replayed, Wire, sessionVars
  <2>2. \/ replay' = [replay EXCEPT ![c].next = @ + 1]
        \/ replay' = [replay EXCEPT ![c] = NoReplay]
    BY <1>3 DEF ReplayNext, Replayed
  <2>3. \E s \in Sessions : c \in subscribers[s]
    <3>1. replay[c] # NoReplay
      BY <2>1 DEF ReplayLeft, NoReplay, TerminalStatus
    <3> QED BY <3>1 DEF ToldInv, OneSession
  <2>4. ASSUME NEW b \in Clients PROVE OneSession(b)'
    <3>1. CASE b = c
      BY <2>1, <2>3, <3>1 DEF ToldInv, OneSession
    <3>2. CASE b # c
      BY <2>1, <2>2, <3>2 DEF ToldInv, OneSession
    <3> QED BY <3>1, <3>2
  <2>5. ASSUME NEW s \in Sessions, NEW b \in Clients, b \in subscribers[s], result[s] = "none"
        PROVE  NotToldOf(s, b)'
    <3>1. NotToldOf(s, b)
      BY <2>5 DEF ToldInv, ToldOf
    <3>2. CASE b = c
      <4>1. ReplayEvent(c) \in Event /\ ~Finished(ReplayEvent(c))
        BY <2>1, <3>1, <3>2 DEF NotToldOf, ReplayEvent, ReplayLeft, Progress, Terminal,
                                Finished, Event, SessionStatus, TerminalStatus
      <4>2. received[c] \in Seq(Event) /\ received'[c] = Append(received[c], ReplayEvent(c))
        BY <2>1
      <4>3. ASSUME NEW n \in DOMAIN received'[c] PROVE ~Finished(received'[c][n])
        BY <3>1, <3>2, <4>1, <4>2, AppendedEvent DEF NotToldOf
      <4>4. replay'[c].end \notin {"Completed", "Failed"}
        BY <2>2, <3>1, <3>2 DEF NotToldOf, NoReplay
      <4> QED BY <2>1, <3>1, <3>2, <4>3, <4>4 DEF NotToldOf
    <3>3. CASE b # c
      BY <2>1, <2>2, <3>1, <3>3 DEF NotToldOf
    <3> QED BY <3>2, <3>3
  <2> QED BY <2>1, <2>4, <2>5 DEF ToldInv, NoticesTrue, ToldOf
<1>4. ASSUME NEW t \in Threads, StartPublish(t) PROVE ToldInv'
  <2>1. PICK m \in notices : LookupSubscribers(m)
    BY <1>4 DEF StartPublish
  <2>2. /\ UNCHANGED <<result, subscribers, replay, received>>
        /\ notices' = notices \ {m}
        /\ deliveries' = deliveries \cup
             {[by |-> m.by, to |-> c, event |-> m.event] : c \in subscribers[m.about]}
        /\ m.about \in Sessions
    BY <1>4, <2>1 DEF StartPublish, LookupSubscribers, sessionVars
  <2>3. ASSUME NEW c \in Clients PROVE OneSession(c)'
    BY <2>2 DEF ToldInv, OneSession
  <2>4. ASSUME NEW s \in Sessions, NEW c \in Clients, c \in subscribers[s],
               result[s] = "none"
        PROVE  NotToldOf(s, c)'
    <3>1. NotToldOf(s, c)
      BY <2>4 DEF ToldInv, ToldOf
    <3>2. ASSUME NEW d \in deliveries', d.to = c PROVE ~Finished(d.event)
      <4>1. CASE d \in deliveries
        BY <3>1, <3>2, <4>1 DEF NotToldOf
      <4>2. CASE c \in subscribers[m.about] /\ d.event = m.event
        <5>1. s = m.about
          BY <2>2, <2>4, <4>2 DEF ToldInv, OneSession
        <5> QED BY <2>1, <2>4, <4>2, <5>1 DEF ToldInv, NoticesTrue
      <4> QED BY <2>2, <3>2, <4>1, <4>2
    <3> QED BY <2>2, <3>1, <3>2 DEF NotToldOf
  <2> QED BY <2>2, <2>3, <2>4 DEF ToldInv, NoticesTrue, ToldOf
<1>5. ASSUME NEW t \in Threads, SendEvent(t) PROVE ToldInv'
  <2>1. PICK d \in deliveries : Wire(d.to, d.event) /\ Delivered(d)
    BY <1>5 DEF SendEvent
  <2> DEFINE c == d.to
  <2>2. /\ UNCHANGED <<result, notices, subscribers, replay>>
        /\ deliveries' = deliveries \ {d}
        /\ received' = [received EXCEPT ![c] = Append(@, d.event)]
        /\ c \in Clients /\ d.event \in Event
    BY <2>1 DEF Wire, Delivered, sessionVars
  <2>3. \E s \in Sessions : c \in subscribers[s]
    BY <2>2 DEF ToldInv, OneSession
  <2>4. ASSUME NEW b \in Clients PROVE OneSession(b)'
    <3>1. CASE b = c
      BY <2>2, <2>3, <3>1 DEF ToldInv, OneSession
    <3>2. CASE b # c
      BY <2>2, <3>2 DEF ToldInv, OneSession
    <3> QED BY <3>1, <3>2
  <2>5. ASSUME NEW s \in Sessions, NEW b \in Clients, b \in subscribers[s], result[s] = "none"
        PROVE  NotToldOf(s, b)'
    <3>1. NotToldOf(s, b)
      BY <2>5 DEF ToldInv, ToldOf
    <3>2. CASE b = c
      <4>1. ~Finished(d.event)
        BY <3>1, <3>2 DEF NotToldOf
      <4>2. received[c] \in Seq(Event) /\ received'[c] = Append(received[c], d.event)
        BY <2>2
      <4>3. ASSUME NEW n \in DOMAIN received'[c] PROVE ~Finished(received'[c][n])
        BY <2>2, <3>1, <3>2, <4>1, <4>2, AppendedEvent DEF NotToldOf
      <4> QED BY <2>2, <3>1, <3>2, <4>3 DEF NotToldOf
    <3>3. CASE b # c
      BY <2>2, <3>1, <3>3 DEF NotToldOf
    <3> QED BY <3>2, <3>3
  <2> QED BY <2>2, <2>4, <2>5 DEF ToldInv, NoticesTrue, ToldOf
<1> QED BY <1>1, <1>2, <1>3, <1>4, <1>5, FeedSteps

(* A subscriber told that its session completed or failed can fetch the    *)
(* result at once, whichever thread told it, by publication or by replay.  *)
THEOREM ToldFinishedMeansFetchable == Spec => []ToldFinishedCanFetch
<1>1. TypeInv /\ ToldInv => ToldFinishedCanFetch
  <2> SUFFICES ASSUME TypeInv, ToldInv, NEW s \in Sessions, NEW c \in subscribers[s],
                      NEW st \in {"Completed", "Failed"}, Heard(c, Terminal(st))
               PROVE  result[s] # "none"
    BY DEF ToldFinishedCanFetch
  <2>1. PICK n \in DOMAIN received[c] : received[c][n] = Terminal(st)
    BY DEF Heard
  <2>2. Finished(received[c][n])
    BY <2>1 DEF Finished, Terminal
  <2>3. c \in Clients
    BY DEF TypeInv, TypeOK, ManagerTypeOK
  <2> QED BY <2>2, <2>3 DEF ToldInv, ToldOf, NotToldOf
<1> QED BY <1>1, InitTypeInv, TypeInvStep, ResultInvInit, ResultInvStep, ToldInvInit,
           ToldInvStep, PTL DEF Spec
=============================================================================

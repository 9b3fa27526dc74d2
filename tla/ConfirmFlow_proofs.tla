------------------------- MODULE ConfirmFlow_proofs -------------------------
(***************************************************************************)
(* Theorems about the way from a suggestion to a relay session, for every  *)
(* number of suggestions, sessions and clicks, whatever the user does and  *)
(* in whatever order.                                                      *)
(***************************************************************************)
EXTENDS ConfirmFlow, TLAPS

-----------------------------------------------------------------------------
(* The threads of the program. *)

LEMMA ThreadFacts ==
    /\ Main \in Callers
    /\ \A c \in Clicks : Click(c) \in Callers /\ Click(c) # Main
    /\ \A c, d : Click(c) = Click(d) => c = d
    /\ \A th \in Callers : th = Main \/ \E c \in Clicks : th = Click(c)
    /\ Callers \subseteq Threads
    /\ \A s \in Sessions : Tracker(s) \in Threads
    /\ \A s : Tracker(s) \notin Callers
    /\ \A r, s : Tracker(r) = Tracker(s) => r = s
    /\ \A th \in Threads : th \in Callers \/ \E s \in Sessions : th = Tracker(s)
BY DEF Main, Click, Tracker, Callers, Threads

LEMMA StatusFacts ==
    /\ ActiveStates \subseteq States /\ EndStates \subseteq States /\ ErrorStates \subseteq States
    /\ EndStates \subseteq EngineStates
    /\ "running" \in EngineStates /\ "absent" \in EngineStates
BY DEF ActiveStates, EndStates, ErrorStates, States, EngineStates

LEMMA EmptyFacts ==
    /\ NoPending \in [trace : Traces \cup {NoTrace}, old : BOOLEAN]
    /\ NoTask \in [trace : Traces \cup {NoTrace}, state : States \cup {"none"}]
    /\ NoExecution \in Executions
    /\ NoUrl \in [trace : Traces \cup {NoTrace}, button : Buttons \cup {"none"}]
    /\ NoTrace \in Traces \cup {NoTrace} /\ NoSession \in Sessions \cup {NoSession}
BY DEF NoPending, NoTask, NoExecution, NoUrl, Executions

-----------------------------------------------------------------------------
(* Every step keeps the types. *)

LEMMA InitType == Init => TypeOK
<1> SUFFICES ASSUME Init PROVE TypeOK
  OBVIOUS
<1>1. NoExecution \in Executions
  BY DEF NoExecution, Executions
<1>2. NoEngineSession \in [trace : Traces \cup {NoTrace}, state : EngineStates]
  BY DEF NoEngineSession, EngineStates
<1>3. NoUrl \in [trace : Traces \cup {NoTrace}, button : Buttons \cup {"none"}]
  BY DEF NoUrl
<1>4. pending \in [trace : Traces \cup {NoTrace}, old : BOOLEAN]
  BY DEF Init, DeskInit, NoPending
<1>5. suggested \in Nat /\ suggested <= MaxSuggestions
  BY BoundsAssumption DEF Init
<1> QED
  BY <1>1, <1>2, <1>3, <1>4, <1>5
     DEF TypeOK, Init, DeskInit, BridgeInit, NoTask, Places, CallerPlaces, LoopPlaces

LEMMA PublishType ==
    ASSUME TypeOK, NEW th \in Threads, NEW info \in Executions, info.status # "none",
           Publish(th, info)
    PROVE  /\ task' \in [trace : Traces \cup {NoTrace}, state : States \cup {"none"}]
           /\ snapshot' \in [Threads -> Executions]
           /\ half' \subseteq Threads
BY DEF TypeOK, Publish, StoreTaskState, NoTask, Executions

LEMMA PublishStatusType ==
    ASSUME TypeOK, NEW th \in Threads, NEW st \in States, PublishStatus(th, st)
    PROVE  /\ task' \in [trace : Traces \cup {NoTrace}, state : States \cup {"none"}]
           /\ snapshot' \in [Threads -> Executions]
           /\ half' \subseteq Threads
BY DEF TypeOK, PublishStatus, Publish, StoreTaskState, NoTask, Executions

LEMMA LoopType == ASSUME TypeOK, ObservationLoop \/ Age PROVE TypeOK'
<1>1. CASE CheckWaiting \/ KeepWaiting \/ ExpirePending \/ CheckRunning \/ NothingToSuggest
  BY <1>1 DEF TypeOK, CheckWaiting, KeepWaiting, ExpirePending, CheckRunning,
     NothingToSuggest, LoopGoes, LoopOnly, bridgeVars, LoopPlaces
<1>2. CASE ClearExpired \/ ClearTask \/ ClearExecution
  BY <1>2, EmptyFacts DEF TypeOK, ClearExpired, ClearTask, ClearExecution, LoopGoes,
     LoopOnly, bridgeVars, LoopPlaces
<1>3. CASE Suggest \/ StoreToken \/ StorePending
  <2>1. suggested \in Traces \cup {NoTrace}
    BY BoundsAssumption DEF TypeOK, Traces, NoTrace
  <2>2. suggested' \in Nat /\ suggested' <= MaxSuggestions
    BY <1>3, BoundsAssumption DEF TypeOK, Suggest, StoreToken, StorePending
  <2> QED
    <3>1. loopPc' \in LoopPlaces
      BY <1>3 DEF Suggest, StoreToken, StorePending, LoopGoes, LoopPlaces
    <3>2. pending' \in [trace : Traces \cup {NoTrace}, old : BOOLEAN]
      <4>1. \A n : n \in Traces \cup {NoTrace} =>
               [trace |-> n, old |-> FALSE] \in [trace : Traces \cup {NoTrace}, old : BOOLEAN]
        OBVIOUS
      <4> QED BY <1>3, <2>1, <4>1 DEF TypeOK, Suggest, StoreToken, StorePending
    <3>3. token' \in Traces \cup {NoTrace}
      BY <1>3, <2>1 DEF TypeOK, Suggest, StoreToken, StorePending
    <3> QED
      BY <1>3, <2>2, <3>1, <3>2, <3>3
         DEF TypeOK, Suggest, StoreToken, StorePending, LoopOnly, bridgeVars
<1>4. CASE Age
  <2>1. pending' \in [trace : Traces \cup {NoTrace}, old : BOOLEAN]
    BY <1>4 DEF TypeOK, Age
  <2> QED
    BY <1>4, <2>1 DEF TypeOK, Age, flowUnchanged, bridgeVars
<1> QED BY <1>1, <1>2, <1>3, <1>4 DEF ObservationLoop

LEMMA UserType == ASSUME TypeOK, UserCommand PROVE TypeOK'
<1> USE ThreadFacts DEF TypeOK, Goes, flowUnchanged, Places, CallerPlaces, MainPlaces
<1>1. CASE SetRunning
  BY <1>1 DEF SetRunning, bridgeVars
<1>2. CASE ConfirmPending \/ DeclinePending
  <2>1. copy' \in [Callers -> Traces \cup {NoTrace}]
    BY <1>2 DEF ConfirmPending, DeclinePending
  <2>2. pc' \in [Threads -> Places]
    BY <1>2 DEF ConfirmPending, DeclinePending
  <2> QED
    BY <1>2, <2>1, <2>2 DEF ConfirmPending, DeclinePending, deskVars
<1>8. CASE RunRelayDemo
  BY <1>8 DEF RunRelayDemo, deskVars
<1>3. CASE ClearPending \/ ClearDeclined
  BY <1>3, EmptyFacts DEF ClearPending, ClearDeclined
<1>4. CASE ClearToken \/ RecordDeclined
  <2>1. pc' \in [Threads -> Places]
    BY <1>4 DEF ClearToken, RecordDeclined
  <2>2. answers' \in [Traces -> SUBSET {"confirmed", "cancelled"}]
    BY <1>4 DEF ClearToken, RecordDeclined, RecordAnswer
  <2> QED
    BY <1>4, <2>1, <2>2 DEF ClearToken, RecordDeclined
<1>5. CASE InterruptCurrentTask
  <2>1. pc' \in [Threads -> Places]
    BY <1>5 DEF InterruptCurrentTask
  <2>2. target' \in Sessions \cup {NoSession}
    BY <1>5 DEF InterruptCurrentTask, Executions
  <2> QED
    BY <1>5, <2>1, <2>2 DEF InterruptCurrentTask, deskVars
<1>6. CASE MarkTaskInterrupting
  BY <1>6 DEF MarkTaskInterrupting, StoreTaskState, NoTask, States, ActiveStates
<1>7. CASE MarkRelayInterrupting
  <2>1. execution' \in Executions
    BY <1>7, StatusFacts DEF MarkRelayInterrupting, StoreRelayStatus, ActiveStates, Executions
  <2> QED
    BY <1>7, <2>1 DEF MarkRelayInterrupting
<1> QED BY <1>1, <1>2, <1>3, <1>4, <1>5, <1>6, <1>7, <1>8 DEF UserCommand

LEMMA ClickType == ASSUME TypeOK, NEW c \in Clicks, ProtocolAction(c) PROVE TypeOK'
<1> USE ThreadFacts DEF TypeOK, Goes, flowUnchanged, Places, CallerPlaces, ClickPlaces
<1>1. CASE ClickToast(c)
  BY <1>1, BoundsAssumption DEF ClickToast, deskVars, Traces, Buttons
<1>2. CASE ConsumeToken(c) \/ ExpireToken(c)
  BY <1>2 DEF ConsumeToken, ExpireToken, Forget, NoUrl
<1>3. CASE RejectToken(c) \/ RejectConfirm(c)
  <2>1. url' \in [Clicks -> [trace : Traces \cup {NoTrace}, button : Buttons \cup {"none"}]]
    BY <1>3, EmptyFacts DEF RejectToken, RejectConfirm, Forget
  <2>2. pc' \in [Threads -> Places]
    BY <1>3 DEF RejectToken, RejectConfirm
  <2> QED
    BY <1>3, <2>1, <2>2 DEF RejectToken, RejectConfirm, deskVars
<1>4. CASE ConfirmByToken(c) \/ CancelByToken(c)
  <2>1. copy' \in [Callers -> Traces \cup {NoTrace}]
    BY <1>4 DEF ConfirmByToken, CancelByToken
  <2>2. answers' \in [Traces -> SUBSET {"confirmed", "cancelled"}]
    BY <1>4 DEF ConfirmByToken, CancelByToken, RecordAnswer, deskVars
  <2>3. pc' \in [Threads -> Places]
    BY <1>4 DEF ConfirmByToken, CancelByToken
  <2> QED
    BY <1>4, <2>1, <2>2, <2>3 DEF ConfirmByToken, CancelByToken, deskVars
<1>5. CASE ClearConfirmed(c)
  BY <1>5 DEF ClearConfirmed, Forget, NoUrl, NoPending
<1>6. CASE ClearCancelled(c)
  BY <1>6 DEF ClearCancelled, Forget, NoUrl, NoPending, RecordAnswer
<1> QED BY <1>1, <1>2, <1>3, <1>4, <1>5, <1>6 DEF ProtocolAction

LEMMA DispatchType == ASSUME TypeOK, NEW th \in Callers, Dispatch(th) PROVE TypeOK'
<1> th \in Threads
  BY ThreadFacts
<1> USE StatusFacts, EmptyFacts DEF Goes, flowUnchanged
<1>0. \A p \in CallerPlaces : [pc EXCEPT ![th] = p] \in [Threads -> Places]
  BY DEF TypeOK, Places
<1> DEFINE CalmType == /\ task' \in [trace : Traces \cup {NoTrace}, state : States \cup {"none"}]
                       /\ snapshot' \in [Threads -> Executions]
                       /\ half' \subseteq Threads
<1>1. CASE StoreConfirmedTask(th)
  <2>1. task' \in [trace : Traces \cup {NoTrace}, state : States \cup {"none"}]
    BY <1>1 DEF TypeOK, StoreConfirmedTask, StoreTask, States, ActiveStates
  <2> QED
    BY <1>0, <1>1, <2>1 DEF TypeOK, StoreConfirmedTask, CallerPlaces
<1>2. CASE ClearOldExecution(th)
  BY <1>0, <1>2 DEF TypeOK, ClearOldExecution, CallerPlaces
<1>3. CASE BeginSession(th) /\ flowUnchanged
  <2>1. [trace |-> copy[th], status |-> "connecting", session |-> NoSession] \in Executions
    BY DEF TypeOK, Executions, States, ActiveStates
  <2>2. CalmType
    BY <1>3, <2>1, PublishType DEF BeginSession
  <2> QED
    BY <1>0, <1>3, <2>2 DEF TypeOK, BeginSession, CallerPlaces
<1>4. CASE (ConnectFails(th) \/ Connected(th)) /\ flowUnchanged
  <2>1. CalmType
    BY <1>4, PublishStatusType DEF ConnectFails, Connected, ErrorStates, ActiveStates
  <2> QED
    BY <1>0, <1>4, <2>1 DEF TypeOK, ConnectFails, Connected, CallerPlaces
<1>5. \A s \in Sessions : Accepts(s, th) =>
         engine' \in [Sessions -> [trace : Traces \cup {NoTrace}, state : EngineStates]]
  BY DEF TypeOK, Accepts
<1>6. CASE Dispatched(th) /\ flowUnchanged
  <2>1. PICK s \in Sessions :
           /\ Accepts(s, th)
           /\ Publish(th, [trace |-> copy[th], status |-> "running", session |-> s])
    BY <1>6 DEF Dispatched
  <2>2. [trace |-> copy[th], status |-> "running", session |-> s] \in Executions
    BY DEF TypeOK, Executions, States, ActiveStates
  <2>3. CalmType
    BY <2>1, <2>2, PublishType
  <2> QED
    BY <1>0, <1>5, <1>6, <2>1, <2>3 DEF TypeOK, Dispatched, CallerPlaces
<1>7. CASE DispatchFails(th) /\ flowUnchanged
  <2>1. CalmType
    BY <1>7, PublishStatusType DEF DispatchFails, ErrorStates
  <2>2. engine' \in [Sessions -> [trace : Traces \cup {NoTrace}, state : EngineStates]]
    BY <1>5, <1>7 DEF TypeOK, DispatchFails
  <2> QED
    BY <1>0, <1>7, <2>1, <2>2 DEF TypeOK, DispatchFails, CallerPlaces
<1>8. CASE SpawnTracker(th) /\ flowUnchanged
  <2>1. pc' \in [Threads -> Places] /\ snapshot' \in [Threads -> Executions]
    BY <1>8 DEF TypeOK, SpawnTracker, Places, CallerPlaces, TrackerPlaces
  <2>2. copy' \in [Callers -> Traces \cup {NoTrace}]
    BY <1>8 DEF TypeOK, SpawnTracker, Finishes
  <2> QED
    BY <1>8, <2>1, <2>2 DEF TypeOK, SpawnTracker, Finishes
<1>9. CASE DispatchFailed(th) /\ flowUnchanged
  <2>1. task' \in [trace : Traces \cup {NoTrace}, state : States \cup {"none"}]
    <3>1. "dispatch_error" \in States
      BY DEF ErrorStates
    <3> QED
      BY <1>9, <3>1 DEF TypeOK, DispatchFailed, StoreTaskState
  <2>2. copy' \in [Callers -> Traces \cup {NoTrace}] /\ snapshot' \in [Threads -> Executions]
    BY <1>9 DEF TypeOK, DispatchFailed, Finishes
  <2> QED
    BY <1>0, <1>9, <2>1, <2>2 DEF TypeOK, DispatchFailed, Finishes, CallerPlaces
<1> QED
  BY <1>1, <1>2, <1>3, <1>4, <1>6, <1>7, <1>8, <1>9 DEF Dispatch, StartRelaySession

LEMMA TrackType ==
    ASSUME TypeOK, NEW s \in Sessions, TrackRelaySession(s), flowUnchanged
    PROVE  TypeOK'
<1> DEFINE th == Tracker(s)
<1> th \in Threads
  BY ThreadFacts
<1> HIDE DEF th
<1> USE StatusFacts DEF Goes, flowUnchanged
<1>0. \A p \in TrackerPlaces : [pc EXCEPT ![th] = p] \in [Threads -> Places]
  BY DEF TypeOK, Places
<1> DEFINE CalmType == /\ task' \in [trace : Traces \cup {NoTrace}, state : States \cup {"none"}]
                       /\ snapshot' \in [Threads -> Executions]
                       /\ half' \subseteq Threads
<1>1. CASE Subscribed(s)
  BY <1>0, <1>1 DEF TypeOK, Subscribed, deskVars, TrackerPlaces, th
<1>2. CASE SubscriptionFails(s)
  <2>1. CalmType
    BY <1>2, PublishStatusType DEF SubscriptionFails, ErrorStates, th
  <2> QED
    BY <1>0, <1>2, <2>1 DEF TypeOK, SubscriptionFails, TrackerPlaces, th
<1>3. CASE ReceiveProgress(s) \/ FetchResult(s)
  <2>1. CalmType
    BY <1>3 DEF ReceiveProgress, FetchResult, TypeOK, Publish, StoreTaskState, NoTask,
       Executions, th
  <2> QED
    BY <1>0, <1>3, <2>1 DEF TypeOK, ReceiveProgress, FetchResult, TrackerPlaces, th
<1>4. CASE ReceiveTerminal(s)
  <2>1. CalmType
    BY <1>4, PublishStatusType DEF ReceiveTerminal, th
  <2> QED
    BY <1>0, <1>4, <2>1 DEF TypeOK, ReceiveTerminal, TrackerPlaces, th
<1> QED
  BY <1>1, <1>2, <1>3, <1>4 DEF TrackRelaySession

LEMMA EngineStateType ==
    ASSUME TypeOK, NEW s, NEW st \in EngineStates, engine' = [engine EXCEPT ![s].state = st]
    PROVE  engine' \in [Sessions -> [trace : Traces \cup {NoTrace}, state : EngineStates]]
<1> DEFINE R == [trace : Traces \cup {NoTrace}, state : EngineStates]
<1>1. engine \in [Sessions -> R]
  BY DEF TypeOK
<1>2. \A e \in R : [e EXCEPT !.state = st] \in R
  OBVIOUS
<1> HIDE DEF R
<1>3. engine' \in [Sessions -> R]
  BY <1>1, <1>2
<1> QED
  BY <1>3 DEF R

LEMMA BridgeType == ASSUME TypeOK, Bridge, flowUnchanged PROVE TypeOK'
<1> USE ThreadFacts, StatusFacts, EmptyFacts DEF flowUnchanged
<1>1. ASSUME NEW th \in Threads, FinishPublishing(th) PROVE TypeOK'
  BY <1>1 DEF TypeOK, FinishPublishing, FinishPublish, bridgeVars
<1>2. ASSUME NEW s \in Sessions, EngineEnds(s) PROVE TypeOK'
  <2>1. engine' \in [Sessions -> [trace : Traces \cup {NoTrace}, state : EngineStates]]
    <3>1. PICK st \in {"completed", "failed"} : engine' = [engine EXCEPT ![s].state = st]
      BY <1>2 DEF EngineEnds
    <3>2. st \in EngineStates
      BY <3>1 DEF EndStates
    <3> QED
      BY <3>1, <3>2, EngineStateType
  <2> QED
    BY <1>2, <2>1 DEF TypeOK, EngineEnds, deskVars
<1>3. ASSUME InterruptSession PROVE TypeOK'
  <2>0. \A p \in CallerPlaces \cup MainPlaces : [pc EXCEPT ![Main] = p] \in [Threads -> Places]
    BY DEF TypeOK, Places
  <2>1. \A s : Interrupted(s) =>
           engine' \in [Sessions -> [trace : Traces \cup {NoTrace}, state : EngineStates]]
    BY EngineStateType DEF Interrupted, EndStates
  <2>2. \A st \in States : StoreRelayStatus(st) => execution' \in Executions
    <3>1. execution \in Executions /\ NoExecution \in Executions
      BY EmptyFacts DEF TypeOK
    <3>2. \A e \in Executions, st \in States : [e EXCEPT !.status = st] \in Executions
      BY DEF Executions
    <3> QED BY <3>1, <3>2 DEF StoreRelayStatus
  <2>3. \A st \in States : StoreTaskState(st) =>
           task' \in [trace : Traces \cup {NoTrace}, state : States \cup {"none"}]
    BY DEF TypeOK, StoreTaskState
  <2>4. CASE InterruptRefused \/ InterruptAccepted
    <3>1. pc' \in [Threads -> Places]
      BY <2>0, <2>4 DEF InterruptRefused, InterruptAccepted, Goes, CallerPlaces, MainPlaces
    <3>2. engine' \in [Sessions -> [trace : Traces \cup {NoTrace}, state : EngineStates]]
      BY <2>1, <2>4 DEF TypeOK, InterruptRefused, InterruptAccepted
    <3>3. target' \in Sessions \cup {NoSession}
      BY <2>4 DEF TypeOK, InterruptRefused, InterruptAccepted
    <3> QED
      BY <2>4, <3>1, <3>2, <3>3 DEF TypeOK, InterruptRefused, InterruptAccepted, deskVars
  <2>5. CASE InterruptFails
    BY <2>0, <2>1, <2>2, <2>5 DEF TypeOK, InterruptFails, Goes, MainPlaces, ErrorStates
  <2>6. CASE InterruptOk
    BY <2>0, <2>2, <2>6 DEF TypeOK, InterruptOk, Goes, CallerPlaces, EndStates
  <2>7. CASE InterruptError
    BY <2>0, <2>3, <2>7 DEF TypeOK, InterruptError, Goes, CallerPlaces, ErrorStates
  <2> QED
    BY <1>3, <2>4, <2>5, <2>6, <2>7 DEF InterruptSession
<1> QED
  BY <1>1, <1>2, <1>3, TrackType DEF Bridge

(* Every variable keeps its type: task and session states are among those  *)
(* that has_active_task and the windows distinguish, and a thread is only  *)
(* at a place of the function it runs.                                     *)
THEOREM TypeCorrect == Spec => []TypeOK
<1>1. TypeOK /\ [Next]_vars => TypeOK'
  <2> SUFFICES ASSUME TypeOK, [Next]_vars PROVE TypeOK'
    OBVIOUS
  <2>1. CASE Next
    BY <2>1, LoopType, UserType, ClickType, DispatchType, BridgeType DEF Next
  <2>2. CASE UNCHANGED vars
    BY <2>2 DEF TypeOK, vars, deskVars, bridgeVars
  <2> QED BY <2>1, <2>2
<1> QED BY InitType, <1>1, PTL DEF Spec

-----------------------------------------------------------------------------
(* No agent without a confirmation.                                        *)
(*                                                                         *)
(* The confirmation of a suggestion is recorded before its copy reaches    *)
(* the places from which a session is started, and the demonstration, the  *)
(* only other way there, has no suggestion.                                *)

DispatchPlaces == {"store_task", "clear_execution", "begin_session", "connect", "dispatch",
                   "spawn", "dispatch_failed"}

NoAnswerPlaces == {"idle", "interrupt_task", "interrupt_execution", "interrupt_call",
                   "interrupt_ok", "interrupt_error"}

IsConfirmed(t) == t # NoTrace => "confirmed" \in answers[t]

DemoHasNoSuggestion == pc[Main] \in NoAnswerPlaces => copy[Main] = NoTrace
DispatchesConfirmed ==
    \A th \in Callers : pc[th] \in DispatchPlaces => IsConfirmed(copy[th])
ClicksConfirmed ==
    \A c \in Clicks : pc[Click(c)] = "clear_pending" /\ url[c].button = "confirm"
                          => IsConfirmed(copy[Click(c)])

ConfirmInv ==
    /\ TypeOK
    /\ DemoHasNoSuggestion
    /\ DispatchesConfirmed
    /\ ClicksConfirmed
    /\ NothingRunsUnconfirmed

AnswersKept == \A t \in Traces : answers[t] \subseteq answers'[t]
TracesKept == \A s \in Sessions : engine'[s].trace = engine[s].trace

\* A step of something else than a caller: the loop, the engine, a tracker.
LEMMA OthersKeepConfirmed ==
    ASSUME ConfirmInv, TypeOK', copy' = copy, url' = url, answers' = answers, TracesKept,
           \A th \in Callers : pc'[th] = pc[th]
    PROVE  ConfirmInv'
BY ThreadFacts DEF ConfirmInv, DemoHasNoSuggestion, DispatchesConfirmed, ClicksConfirmed,
   NothingRunsUnconfirmed, TracesKept, IsConfirmed

\* A step of one caller that starts no session: it is enough to look at the
\* place it goes to.
LEMMA CallerKeepsConfirmed ==
    ASSUME ConfirmInv, TypeOK', NEW th \in Callers, AnswersKept, TracesKept,
           \A o \in Callers : o # th => pc'[o] = pc[o] /\ copy'[o] = copy[o],
           \A c \in Clicks : Click(c) # th => url'[c] = url[c],
           pc'[th] \in DispatchPlaces => IsConfirmed(copy[th])',
           \A c \in Clicks : th = Click(c) /\ pc'[th] = "clear_pending" /\ url'[c].button = "confirm"
                                 => IsConfirmed(copy[th])',
           th = Main /\ pc'[th] \in NoAnswerPlaces => copy'[th] = NoTrace
    PROVE  ConfirmInv'
<1>1. \A t \in Traces \cup {NoTrace} : IsConfirmed(t) => (t # NoTrace => "confirmed" \in answers'[t])
  BY DEF AnswersKept, IsConfirmed
<1>2. DemoHasNoSuggestion'
  BY ThreadFacts DEF ConfirmInv, DemoHasNoSuggestion
<1>3. DispatchesConfirmed'
  <2> SUFFICES ASSUME NEW o \in Callers, pc'[o] \in DispatchPlaces
               PROVE  IsConfirmed(copy[o])'
    BY DEF DispatchesConfirmed
  <2>1. CASE o # th
    BY <1>1, <2>1 DEF ConfirmInv, TypeOK, DispatchesConfirmed, IsConfirmed
  <2> QED BY <2>1
<1>4. ClicksConfirmed'
  <2> SUFFICES ASSUME NEW c \in Clicks, pc'[Click(c)] = "clear_pending",
                      url'[c].button = "confirm"
               PROVE  IsConfirmed(copy[Click(c)])'
    BY DEF ClicksConfirmed
  <2>1. Click(c) \in Callers
    BY ThreadFacts
  <2>2. CASE Click(c) # th
    BY <1>1, <2>1, <2>2 DEF ConfirmInv, TypeOK, ClicksConfirmed, IsConfirmed
  <2> QED BY <2>2
<1>5. NothingRunsUnconfirmed'
  <2> SUFFICES ASSUME NEW s \in Sessions, engine'[s].trace # NoTrace
               PROVE  "confirmed" \in answers'[engine'[s].trace]
    BY DEF NothingRunsUnconfirmed
  <2>1. engine[s].trace \in Traces
    BY DEF ConfirmInv, TypeOK, TracesKept
  <2> QED
    BY <2>1 DEF ConfirmInv, NothingRunsUnconfirmed, TracesKept, AnswersKept
<1> QED BY <1>2, <1>3, <1>4, <1>5 DEF ConfirmInv

LEMMA InitConfirm == Init => ConfirmInv
<1> SUFFICES ASSUME Init PROVE ConfirmInv
  OBVIOUS
<1>1. \A th \in Callers : pc[th] = "idle" /\ copy[th] = NoTrace
  BY ThreadFacts DEF Init, BridgeInit
<1>2. \A s \in Sessions : engine[s].trace = NoTrace
  BY DEF Init, BridgeInit, NoEngineSession
<1> QED
  BY InitType, ThreadFacts, <1>1, <1>2
     DEF ConfirmInv, DemoHasNoSuggestion, DispatchesConfirmed, ClicksConfirmed,
         NothingRunsUnconfirmed, DispatchPlaces

LEMMA RecordFacts ==
    ASSUME TypeOK, NEW t, NEW answer, RecordAnswer(t, answer)
    PROVE  AnswersKept /\ (t \in Traces => answer \in answers'[t])
BY DEF TypeOK, RecordAnswer, AnswersKept

LEMMA UserConfirm == ASSUME ConfirmInv, TypeOK', UserCommand PROVE ConfirmInv'
<1> USE ThreadFacts DEF Goes, flowUnchanged
<1>0. TypeOK /\ pc \in [Threads -> Places] /\ copy \in [Callers -> Traces \cup {NoTrace}]
  BY DEF ConfirmInv, TypeOK
<1>1. CASE SetRunning
  BY <1>1, OthersKeepConfirmed DEF SetRunning, bridgeVars, TracesKept
<1>2. CASE ClearToken
  <2>1. AnswersKept /\ (copy[Main] \in Traces => "confirmed" \in answers'[copy[Main]])
    BY <1>0, <1>2, RecordFacts DEF ClearToken
  <2>2. IsConfirmed(copy[Main])'
    BY <1>0, <1>2, <2>1 DEF ClearToken, IsConfirmed
  <2> QED
    BY <1>0, <1>2, <2>1, <2>2, CallerKeepsConfirmed DEF ClearToken, TracesKept, NoAnswerPlaces
<1>3. CASE RecordDeclined
  <2>1. AnswersKept
    BY <1>0, <1>3, RecordFacts DEF RecordDeclined, AnswersKept
  <2> QED
    BY <1>0, <1>3, <2>1, CallerKeepsConfirmed DEF RecordDeclined, TracesKept, DispatchPlaces
<1>4. CASE RunRelayDemo
  <2>1. copy[Main] = NoTrace
    BY <1>4 DEF ConfirmInv, DemoHasNoSuggestion, RunRelayDemo, NoAnswerPlaces
  <2> QED
    BY <1>0, <1>4, <2>1, CallerKeepsConfirmed
       DEF RunRelayDemo, deskVars, AnswersKept, TracesKept, IsConfirmed
<1>5. CASE ConfirmPending \/ DeclinePending
  BY <1>0, <1>5, CallerKeepsConfirmed
     DEF ConfirmPending, DeclinePending, deskVars, AnswersKept, TracesKept, DispatchPlaces,
         NoAnswerPlaces
<1>6. CASE ClearPending \/ ClearDeclined
  BY <1>0, <1>6, CallerKeepsConfirmed
     DEF ClearPending, ClearDeclined, AnswersKept, TracesKept, DispatchPlaces, NoAnswerPlaces
<1>7. CASE InterruptCurrentTask \/ MarkTaskInterrupting \/ MarkRelayInterrupting
  <2>1. copy[Main] = NoTrace
    BY <1>7 DEF ConfirmInv, DemoHasNoSuggestion, InterruptCurrentTask, MarkTaskInterrupting,
       MarkRelayInterrupting, NoAnswerPlaces
  <2> QED
    BY <1>0, <1>7, <2>1, CallerKeepsConfirmed
       DEF InterruptCurrentTask, MarkTaskInterrupting, MarkRelayInterrupting, deskVars,
           AnswersKept, TracesKept, DispatchPlaces
<1> QED BY <1>1, <1>2, <1>3, <1>4, <1>5, <1>6, <1>7 DEF UserCommand

LEMMA ClickConfirm ==
    ASSUME ConfirmInv, TypeOK', NEW c \in Clicks, ProtocolAction(c) PROVE ConfirmInv'
<1> DEFINE th == Click(c)
<1> USE ThreadFacts DEF Goes, flowUnchanged
<1>0. TypeOK /\ pc \in [Threads -> Places] /\ copy \in [Callers -> Traces \cup {NoTrace}]
      /\ url \in [Clicks -> [trace : Traces \cup {NoTrace}, button : Buttons \cup {"none"}]]
  BY DEF ConfirmInv, TypeOK
<1>1. CASE ClickToast(c)
  BY <1>0, <1>1, CallerKeepsConfirmed
     DEF ClickToast, deskVars, AnswersKept, TracesKept, DispatchPlaces
<1>2. CASE ConsumeToken(c) \/ ExpireToken(c)
  BY <1>0, <1>2, CallerKeepsConfirmed
     DEF ConsumeToken, ExpireToken, Forget, AnswersKept, TracesKept, DispatchPlaces
<1>3. CASE RejectToken(c) \/ RejectConfirm(c)
  BY <1>0, <1>3, CallerKeepsConfirmed
     DEF RejectToken, RejectConfirm, Forget, deskVars, AnswersKept, TracesKept, DispatchPlaces
<1>4. CASE ConfirmByToken(c)
  <2>1. AnswersKept /\ (pending.trace \in Traces => "confirmed" \in answers'[pending.trace])
    BY <1>0, <1>4, RecordFacts DEF ConfirmByToken
  <2>2. pending.trace \in Traces \cup {NoTrace} /\ copy'[th] = pending.trace
    BY <1>0, <1>4 DEF ConfirmByToken, TypeOK
  <2>3. IsConfirmed(copy[th])'
    BY <2>1, <2>2 DEF IsConfirmed
  <2> QED
    BY <1>0, <1>4, <2>1, <2>3, CallerKeepsConfirmed DEF ConfirmByToken, TracesKept
<1>5. CASE CancelByToken(c)
  BY <1>0, <1>5, CallerKeepsConfirmed
     DEF CancelByToken, deskVars, AnswersKept, TracesKept, DispatchPlaces
<1>6. CASE ClearConfirmed(c)
  <2>1. IsConfirmed(copy[th])'
    BY <1>6 DEF ClearConfirmed, ConfirmInv, ClicksConfirmed, IsConfirmed
  <2> QED
    BY <1>0, <1>6, <2>1, CallerKeepsConfirmed
       DEF ClearConfirmed, Forget, AnswersKept, TracesKept
<1>7. CASE ClearCancelled(c)
  <2>1. AnswersKept
    BY <1>0, <1>7, RecordFacts DEF ClearCancelled, AnswersKept
  <2> QED
    BY <1>0, <1>7, <2>1, CallerKeepsConfirmed
       DEF ClearCancelled, Forget, TracesKept, DispatchPlaces
<1> QED BY <1>1, <1>2, <1>3, <1>4, <1>5, <1>6, <1>7 DEF ProtocolAction

LEMMA DispatchConfirm ==
    ASSUME ConfirmInv, TypeOK', NEW th \in Callers, Dispatch(th) PROVE ConfirmInv'
<1> USE ThreadFacts DEF Goes, flowUnchanged
<1>0. TypeOK /\ pc \in [Threads -> Places] /\ copy \in [Callers -> Traces \cup {NoTrace}]
  BY DEF ConfirmInv, TypeOK
<1>1. pc[th] \in DispatchPlaces => IsConfirmed(copy[th])
  BY DEF ConfirmInv, DispatchesConfirmed
<1>2. CASE StoreConfirmedTask(th) \/ ClearOldExecution(th)
  BY <1>0, <1>1, <1>2, CallerKeepsConfirmed
     DEF StoreConfirmedTask, ClearOldExecution, AnswersKept, TracesKept, DispatchPlaces,
         NoAnswerPlaces, IsConfirmed
<1>3. CASE (BeginSession(th) \/ ConnectFails(th) \/ Connected(th)) /\ flowUnchanged
  BY <1>0, <1>1, <1>3, CallerKeepsConfirmed
     DEF BeginSession, ConnectFails, Connected, AnswersKept, TracesKept, DispatchPlaces,
         NoAnswerPlaces, IsConfirmed
<1>4. CASE (Dispatched(th) \/ DispatchFails(th)) /\ flowUnchanged
  <2>1. /\ pc[th] = "dispatch" /\ copy' = copy /\ url' = url /\ answers' = answers
        /\ \E p \in {"spawn", "dispatch_failed"} : pc' = [pc EXCEPT ![th] = p]
    BY <1>4 DEF Dispatched, DispatchFails
  <2>2. IsConfirmed(copy[th])
    BY <1>1, <2>1 DEF DispatchPlaces
  <2>3. engine' = engine \/ \E s \in Sessions : Accepts(s, th)
    BY <1>4 DEF Dispatched, DispatchFails
  <2>4. NothingRunsUnconfirmed'
    <3> SUFFICES ASSUME NEW s \in Sessions, engine'[s].trace # NoTrace
                 PROVE  "confirmed" \in answers[engine'[s].trace]
      BY <2>1 DEF NothingRunsUnconfirmed
    <3>1. engine \in [Sessions -> [trace : Traces \cup {NoTrace}, state : EngineStates]]
      BY <1>0 DEF TypeOK
    <3>2. \A r \in Sessions : Accepts(r, th) => engine'[s].trace \in {engine[s].trace, copy[th]}
      BY <3>1 DEF Accepts
    <3>3. engine'[s].trace \in {engine[s].trace, copy[th]}
      BY <2>3, <3>2
    <3> QED
      BY <2>2, <3>3 DEF ConfirmInv, NothingRunsUnconfirmed, IsConfirmed
  <2>5. DispatchesConfirmed' /\ ClicksConfirmed' /\ DemoHasNoSuggestion'
    BY <1>0, <2>1, <2>2 DEF ConfirmInv, DispatchesConfirmed, ClicksConfirmed,
       DemoHasNoSuggestion, IsConfirmed, NoAnswerPlaces
  <2> QED
    BY <2>4, <2>5 DEF ConfirmInv
<1>5. CASE SpawnTracker(th) /\ flowUnchanged
  <2>1. \A o \in Callers : o # Tracker(snapshot[th].session)
    BY ThreadFacts
  <2>2. pc'[th] = "idle" /\ copy'[th] = NoTrace
    BY <1>0, <1>5, <2>1 DEF SpawnTracker, Finishes
  <2>3. \A o \in Callers : o # th => pc'[o] = pc[o] /\ copy'[o] = copy[o]
    BY <1>0, <1>5, <2>1 DEF SpawnTracker, Finishes
  <2>4. url' = url /\ answers' = answers /\ engine' = engine
    BY <1>5 DEF SpawnTracker, Finishes
  <2> QED
    BY <2>2, <2>3, <2>4, CallerKeepsConfirmed DEF AnswersKept, TracesKept, DispatchPlaces
<1>6. CASE DispatchFailed(th) /\ flowUnchanged
  BY <1>0, <1>6, CallerKeepsConfirmed
     DEF DispatchFailed, Finishes, AnswersKept, TracesKept, DispatchPlaces
<1> QED BY <1>2, <1>3, <1>4, <1>5, <1>6 DEF Dispatch, StartRelaySession

LEMMA BridgeConfirm ==
    ASSUME ConfirmInv, TypeOK', Bridge, flowUnchanged PROVE ConfirmInv'
<1> USE ThreadFacts DEF Goes, flowUnchanged
<1>0. TypeOK /\ pc \in [Threads -> Places] /\ copy \in [Callers -> Traces \cup {NoTrace}]
  BY DEF ConfirmInv, TypeOK
<1>1. ASSUME NEW s \in Sessions, TrackRelaySession(s) PROVE ConfirmInv'
  <2>1. copy' = copy /\ answers' = answers /\ engine' = engine
    BY <1>1 DEF TrackRelaySession, Subscribed, SubscriptionFails, ReceiveProgress,
       ReceiveTerminal, FetchResult, deskVars
  <2>2. \E p : pc' = [pc EXCEPT ![Tracker(s)] = p]
    BY <1>1 DEF TrackRelaySession, Subscribed, SubscriptionFails, ReceiveProgress,
       ReceiveTerminal, FetchResult
  <2>3. \A th \in Callers : pc'[th] = pc[th]
    BY <1>0, <2>2
  <2> QED
    BY <2>1, <2>3, OthersKeepConfirmed DEF TracesKept
<1>2. ASSUME NEW th \in Threads, FinishPublishing(th) PROVE ConfirmInv'
  BY <1>2, OthersKeepConfirmed
     DEF FinishPublishing, FinishPublish, bridgeVars, TracesKept
<1>3. \A s, st : engine' = [engine EXCEPT ![s].state = st] => TracesKept
  BY <1>0 DEF TypeOK, TracesKept
<1>4. ASSUME NEW s \in Sessions, EngineEnds(s) PROVE ConfirmInv'
  BY <1>3, <1>4, OthersKeepConfirmed DEF EngineEnds, deskVars
<1>5. ASSUME InterruptSession PROVE ConfirmInv'
  <2>1. /\ pc[Main] \in NoAnswerPlaces
        /\ copy' = copy /\ answers' = answers
        /\ \E p \in NoAnswerPlaces : pc' = [pc EXCEPT ![Main] = p]
    BY <1>5 DEF InterruptSession, InterruptRefused, InterruptAccepted, InterruptFails,
       InterruptOk, InterruptError, deskVars, NoAnswerPlaces
  <2>2. TracesKept
    BY <1>3, <1>5 DEF InterruptSession, InterruptRefused, InterruptAccepted, InterruptFails,
       InterruptOk, InterruptError, Interrupted, TracesKept
  <2>3. copy[Main] = NoTrace
    BY <2>1 DEF ConfirmInv, DemoHasNoSuggestion
  <2> QED
    BY <1>0, <2>1, <2>2, <2>3, CallerKeepsConfirmed
       DEF AnswersKept, IsConfirmed
<1> QED BY <1>1, <1>2, <1>4, <1>5 DEF Bridge

LEMMA ConfirmStep == ASSUME ConfirmInv, [Next]_vars PROVE ConfirmInv'
<1>1. CASE Next
  <2>1. TypeOK'
    BY <1>1, LoopType, UserType, ClickType, DispatchType, BridgeType DEF Next, ConfirmInv
  <2>2. CASE ObservationLoop \/ Age
    <3>1. UNCHANGED <<pc, copy, engine, url, answers>>
      BY <2>2 DEF ObservationLoop, CheckWaiting, KeepWaiting, CheckRunning, ExpirePending,
         ClearExpired, NothingToSuggest, Suggest, StoreToken, ClearTask, ClearExecution,
         StorePending, Age, LoopOnly, bridgeVars, flowUnchanged
    <3> QED
      BY <2>1, <3>1, OthersKeepConfirmed DEF TracesKept
  <2> QED
    BY <1>1, <2>1, <2>2, UserConfirm, ClickConfirm, DispatchConfirm, BridgeConfirm DEF Next
<1>2. CASE UNCHANGED vars
  <2>1. TypeOK'
    BY <1>2 DEF ConfirmInv, TypeOK, vars, deskVars, bridgeVars
  <2> QED
    BY <1>2, <2>1, OthersKeepConfirmed DEF vars, deskVars, bridgeVars, TracesKept
<1> QED BY <1>1, <1>2

(* An agent is started for a suggestion only after the user confirmed this *)
(* suggestion: confirm_pending_task and confirm_pending_task_by_token are  *)
(* the only ways to a session with a trace, and a stale toast, a click     *)
(* that is delivered twice or an expiry does not open another one.         *)
THEOREM RunsAreConfirmed == Spec => []NothingRunsUnconfirmed
<1>1. ConfirmInv /\ [Next]_vars => ConfirmInv'
  BY ConfirmStep
<1>2. ConfirmInv => NothingRunsUnconfirmed
  BY DEF ConfirmInv
<1> QED BY InitConfirm, <1>1, <1>2, PTL DEF Spec

-----------------------------------------------------------------------------
(* What is shown as under way is followed.                                 *)
(*                                                                         *)
(* A thread publishes from its own snapshot, so the state that is shown is *)
(* as good as the snapshots are: they name the suggestion and the session  *)
(* of their thread, and say that a session is under way only while their   *)
(* thread follows it.                                                      *)

Shown == {"connecting", "dispatching", "running"}
FollowPlaces == {"connect", "dispatch", "spawn", "subscribe", "receive"}

Accepted(info) ==
    /\ info.session \in Sessions
    /\ engine[info.session].state # "absent"
    /\ engine[info.session].trace = info.trace

SnapshotIsTrue(th) ==
    /\ th \in Callers =>
          /\ pc[th] \in {"connect", "dispatch"} =>
                snapshot[th].trace = copy[th] /\ snapshot[th].session = NoSession
          /\ pc[th] = "spawn" => Accepted(snapshot[th])
    /\ \A s \in Sessions : th = Tracker(s) =>
          /\ pc[th] \in TrackerPlaces
          /\ pc[th] \in {"subscribe", "receive", "fetch_result"} \/ th \in half =>
                Accepted(snapshot[th]) /\ snapshot[th].session = s
    /\ snapshot[th].status \in Shown => pc[th] \in FollowPlaces

FollowInv ==
    /\ TypeOK
    /\ \A th \in Threads : SnapshotIsTrue(th)
    /\ ShownRunningIsFollowed
    /\ WaitingIsFollowed

EngineKept ==
    \A s \in Sessions : engine[s].state # "absent" =>
        engine'[s].state # "absent" /\ engine'[s].trace = engine[s].trace

\* A thread that does not move keeps a true snapshot.
LEMMA OthersStayTrue ==
    ASSUME FollowInv, EngineKept, NEW o \in Threads, pc'[o] = pc[o], snapshot'[o] = snapshot[o],
           o \in half' => o \in half, o \in Callers => copy'[o] = copy[o]
    PROVE  SnapshotIsTrue(o)'
<1>1. SnapshotIsTrue(o)
  BY DEF FollowInv
<1>2. Accepted(snapshot[o]) => Accepted(snapshot[o])'
  BY DEF EngineKept, Accepted
<1> QED
  BY <1>1, <1>2 DEF SnapshotIsTrue

\* Steps that publish nothing: callers move outside the relay bridge, and what
\* is stored or cleared is no session under way.
LEMMA QuietStep ==
    ASSUME FollowInv, TypeOK', EngineKept, snapshot' = snapshot, half' = half,
           task' = task \/ task'.state \notin Shown,
           execution' = execution \/ execution'.status \notin Shown,
           \A s \in Sessions : pc'[Tracker(s)] = pc[Tracker(s)],
           \A o \in Callers : \/ pc'[o] = pc[o] /\ copy'[o] = copy[o]
                              \/ /\ pc[o] \notin FollowPlaces
                                 /\ pc'[o] \notin FollowPlaces
                                 /\ Confirmed(o) => Confirmed(o)'
    PROVE  FollowInv'
<1>1. \A o \in Threads : SnapshotIsTrue(o)'
  <2> SUFFICES ASSUME NEW o \in Threads PROVE SnapshotIsTrue(o)'
    OBVIOUS
  <2>1. CASE pc'[o] = pc[o] /\ (o \in Callers => copy'[o] = copy[o])
    BY <2>1, OthersStayTrue
  <2>2. CASE o \in Callers /\ pc[o] \notin FollowPlaces /\ pc'[o] \notin FollowPlaces
    BY <2>2, ThreadFacts DEF FollowInv, SnapshotIsTrue, FollowPlaces
  <2> QED
    BY <2>1, <2>2, ThreadFacts
<1>2. \A o \in Threads : (Following(o) => Following(o)') /\ (Confirmed(o) => Confirmed(o)')
  BY ThreadFacts DEF Following, FollowPlaces, Confirmed
<1>3. WaitingIsFollowed'
  BY <1>2 DEF FollowInv, WaitingIsFollowed, Shown
<1>4. ShownRunningIsFollowed'
  BY <1>2 DEF FollowInv, ShownRunningIsFollowed, Shown
<1> QED
  BY <1>1, <1>3, <1>4 DEF FollowInv

\* Steps that publish: it is enough that the published snapshot is true.
LEMMA PublishStep ==
    ASSUME FollowInv, TypeOK', EngineKept, execution' = execution,
           NEW th \in Threads, NEW info \in Executions, NEW to,
           Publish(th, info), pc' = [pc EXCEPT ![th] = to],
           \A o \in Callers : copy'[o] = copy[o],
           \/ pc[th] = "begin_session"
           \/ info.trace = snapshot[th].trace
              /\ (snapshot[th].session # NoSession => info.session = snapshot[th].session),
           SnapshotIsTrue(th)'
    PROVE  FollowInv'
<1> USE DEF Publish
<1>0. /\ pc \in [Threads -> Places] /\ snapshot \in [Threads -> Executions]
      /\ snapshot'[th] = info /\ pc'[th] = to
      /\ \A o \in Threads : o # th => pc'[o] = pc[o] /\ snapshot'[o] = snapshot[o]
  BY DEF FollowInv, TypeOK
<1>1. \A o \in Threads : SnapshotIsTrue(o)'
  BY <1>0, OthersStayTrue
<1>2. WaitingIsFollowed'
  <2> SUFFICES ASSUME task'.state \in Shown PROVE Following(th)'
    BY DEF WaitingIsFollowed, Shown
  <2>1. task' \in {NoTask, [task EXCEPT !.state = info.status]}
    BY DEF StoreTaskState
  <2>2. NoTask.state \notin Shown /\ [task EXCEPT !.state = info.status].state = info.status
    BY DEF NoTask, Shown, FollowInv, TypeOK
  <2>3. info.status \in Shown
    BY <2>1, <2>2
  <2> QED
    BY <1>0, <2>3 DEF SnapshotIsTrue, Following, FollowPlaces
<1>3. ShownRunningIsFollowed'
  <2> SUFFICES ASSUME execution.status \in Shown
               PROVE  \E o \in Threads :
                         /\ Following(o)' \/ o \in half'
                         /\ snapshot'[o].trace = execution.trace
                         /\ execution.session # NoSession =>
                               snapshot'[o].session = execution.session
    BY DEF ShownRunningIsFollowed, Shown
  <2>1. PICK o \in Threads : /\ Following(o) \/ o \in half
                             /\ snapshot[o].trace = execution.trace
                             /\ execution.session # NoSession =>
                                   snapshot[o].session = execution.session
    BY DEF FollowInv, ShownRunningIsFollowed, Shown
  <2>2. CASE o # th
    BY <1>0, <2>1, <2>2 DEF Following
  <2>3. CASE o = th
    <3>1. pc[th] # "begin_session"
      BY <2>1, <2>3 DEF Following
    <3> QED
      BY <1>0, <2>1, <2>3, <3>1
  <2> QED BY <2>2, <2>3
<1> QED
  BY <1>1, <1>2, <1>3 DEF FollowInv

LEMMA NoSessionIsShown ==
    /\ NoExecution.status \notin Shown /\ NoTask.state \notin Shown
    /\ FollowInv => \A st \in {"interrupting", "dispatch_error", "interrupt_error"} :
                       StoreTaskState(st) => task'.state \notin Shown
    /\ FollowInv => \A st \in {"interrupting", "interrupted", "interrupt_error"} :
                       StoreRelayStatus(st) => execution'.status \notin Shown
<1>1. NoExecution.status \notin Shown /\ NoTask.state \notin Shown
  BY DEF NoExecution, NoTask, Shown
<1>2. ASSUME FollowInv, NEW st \in States
      PROVE  /\ [task EXCEPT !.state = st].state = st
             /\ [execution EXCEPT !.status = st].status = st
  BY <1>2 DEF FollowInv, TypeOK, Executions
<1>3. {"interrupting", "interrupted", "interrupt_error", "dispatch_error"} \subseteq States
  BY DEF States, ActiveStates, EndStates, ErrorStates
<1> QED
  BY <1>1, <1>2, <1>3 DEF StoreTaskState, StoreRelayStatus, Shown

LEMMA InitFollow == Init => FollowInv
<1> SUFFICES ASSUME Init PROVE FollowInv
  OBVIOUS
<1>1. \A th \in Threads : pc[th] = "idle" /\ snapshot[th].status = "none" /\ th \notin half
  BY DEF Init, BridgeInit, DeskInit, NoExecution
<1>2. \A th \in Threads : SnapshotIsTrue(th)
  BY <1>1 DEF SnapshotIsTrue, Shown, TrackerPlaces
<1>3. ShownRunningIsFollowed /\ WaitingIsFollowed
  BY DEF Init, DeskInit, ShownRunningIsFollowed, WaitingIsFollowed, NoExecution, NoTask
<1> QED
  BY InitType, <1>2, <1>3 DEF FollowInv

LEMMA LoopFollow == ASSUME FollowInv, TypeOK', ObservationLoop \/ Age PROVE FollowInv'
<1>1. UNCHANGED <<snapshot, half, pc, copy, engine>>
  BY DEF ObservationLoop, CheckWaiting, KeepWaiting, CheckRunning, ExpirePending, ClearExpired,
     NothingToSuggest, Suggest, StoreToken, ClearTask, ClearExecution, StorePending, Age,
     LoopOnly, bridgeVars
<1>2. task' \in {task, NoTask} /\ execution' \in {execution, NoExecution}
  BY DEF ObservationLoop, CheckWaiting, KeepWaiting, CheckRunning, ExpirePending, ClearExpired,
     NothingToSuggest, Suggest, StoreToken, ClearTask, ClearExecution, StorePending, Age
<1> QED
  BY <1>1, <1>2, QuietStep, NoSessionIsShown DEF EngineKept

LEMMA UserFollow == ASSUME FollowInv, TypeOK', UserCommand PROVE FollowInv'
<1>1. UNCHANGED <<snapshot, half, engine>>
  BY DEF UserCommand, SetRunning, ConfirmPending, ClearPending, ClearToken, DeclinePending,
     ClearDeclined, RecordDeclined, RunRelayDemo, InterruptCurrentTask, MarkTaskInterrupting,
     MarkRelayInterrupting, bridgeVars, deskVars
<1>2. task' = task \/ task'.state \notin Shown
  BY NoSessionIsShown
     DEF UserCommand, SetRunning, ConfirmPending, ClearPending, ClearToken, DeclinePending,
     ClearDeclined, RecordDeclined, RunRelayDemo, InterruptCurrentTask, MarkTaskInterrupting,
     MarkRelayInterrupting, bridgeVars, deskVars
<1>3. execution' = execution \/ execution'.status \notin Shown
  <2>1. CASE MarkRelayInterrupting
    BY <2>1, NoSessionIsShown DEF MarkRelayInterrupting
  <2> QED
    BY <2>1 DEF UserCommand, SetRunning, ConfirmPending, ClearPending, ClearToken, DeclinePending,
     ClearDeclined, RecordDeclined, RunRelayDemo, InterruptCurrentTask, MarkTaskInterrupting,
     bridgeVars, deskVars
<1>4. \/ pc' = pc /\ copy' = copy
      \/ /\ pc[Main] \notin FollowPlaces \cup {"begin_session", "clear_execution"}
         /\ \E to \in Places \ FollowPlaces : pc' = [pc EXCEPT ![Main] = to]
         /\ copy' = copy \/ \E t : copy' = [copy EXCEPT ![Main] = t]
  BY DEF UserCommand, SetRunning, ConfirmPending, ClearPending, ClearToken, DeclinePending,
     ClearDeclined, RecordDeclined, RunRelayDemo, InterruptCurrentTask, MarkTaskInterrupting,
     MarkRelayInterrupting, bridgeVars, deskVars, Goes, FollowPlaces, Places, CallerPlaces,
     MainPlaces
<1>5. \A s \in Sessions : pc'[Tracker(s)] = pc[Tracker(s)]
  BY <1>4, ThreadFacts DEF FollowInv, TypeOK
<1>6. \A o \in Callers : \/ pc'[o] = pc[o] /\ copy'[o] = copy[o]
                         \/ /\ pc[o] \notin FollowPlaces
                            /\ pc'[o] \notin FollowPlaces
                            /\ Confirmed(o) => Confirmed(o)'
  BY <1>4, ThreadFacts DEF FollowInv, TypeOK, Confirmed
<1> QED
  BY <1>1, <1>2, <1>3, <1>5, <1>6, QuietStep DEF EngineKept

LEMMA ClickFollow ==
    ASSUME FollowInv, TypeOK', NEW c \in Clicks, ProtocolAction(c) PROVE FollowInv'
<1>1. UNCHANGED <<snapshot, half, engine, task, execution>>
  BY DEF ProtocolAction, ClickToast, ConsumeToken, RejectToken, ExpireToken, ConfirmByToken,
     RejectConfirm, CancelByToken, ClearConfirmed, ClearCancelled, deskVars
<1>2. /\ pc[Click(c)] \notin FollowPlaces \cup {"begin_session", "clear_execution"}
      /\ \E to \in Places \ FollowPlaces : pc' = [pc EXCEPT ![Click(c)] = to]
      /\ copy' = copy \/ \E t : copy' = [copy EXCEPT ![Click(c)] = t]
  BY DEF ProtocolAction, ClickToast, ConsumeToken, RejectToken, ExpireToken, ConfirmByToken,
     RejectConfirm, CancelByToken, ClearConfirmed, ClearCancelled, Goes, FollowPlaces, Places,
     CallerPlaces, ClickPlaces
<1>3. \A s \in Sessions : pc'[Tracker(s)] = pc[Tracker(s)]
  BY <1>2, ThreadFacts DEF FollowInv, TypeOK
<1>4. \A o \in Callers : \/ pc'[o] = pc[o] /\ copy'[o] = copy[o]
                         \/ /\ pc[o] \notin FollowPlaces
                            /\ pc'[o] \notin FollowPlaces
                            /\ Confirmed(o) => Confirmed(o)'
  BY <1>2, ThreadFacts DEF FollowInv, TypeOK, Confirmed
<1> QED
  BY <1>1, <1>3, <1>4, QuietStep DEF EngineKept

\* The steps of start_relay_session and of the commands around it.
LEMMA DispatchFollow ==
    ASSUME FollowInv, TypeOK', NEW th \in Callers, Dispatch(th) PROVE FollowInv'
<1> th \in Threads
  BY ThreadFacts
<1> USE DEF Goes, flowUnchanged
<1>0. /\ pc \in [Threads -> Places] /\ copy \in [Callers -> Traces \cup {NoTrace}]
      /\ snapshot \in [Threads -> Executions]
      /\ engine \in [Sessions -> [trace : Traces \cup {NoTrace}, state : EngineStates]]
      /\ SnapshotIsTrue(th) /\ \A s : th # Tracker(s)
  BY ThreadFacts DEF FollowInv, TypeOK
<1>1. CASE ClearOldExecution(th)
  <2>1. \A o \in Threads : o # th => pc'[o] = pc[o]
    BY <1>0, <1>1 DEF ClearOldExecution
  <2>2. pc[th] \notin FollowPlaces /\ pc'[th] \notin FollowPlaces /\ Confirmed(th)'
    BY <1>0, <1>1 DEF ClearOldExecution, FollowPlaces, Confirmed
  <2>3. UNCHANGED <<snapshot, half, engine, task, copy>> /\ execution' = NoExecution
    BY <1>1 DEF ClearOldExecution
  <2> QED
    BY <2>1, <2>2, <2>3, NoSessionIsShown, ThreadFacts, QuietStep DEF EngineKept
<1>2. CASE StoreConfirmedTask(th)
  <2>1. /\ pc[th] = "store_task" /\ pc' = [pc EXCEPT ![th] = "clear_execution"]
        /\ UNCHANGED <<snapshot, half, engine, execution, copy>>
    BY <1>2 DEF StoreConfirmedTask
  <2>2. ASSUME NEW o \in Threads PROVE SnapshotIsTrue(o)'
    <3>1. CASE o # th
      BY <1>0, <2>1, <3>1, OthersStayTrue DEF EngineKept
    <3>2. CASE o = th
      BY <1>0, <2>1, <3>2 DEF SnapshotIsTrue, FollowPlaces
    <3> QED BY <3>1, <3>2
  <2>3. WaitingIsFollowed'
    BY <1>0, <2>1 DEF WaitingIsFollowed, Confirmed
  <2>4. ShownRunningIsFollowed'
    BY <1>0, <2>1 DEF FollowInv, ShownRunningIsFollowed, Following
  <2> QED
    BY <2>2, <2>3, <2>4 DEF FollowInv
<1>3. CASE BeginSession(th)
  <2> DEFINE info == [trace |-> copy[th], status |-> "connecting", session |-> NoSession]
  <2>1. info \in Executions
    BY <1>0 DEF Executions, States, ActiveStates
  <2>2. /\ pc[th] = "begin_session" /\ pc' = [pc EXCEPT ![th] = "connect"]
        /\ Publish(th, info) /\ UNCHANGED <<execution, copy, engine>>
    BY <1>3 DEF BeginSession
  <2>3. SnapshotIsTrue(th)'
    BY <1>0, <2>2 DEF SnapshotIsTrue, Publish, FollowPlaces
  <2> QED
    BY <2>1, <2>2, <2>3, PublishStep DEF EngineKept
<1>4. CASE ConnectFails(th) \/ Connected(th)
  <2>1. PICK to \in {"dispatch_failed", "dispatch"}, st \in {"connect_error", "dispatching"} :
           /\ pc[th] = "connect" /\ pc' = [pc EXCEPT ![th] = to]
           /\ to = "dispatch_failed" => st = "connect_error"
           /\ Publish(th, [snapshot[th] EXCEPT !.status = st])
           /\ UNCHANGED <<execution, copy, engine>>
    BY <1>4 DEF ConnectFails, Connected, PublishStatus
  <2> DEFINE info == [snapshot[th] EXCEPT !.status = st]
  <2>2. /\ info \in Executions /\ info.status = st
        /\ info.trace = snapshot[th].trace /\ info.session = snapshot[th].session
    BY <1>0, StatusFacts DEF Executions, ErrorStates, ActiveStates
  <2>3. SnapshotIsTrue(th)'
    BY <1>0, <2>1, <2>2 DEF SnapshotIsTrue, Publish, FollowPlaces, Shown
  <2> QED
    BY <2>1, <2>2, <2>3, PublishStep DEF EngineKept
<1>5. \A s \in Sessions : Accepts(s, th) => EngineKept /\ engine'[s].state = "running"
                                            /\ engine'[s].trace = copy[th]
  BY <1>0 DEF Accepts, EngineKept, NoEngineSession
<1>6. CASE Dispatched(th)
  <2>1. PICK s \in Sessions :
           /\ Accepts(s, th)
           /\ Publish(th, [trace |-> copy[th], status |-> "running", session |-> s])
    BY <1>6 DEF Dispatched
  <2> DEFINE info == [trace |-> copy[th], status |-> "running", session |-> s]
  <2>2. info \in Executions
    BY <1>0 DEF Executions, States, ActiveStates
  <2>3. /\ pc[th] = "dispatch" /\ pc' = [pc EXCEPT ![th] = "spawn"]
        /\ UNCHANGED <<execution, copy>>
    BY <1>6 DEF Dispatched
  <2>4. snapshot[th].trace = copy[th] /\ snapshot[th].session = NoSession
    BY <1>0, <2>3 DEF SnapshotIsTrue
  <2>5. SnapshotIsTrue(th)'
    BY <1>0, <1>5, <2>1, <2>3 DEF SnapshotIsTrue, Publish, Accepted, FollowPlaces
  <2> QED
    BY <1>5, <2>1, <2>2, <2>3, <2>4, <2>5, PublishStep
<1>7. CASE DispatchFails(th)
  <2>1. /\ pc[th] = "dispatch" /\ pc' = [pc EXCEPT ![th] = "dispatch_failed"]
        /\ Publish(th, [snapshot[th] EXCEPT !.status = "dispatch_error"])
        /\ UNCHANGED <<execution, copy>>
    BY <1>7 DEF DispatchFails, PublishStatus
  <2> DEFINE info == [snapshot[th] EXCEPT !.status = "dispatch_error"]
  <2>2. /\ info \in Executions /\ info.status = "dispatch_error"
        /\ info.trace = snapshot[th].trace /\ info.session = snapshot[th].session
    BY <1>0, StatusFacts DEF Executions, ErrorStates
  <2>3. EngineKept
    BY <1>5, <1>7 DEF DispatchFails, EngineKept
  <2>4. SnapshotIsTrue(th)'
    BY <1>0, <2>1, <2>2 DEF SnapshotIsTrue, Publish, Shown
  <2> QED
    BY <2>1, <2>2, <2>3, <2>4, PublishStep
<1>8. CASE DispatchFailed(th)
  <2>1. /\ pc[th] = "dispatch_failed" /\ pc' = [pc EXCEPT ![th] = "idle"] /\ th \notin half
        /\ snapshot' = [snapshot EXCEPT ![th] = NoExecution]
        /\ copy' = [copy EXCEPT ![th] = NoTrace]
        /\ UNCHANGED <<half, execution, engine>>
    BY <1>8 DEF DispatchFailed, Finishes
  <2>2. task' = task \/ task'.state \notin Shown
    BY <1>8, NoSessionIsShown DEF DispatchFailed
  <2>3. \A o \in Threads : o # th => pc'[o] = pc[o] /\ snapshot'[o] = snapshot[o]
    BY <1>0, <2>1
  <2>4. ASSUME NEW o \in Threads PROVE SnapshotIsTrue(o)'
    <3>1. CASE o # th
      BY <1>0, <2>1, <2>3, <3>1, OthersStayTrue DEF EngineKept
    <3>2. CASE o = th
      BY <1>0, <2>1, <3>2, NoSessionIsShown DEF SnapshotIsTrue
    <3> QED BY <3>1, <3>2
  <2>5. WaitingIsFollowed'
    BY <2>1, <2>2, <2>3 DEF FollowInv, WaitingIsFollowed, Following, Confirmed, Shown
  <2>6. ShownRunningIsFollowed'
    BY <2>1, <2>3 DEF FollowInv, ShownRunningIsFollowed, Following
  <2> QED
    BY <2>4, <2>5, <2>6 DEF FollowInv
<1>9. CASE SpawnTracker(th)
  <2>0. pc[th] = "spawn" /\ Accepted(snapshot[th])
    BY <1>0, <1>9 DEF SpawnTracker, SnapshotIsTrue
  <2> PICK s \in Sessions : s = snapshot[th].session
    BY <2>0 DEF Accepted
  <2> DEFINE tr == Tracker(s)
  <2>1. /\ pc[th] = "spawn" /\ th \notin half
        /\ pc' = [pc EXCEPT ![th] = "idle", ![tr] = "subscribe"]
        /\ snapshot' = [snapshot EXCEPT ![th] = NoExecution, ![tr] = snapshot[th]]
        /\ copy' = [copy EXCEPT ![th] = NoTrace]
        /\ UNCHANGED <<half, execution, engine, task>>
    BY <1>9 DEF SpawnTracker, Finishes
  <2>2. Accepted(snapshot[th]) /\ tr \in Threads /\ tr # th
    BY <1>0, <2>0, ThreadFacts
  <2> HIDE DEF tr
  <2>3. /\ \A o \in Threads : o \notin {th, tr} => pc'[o] = pc[o] /\ snapshot'[o] = snapshot[o]
        /\ pc'[th] = "idle" /\ snapshot'[th] = NoExecution
        /\ pc'[tr] = "subscribe" /\ snapshot'[tr] = snapshot[th]
    BY <1>0, <2>1, <2>2
  <2>4. ASSUME NEW o \in Threads PROVE SnapshotIsTrue(o)'
    <3>1. CASE o \notin {th, tr}
      BY <1>0, <2>1, <2>3, <3>1, OthersStayTrue DEF EngineKept
    <3>2. CASE o = th
      BY <1>0, <2>1, <2>3, <3>2, NoSessionIsShown DEF SnapshotIsTrue
    <3>3. CASE o = tr
      <4>1. o \notin Callers /\ \A r \in Sessions : o = Tracker(r) => r = s
        BY <3>3, ThreadFacts DEF tr
      <4>2. Accepted(snapshot[tr])'
        BY <2>1, <2>2, <2>3 DEF Accepted
      <4> QED
        BY <2>3, <3>3, <4>1, <4>2 DEF SnapshotIsTrue, TrackerPlaces, FollowPlaces
    <3> QED BY <3>1, <3>2, <3>3
  <2>5. WaitingIsFollowed'
    BY <2>2, <2>3 DEF WaitingIsFollowed, Following
  <2>6. ShownRunningIsFollowed'
    <3> SUFFICES ASSUME execution.status \in Shown
                 PROVE  \E o \in Threads :
                           /\ Following(o)' \/ o \in half
                           /\ snapshot'[o].trace = execution.trace
                           /\ execution.session # NoSession =>
                                 snapshot'[o].session = execution.session
      BY <2>1 DEF ShownRunningIsFollowed, Shown
    <3>1. PICK o \in Threads : /\ Following(o) \/ o \in half
                               /\ snapshot[o].trace = execution.trace
                               /\ execution.session # NoSession =>
                                     snapshot[o].session = execution.session
      BY DEF FollowInv, ShownRunningIsFollowed, Shown
    <3>2. CASE o \notin {th, tr}
      BY <2>3, <3>1, <3>2 DEF Following
    <3>3. CASE o = th
      BY <2>2, <2>3, <3>1, <3>3 DEF Following
    <3>4. CASE o = tr
      <4>0. pc[tr] \in {"subscribe", "receive"} \/ tr \in half
        <5>1. pc[tr] \in TrackerPlaces
          BY <2>2 DEF tr, FollowInv, SnapshotIsTrue
        <5> QED
          BY <3>1, <3>4, <5>1 DEF Following, TrackerPlaces
      <4>1. Accepted(snapshot[tr]) /\ snapshot[tr].session = s
        BY <2>2, <4>0 DEF tr, FollowInv, SnapshotIsTrue
      <4>2. snapshot[th].trace = snapshot[tr].trace /\ snapshot[th].session = snapshot[tr].session
        BY <2>2, <4>1 DEF Accepted
      <4> QED
        BY <2>2, <2>3, <3>1, <3>4, <4>1, <4>2 DEF Following
    <3> QED BY <3>2, <3>3, <3>4
  <2> QED
    BY <2>4, <2>5, <2>6 DEF FollowInv
<1> QED
  BY <1>1, <1>2, <1>3, <1>4, <1>6, <1>7, <1>8, <1>9 DEF Dispatch, StartRelaySession

\* The steps of a thread that follows a session, and of the engine.
LEMMA TrackFollow ==
    ASSUME FollowInv, TypeOK', NEW s \in Sessions, TrackRelaySession(s) PROVE FollowInv'
<1> DEFINE th == Tracker(s)
<1> USE DEF Goes
<1>0. /\ pc \in [Threads -> Places] /\ snapshot \in [Threads -> Executions]
      /\ th \in Threads /\ th \notin Callers /\ \A r \in Sessions : th = Tracker(r) => r = s
      /\ SnapshotIsTrue(th)
      /\ engine[s].state \in EndStates => engine[s].state \in States
  BY ThreadFacts, StatusFacts DEF FollowInv, TypeOK
<1> HIDE DEF th
<1>1. CASE Subscribed(s)
  <2>1. /\ pc[th] = "subscribe" /\ pc' = [pc EXCEPT ![th] = "receive"]
        /\ UNCHANGED <<snapshot, half, execution, task, copy, engine>>
    BY <1>1 DEF Subscribed, deskVars, th
  <2>2. \A o \in Threads : (Following(o) => Following(o)') /\ (Confirmed(o) => Confirmed(o)')
    BY <1>0, <2>1 DEF Following, Confirmed
  <2>3. ASSUME NEW o \in Threads PROVE SnapshotIsTrue(o)'
    <3>1. CASE o # th
      BY <1>0, <2>1, <3>1, OthersStayTrue DEF EngineKept
    <3>2. CASE o = th
      <4>1. Accepted(snapshot[th]) /\ snapshot[th].session = s
        BY <1>0, <2>1 DEF SnapshotIsTrue, th
      <4>2. Accepted(snapshot[th])'
        BY <2>1, <4>1 DEF Accepted
      <4> QED
        BY <1>0, <2>1, <3>2, <4>1, <4>2 DEF SnapshotIsTrue, TrackerPlaces, FollowPlaces
    <3> QED BY <3>1, <3>2
  <2>4. WaitingIsFollowed'
    BY <2>1, <2>2 DEF FollowInv, WaitingIsFollowed
  <2>5. ShownRunningIsFollowed'
    BY <2>1, <2>2 DEF FollowInv, ShownRunningIsFollowed
  <2> QED
    BY <2>3, <2>4, <2>5 DEF FollowInv
<1>2. CASE SubscriptionFails(s) \/ ReceiveProgress(s) \/ ReceiveTerminal(s) \/ FetchResult(s)
  <2>1. PICK from \in {"subscribe", "receive", "fetch_result"},
             to \in {"receive", "fetch_result", "done"},
             info \in {snapshot[th]} \cup {[snapshot[th] EXCEPT !.status = st] :
                                              st \in EndStates \cup ErrorStates} :
           /\ pc[th] = from /\ pc' = [pc EXCEPT ![th] = to] /\ Publish(th, info)
           /\ info.status \in Shown => from = "fetch_result" \/ to = "receive"
           /\ UNCHANGED <<execution, copy, engine>>
    <3>1. CASE SubscriptionFails(s)
      <4>1. [snapshot[th] EXCEPT !.status = "subscription_error"].status \notin Shown
        BY <1>0 DEF Shown, Executions
      <4> QED
        BY <3>1, <4>1 DEF SubscriptionFails, PublishStatus, ErrorStates, th
    <3>2. CASE ReceiveTerminal(s)
      <4>1. \A st \in EndStates : [snapshot[th] EXCEPT !.status = st].status \notin Shown
        BY <1>0 DEF Shown, Executions, EndStates
      <4> QED
        BY <3>2, <4>1 DEF ReceiveTerminal, PublishStatus, th
    <3>3. CASE ReceiveProgress(s) \/ FetchResult(s)
      BY <3>3 DEF ReceiveProgress, FetchResult, th
    <3> QED BY <1>2, <3>1, <3>2, <3>3
  <2>2. /\ info \in Executions
        /\ info.trace = snapshot[th].trace /\ info.session = snapshot[th].session
    BY <1>0, <2>1, StatusFacts DEF Executions
  <2>3. Accepted(snapshot[th]) /\ snapshot[th].session = s
    BY <1>0, <2>1 DEF SnapshotIsTrue, th
  <2>4. Accepted(snapshot[th])' /\ snapshot'[th] = info
    BY <1>0, <2>1, <2>2, <2>3 DEF Accepted, Publish
  <2>5. info.status \notin Shown \/ to = "receive"
    <3>1. CASE from = "fetch_result"
      BY <1>0, <2>1, <3>1 DEF SnapshotIsTrue, FollowPlaces, Shown, EndStates, ErrorStates, Executions
    <3> QED BY <2>1, <3>1
  <2>6. SnapshotIsTrue(th)'
    BY <1>0, <2>1, <2>2, <2>3, <2>4, <2>5 DEF SnapshotIsTrue, TrackerPlaces, FollowPlaces
  <2> QED
    BY <1>0, <2>1, <2>2, <2>6, PublishStep DEF EngineKept
<1> QED
  BY <1>1, <1>2 DEF TrackRelaySession

LEMMA BridgeFollow == ASSUME FollowInv, TypeOK', Bridge PROVE FollowInv'
<1>0. /\ pc \in [Threads -> Places] /\ snapshot \in [Threads -> Executions]
      /\ engine \in [Sessions -> [trace : Traces \cup {NoTrace}, state : EngineStates]]
  BY DEF FollowInv, TypeOK
<1>1. ASSUME NEW th \in Threads, FinishPublishing(th) PROVE FollowInv'
  <2>1. /\ th \in half /\ execution' = snapshot[th] /\ half' = half \ {th}
        /\ \A o \in Threads : o # th => snapshot'[o] = snapshot[o]
        /\ snapshot'[th] = IF pc[th] = "done" THEN NoExecution ELSE snapshot[th]
        /\ UNCHANGED <<pc, copy, engine, task>>
    BY <1>0, <1>1 DEF FinishPublishing, FinishPublish, bridgeVars
  <2>2. SnapshotIsTrue(th)
    BY DEF FollowInv
  <2>3. ASSUME NEW o \in Threads PROVE SnapshotIsTrue(o)'
    <3>1. CASE snapshot'[o] = snapshot[o]
      BY <2>1, <3>1, OthersStayTrue DEF EngineKept
    <3>2. CASE o = th /\ pc[th] = "done"
      BY <2>1, <3>2, NoSessionIsShown, ThreadFacts DEF SnapshotIsTrue, TrackerPlaces
    <3> QED BY <2>1, <3>1, <3>2
  <2>4. WaitingIsFollowed'
    BY <2>1 DEF FollowInv, WaitingIsFollowed, Following, Confirmed
  <2>5. ShownRunningIsFollowed'
    <3> SUFFICES ASSUME snapshot[th].status \in Shown
                 PROVE  Following(th) /\ snapshot'[th] = snapshot[th]
      BY <2>1 DEF ShownRunningIsFollowed, Shown, Following
    <3> QED
      BY <2>1, <2>2 DEF SnapshotIsTrue, Following, FollowPlaces
  <2> QED
    BY <2>3, <2>4, <2>5 DEF FollowInv
<1>2. \A r : \A st \in EngineStates \ {"absent"} :
         engine' = [engine EXCEPT ![r].state = st] => EngineKept
  BY <1>0 DEF EngineKept
<1>3. ASSUME NEW s \in Sessions, EngineEnds(s) PROVE FollowInv'
  <2>1. EngineKept
    BY <1>2, <1>3 DEF EngineEnds, EngineStates, EndStates
  <2> QED
    BY <1>3, <2>1, QuietStep DEF EngineEnds, deskVars
<1>4. ASSUME InterruptSession PROVE FollowInv'
  <2>1. EngineKept
    <3>1. \A r : Interrupted(r) => EngineKept
      BY <1>2 DEF Interrupted, EngineStates, EndStates
    <3> QED
      BY <1>4, <3>1 DEF InterruptSession, InterruptRefused, InterruptAccepted, InterruptFails,
         InterruptOk, InterruptError, EngineKept
  <2>2. /\ pc[Main] \in NoAnswerPlaces
        /\ \E to \in NoAnswerPlaces : pc' = [pc EXCEPT ![Main] = to]
        /\ UNCHANGED <<snapshot, half, copy>>
    BY <1>4 DEF InterruptSession, InterruptRefused, InterruptAccepted, InterruptFails,
       InterruptOk, InterruptError, Goes, NoAnswerPlaces, deskVars
  <2>3. task' = task \/ task'.state \notin Shown
    BY <1>4, NoSessionIsShown DEF InterruptSession, InterruptRefused, InterruptAccepted,
       InterruptFails, InterruptOk, InterruptError, deskVars
  <2>4. execution' = execution \/ execution'.status \notin Shown
    BY <1>4, NoSessionIsShown DEF InterruptSession, InterruptRefused, InterruptAccepted,
       InterruptFails, InterruptOk, InterruptError, deskVars
  <2>5. \A o \in Threads : o # Main => pc'[o] = pc[o]
    BY <1>0, <2>2
  <2>6. ~Confirmed(Main) /\ pc[Main] \notin FollowPlaces /\ pc'[Main] \notin FollowPlaces
    BY <1>0, <2>2, ThreadFacts DEF NoAnswerPlaces, FollowPlaces, Confirmed
  <2> QED
    BY <2>1, <2>2, <2>3, <2>4, <2>5, <2>6, ThreadFacts, QuietStep
<1> QED BY <1>1, <1>3, <1>4, TrackFollow DEF Bridge

LEMMA FollowInvariant == Spec => []FollowInv
<1>1. FollowInv /\ [Next]_vars => FollowInv'
  <2> SUFFICES ASSUME FollowInv, [Next]_vars PROVE FollowInv'
    OBVIOUS
  <2>1. CASE Next
    <3>1. TypeOK'
      BY <2>1, LoopType, UserType, ClickType, DispatchType, BridgeType DEF Next, FollowInv
    <3> QED
      BY <2>1, <3>1, LoopFollow, UserFollow, ClickFollow, DispatchFollow, BridgeFollow DEF Next
  <2>2. CASE UNCHANGED vars
    <3>1. TypeOK'
      BY <2>2 DEF FollowInv, TypeOK, vars, deskVars, bridgeVars
    <3> QED
      BY <2>2, <3>1, QuietStep DEF vars, deskVars, bridgeVars, EngineKept
  <2> QED BY <2>1, <2>2
<1> QED BY InitFollow, <1>1, PTL DEF Spec

(* An execution that the windows show as under way has a thread that will  *)
(* replace it, or is about to: no failure of the relay, and no order in    *)
(* which commands, trackers and the loop publish, leaves it there.         *)
THEOREM ShownIsFollowed == Spec => []ShownRunningIsFollowed
<1>1. FollowInv => ShownRunningIsFollowed
  BY DEF FollowInv
<1> QED BY <1>1, FollowInvariant, PTL

(* The observation loop never waits for a task that no thread works on,    *)
(* except one that an interrupt command marked.                            *)
THEOREM LoopWaitsForWork == Spec => []WaitingIsFollowed
<1>1. FollowInv => WaitingIsFollowed
  BY DEF FollowInv
<1> QED BY <1>1, FollowInvariant, PTL

-----------------------------------------------------------------------------
(* Answers are given one at a time (SerialAnswers).                        *)
(*                                                                         *)
(* Two threads can read the same suggestion before either takes it out of  *)
(* the state.  What prevents it: the clicks that decide at the same time   *)
(* are deliveries of one click, and of these the token lets one through,   *)
(* because a token is stored once, before its toast can be clicked.        *)

(* A suggestion is stored as pending once, at the end of its way through   *)
(* the loop.                                                               *)
MakingPlaces == {"store_token", "clear_task", "clear_execution", "store_pending"}

Born(t) == t <= suggested /\ (loopPc \in MakingPlaces => t # suggested)
PendingLeft(t) == pending.trace = t \/ ~Born(t)
TokenLeft(t) == token = t \/ t > suggested \/ (t = suggested /\ loopPc = "store_token")

TokenInv == token <= suggested /\ (loopPc = "store_token" => token < suggested)

Admitted(c) == Deciding(Click(c)) /\ pc[Click(c)] # "consume"

DecidesAlone(c) ==
    Deciding(Click(c)) =>
        /\ ~Deciding(Main)
        /\ url[c].trace \in 1 .. suggested /\ url[c].button \in Buttons
        /\ \A d \in Clicks : Deciding(Click(d)) => url[d] = url[c]

TookToken(c) ==
    Admitted(c) =>
        /\ ~TokenLeft(url[c].trace)
        /\ \A d \in Clicks : Admitted(d) /\ url[d].trace = url[c].trace => c = d

CopiedOwn(c) ==
    pc[Click(c)] = "clear_pending" /\ url[c].button = "confirm" => copy[Click(c)] = url[c].trace

ClickInv(c) == DecidesAlone(c) /\ TookToken(c) /\ CopiedOwn(c)

AnswerInv == TokenInv /\ \A c \in Clicks : ClickInv(c)

LEMMA InitAnswer == Init => AnswerInv
<1> SUFFICES ASSUME Init PROVE AnswerInv
  OBVIOUS
<1>1. \A c \in Clicks : pc[Click(c)] = "idle"
  BY ThreadFacts DEF Init, BridgeInit
<1> QED BY <1>1 DEF Init, DeskInit, NoTrace, AnswerInv, TokenInv, ClickInv,
           DecidesAlone, TookToken, CopiedOwn, Deciding, Admitted

(* What the loop and the passing minutes do to suggestions and tokens. *)
LEMMA LoopOnce ==
    ASSUME TypeOK, ObservationLoop \/ Age
    PROVE  /\ UNCHANGED <<pc, copy, engine, url, answers>>
           /\ suggested <= suggested' /\ suggested' \in Nat
           /\ TokenInv => TokenInv'
           /\ \A t \in Traces : TokenLeft(t)' => TokenLeft(t)
           /\ \A t \in Traces : Born(t) => Born(t)'
           /\ \A t \in Traces : PendingLeft(t)' => PendingLeft(t)
           /\ \A t \in Traces : Born(t) /\ pending'.trace = t => pending.trace = t
<1> USE DEF TypeOK, LoopGoes, LoopOnly, bridgeVars, flowUnchanged, TokenInv, TokenLeft, Born,
            PendingLeft, MakingPlaces, NoTrace
<1>1. CASE CheckWaiting \/ KeepWaiting \/ ExpirePending \/ CheckRunning \/ NothingToSuggest
  BY <1>1 DEF CheckWaiting, KeepWaiting, ExpirePending, CheckRunning, NothingToSuggest
<1>2. CASE ClearExpired
  BY <1>2 DEF ClearExpired, NoPending, Traces
<1>3. CASE ClearTask \/ ClearExecution
  BY <1>3 DEF ClearTask, ClearExecution
<1>4. CASE Suggest
  BY <1>4 DEF Suggest, Traces
<1>5. CASE StoreToken
  BY <1>5 DEF StoreToken, Traces
<1>6. CASE StorePending
  BY <1>6 DEF StorePending, Traces
<1>7. CASE Age
  <2>1. pending'.trace = pending.trace
    BY <1>7 DEF Age
  <2> QED BY <1>7, <2>1 DEF Age
<1> QED BY <1>1, <1>2, <1>3, <1>4, <1>5, <1>6, <1>7 DEF ObservationLoop

(* A thread decides only after it was given an answer to take. *)
LEMMA DecidingBegins ==
    ASSUME TypeOK, UserCommand \/ \E th \in Callers : Dispatch(th)
    PROVE  /\ \A c \in Clicks : Deciding(Click(c))' => Deciding(Click(c)) /\ pc'[Click(c)] = pc[Click(c)]
           /\ Deciding(Main)' => Deciding(Main) \/ MayAnswer(Callers)
           /\ \A c \in Clicks : pc'[Click(c)] = "clear_pending" => copy'[Click(c)] = copy[Click(c)]
           /\ UNCHANGED <<loopPc, suggested, url>>
           /\ token' \in {token, NoTrace}
           /\ pending' \in {pending, NoPending}
<1> USE ThreadFacts DEF TypeOK, Goes, flowUnchanged, Deciding
<1>1. CASE UserCommand
  <2>1. CASE SetRunning
    BY <1>1, <2>1 DEF SetRunning, bridgeVars
  <2>2. CASE ~SetRunning
    <3>1. \A c \in Clicks : pc'[Click(c)] = pc[Click(c)] /\ copy'[Click(c)] = copy[Click(c)]
      BY <1>1, <2>2 DEF UserCommand, ConfirmPending, ClearPending, ClearToken, DeclinePending,
         ClearDeclined, RecordDeclined, RunRelayDemo, InterruptCurrentTask,
         MarkTaskInterrupting, MarkRelayInterrupting
    <3>2. /\ pc'[Main] \in {"clear_pending", "decline_pending"} => MayAnswer(Callers)
          /\ pc'[Main] \notin {"consume", "read_pending"}
          /\ token' \in {token, NoTrace} /\ pending' \in {pending, NoPending}
          /\ UNCHANGED <<loopPc, suggested, url>>
      BY <1>1, <2>2 DEF UserCommand, ConfirmPending, ClearPending, ClearToken, DeclinePending,
         ClearDeclined, RecordDeclined, RunRelayDemo, InterruptCurrentTask,
         MarkTaskInterrupting, MarkRelayInterrupting, deskVars
    <3> QED BY <3>1, <3>2
  <2> QED BY <2>1, <2>2
<1>2. ASSUME NEW th \in Callers, Dispatch(th)
      PROVE  /\ pc'[th] \notin {"clear_pending", "decline_pending", "consume", "read_pending"}
             /\ \A o \in Callers : o # th => pc'[o] = pc[o] /\ copy'[o] = copy[o]
             /\ UNCHANGED <<loopPc, suggested, url, token, pending>>
  <2>1. CASE SpawnTracker(th)
    <3>1. \A o \in Callers : o # Tracker(snapshot[th].session)
      OBVIOUS
    <3> QED BY <1>2, <2>1, <3>1 DEF SpawnTracker, Finishes, Dispatch, StoreConfirmedTask,
               ClearOldExecution
  <2>2. CASE ~SpawnTracker(th)
    BY <1>2, <2>2 DEF Dispatch, StoreConfirmedTask, ClearOldExecution, StartRelaySession,
       BeginSession, ConnectFails, Connected, Dispatched, DispatchFails, DispatchFailed, Finishes
  <2> QED BY <2>1, <2>2
<1> QED BY <1>1, <1>2

-----------------------------------------------------------------------------
(* Clicks keep this: the token goes to one of them.                        *)

(* The click itself: where it may decide, and what it takes. *)
LEMMA ClickOnce ==
    ASSUME TypeOK, NEW c \in Clicks, ProtocolAction(c)
    PROVE  /\ \A th \in Callers : th # Click(c) => pc'[th] = pc[th] /\ copy'[th] = copy[th]
           /\ \A d \in Clicks : d # c => url'[d] = url[d]
           /\ UNCHANGED <<loopPc, suggested>>
           /\ token' \in {token, NoTrace}
           /\ pending' \in {pending, NoPending}
           /\ \/ ClickToast(c)
              \/ ConsumeToken(c)
              \/ ConfirmByToken(c) \/ CancelByToken(c)
              \/ ~Deciding(Click(c))'
<1> USE ThreadFacts DEF TypeOK, Goes, flowUnchanged, Deciding, Forget
<1>1. CASE ClickToast(c)
  BY <1>1 DEF ClickToast, deskVars
<1>2. CASE ConsumeToken(c) \/ RejectToken(c) \/ ExpireToken(c)
  BY <1>2 DEF ConsumeToken, RejectToken, ExpireToken, deskVars
<1>3. CASE ConfirmByToken(c) \/ RejectConfirm(c) \/ CancelByToken(c)
  BY <1>3 DEF ConfirmByToken, RejectConfirm, CancelByToken, deskVars
<1>4. CASE ClearConfirmed(c) \/ ClearCancelled(c)
  BY <1>4 DEF ClearConfirmed, ClearCancelled
<1> QED BY <1>1, <1>2, <1>3, <1>4 DEF ProtocolAction

LEMMA TokensGo ==
    ASSUME TypeOK, TokenInv, token' \in {token, NoTrace}, UNCHANGED <<loopPc, suggested>>
    PROVE  TokenInv' /\ \A t \in Traces : TokenLeft(t)' => TokenLeft(t)
BY DEF TypeOK, TokenInv, TokenLeft, NoTrace, Traces

LEMMA AdmittedTrace ==
    ASSUME TypeOK, AnswerInv, NEW c \in Clicks, Deciding(Click(c)) PROVE url[c].trace \in Traces
<1>1. url[c].trace \in 1 .. suggested
  BY DEF AnswerInv, ClickInv, DecidesAlone
<1> QED BY <1>1, BoundsAssumption DEF TypeOK, Traces

LEMMA TokenStaysTaken ==
    ASSUME TypeOK, AnswerInv, NEW c \in Clicks,
           \A t \in Traces : TokenLeft(t)' => TokenLeft(t),
           \A d \in Clicks : Admitted(d)' => Admitted(d) /\ url'[d] = url[d]
    PROVE  TookToken(c)'
<1> SUFFICES ASSUME Admitted(c)'
             PROVE  /\ ~TokenLeft(url[c].trace)'
                    /\ \A d \in Clicks : Admitted(d)' /\ url'[d].trace = url'[c].trace => c = d
  BY DEF TookToken
<1>1. Admitted(c) /\ url'[c] = url[c]
  OBVIOUS
<1>2. PICK t \in Traces : t = url[c].trace
  BY <1>1, AdmittedTrace DEF Admitted, Deciding
<1>3. ~TokenLeft(t)
  BY <1>1, <1>2 DEF AnswerInv, ClickInv, TookToken
<1>4. ~TokenLeft(t)'
  BY <1>3
<1>5. ~TokenLeft(url[c].trace)'
  BY <1>1, <1>2, <1>4 DEF TokenLeft
<1>6. \A d \in Clicks : Admitted(d) /\ url[d].trace = url[c].trace => c = d
  BY <1>1 DEF AnswerInv, ClickInv, TookToken
<1> QED BY <1>1, <1>5, <1>6

LEMMA StillAlone ==
    ASSUME AnswerInv, NEW c \in Clicks, suggested \in Nat, suggested' \in Nat,
           suggested <= suggested', Deciding(Main)' => \A d \in Clicks : ~Deciding(Click(d)),
           \A d \in Clicks : Deciding(Click(d))' => Deciding(Click(d)) /\ url'[d] = url[d]
    PROVE  DecidesAlone(c)'
<1> SUFFICES ASSUME Deciding(Click(c))'
             PROVE  /\ ~Deciding(Main)'
                    /\ url'[c].trace \in 1 .. suggested' /\ url'[c].button \in Buttons
                    /\ \A d \in Clicks : Deciding(Click(d))' => url'[d] = url'[c]
  BY DEF DecidesAlone
<1>1. DecidesAlone(c) /\ Deciding(Click(c)) /\ url'[c] = url[c]
  BY DEF AnswerInv, ClickInv
<1> QED BY <1>1 DEF DecidesAlone

(* Toasts are answered one at a time, and each token is taken once. *)
LEMMA ClickInvStep ==
    ASSUME SerialAnswers, TypeOK, AnswerInv, NEW c \in Clicks, ProtocolAction(c)
    PROVE  AnswerInv'
<1> USE ThreadFacts
<1>0. TokenInv' /\ \A t \in Traces : TokenLeft(t)' => TokenLeft(t)
  BY ClickOnce, TokensGo DEF AnswerInv
<1>m. Deciding(Main)' => Deciding(Main)
  BY ClickOnce DEF Deciding
<1>n. suggested \in Nat /\ suggested' \in Nat /\ suggested <= suggested'
  BY ClickOnce DEF TypeOK
<1>o. Deciding(Main)' => \A d \in Clicks : ~Deciding(Click(d))
  BY <1>m DEF AnswerInv, ClickInv, DecidesAlone
<1>1. CASE ClickToast(c)
  <2>1. /\ \E t \in 1 .. suggested, b \in Buttons : url'[c] = [trace |-> t, button |-> b]
        /\ \A d \in Clicks : url[d] # url'[c] => ~Deciding(Click(d))
        /\ ~Deciding(Main)
        /\ pc'[Click(c)] = "consume" /\ ~Deciding(Click(c))
        /\ \A d \in Clicks : d # c => url'[d] = url[d]
        /\ \A th \in Callers : th # Click(c) => pc'[th] = pc[th] /\ copy'[th] = copy[th]
        /\ UNCHANGED <<loopPc, suggested, token>>
    BY <1>1, ClickOnce DEF ClickToast, MayAnswer, TypeOK, Goes, Deciding, deskVars
  <2>2. ASSUME NEW d \in Clicks PROVE ClickInv(d)'
    <3>1. DecidesAlone(d)'
      BY <2>1 DEF AnswerInv, ClickInv, DecidesAlone, Deciding
    <3>2. \A e \in Clicks : Admitted(e)' => Admitted(e) /\ url'[e] = url[e]
      BY <2>1 DEF Admitted, Deciding
    <3>3. CopiedOwn(d)'
      BY <2>1 DEF AnswerInv, ClickInv, CopiedOwn
    <3> QED BY <1>0, <3>1, <3>2, <3>3, TokenStaysTaken DEF ClickInv
  <2> QED BY <1>0, <2>2 DEF AnswerInv
<1>2. CASE ConsumeToken(c)
  <2>1. /\ token = url[c].trace /\ token' = NoTrace /\ pc[Click(c)] = "consume"
        /\ pc'[Click(c)] = "read_pending" /\ Deciding(Click(c))
        /\ UNCHANGED <<url, loopPc, suggested, copy>>
        /\ \A th \in Callers : th # Click(c) => pc'[th] = pc[th]
    BY <1>2, ClickOnce DEF ConsumeToken, TypeOK, Goes, Deciding, flowUnchanged
  <2>2. url[c].trace \in 1 .. suggested
    BY <2>1 DEF AnswerInv, ClickInv, DecidesAlone
  <2>3. ~TokenLeft(url[c].trace)'
    BY <2>1, <2>2 DEF TokenLeft, AnswerInv, TokenInv, NoTrace, TypeOK
  <2>4. \A e \in Clicks : Admitted(e) => url[e].trace # url[c].trace
    BY <2>1 DEF AnswerInv, ClickInv, TookToken, TokenLeft
  <2>5. ASSUME NEW d \in Clicks PROVE ClickInv(d)'
    <3>1. \A e \in Clicks : Deciding(Click(e))' => Deciding(Click(e)) /\ url'[e] = url[e]
      BY <2>1 DEF Deciding
    <3>2. DecidesAlone(d)'
      BY <1>n, <1>o, <3>1, StillAlone
    <3>3. \A e \in Clicks : Admitted(e)' => e = c \/ Admitted(e)
      BY <2>1 DEF Admitted, Deciding
    <3>4. TookToken(d)'
      <4> SUFFICES ASSUME Admitted(d)'
                   PROVE  /\ ~TokenLeft(url[d].trace)'
                          /\ \A e \in Clicks :
                                Admitted(e)' /\ url'[e].trace = url'[d].trace => d = e
        BY DEF TookToken
      <4>1. CASE d = c
        <5>1. ~TokenLeft(url[d].trace)'
          BY <2>3, <4>1
        <5> QED BY <2>1, <2>4, <3>3, <4>1, <5>1
      <4>2. CASE d # c
        <5>1. Admitted(d) /\ TookToken(d)
          BY <3>3, <4>2 DEF AnswerInv, ClickInv
        <5>2. PICK t \in Traces : t = url[d].trace
          BY <5>1, AdmittedTrace DEF Admitted, Deciding
        <5>3. ~TokenLeft(t)'
          BY <1>0, <5>1, <5>2 DEF TookToken
        <5>4. ~TokenLeft(url[d].trace)'
          BY <2>1, <5>2, <5>3 DEF TokenLeft
        <5> QED BY <2>1, <2>4, <3>3, <5>1, <5>4 DEF TookToken
      <4> QED BY <4>1, <4>2
    <3>5. CopiedOwn(d)'
      BY <2>1 DEF AnswerInv, ClickInv, CopiedOwn
    <3> QED BY <3>2, <3>4, <3>5 DEF ClickInv
  <2> QED BY <1>0, <2>5 DEF AnswerInv
<1>3. CASE ConfirmByToken(c) \/ CancelByToken(c)
  <2>1. /\ pc[Click(c)] = "read_pending" /\ pc'[Click(c)] = "clear_pending"
        /\ UNCHANGED <<url, loopPc, suggested, token>>
        /\ copy'[Click(c)] = pending.trace
        /\ url[c].button = "confirm" => pending.trace = url[c].trace
        /\ \A th \in Callers : th # Click(c) => pc'[th] = pc[th] /\ copy'[th] = copy[th]
    BY <1>3, ClickOnce DEF ConfirmByToken, CancelByToken, TypeOK, Goes, flowUnchanged, deskVars,
                           Buttons
  <2>2. ASSUME NEW d \in Clicks PROVE ClickInv(d)'
    <3>1. \A e \in Clicks : Deciding(Click(e))' => Deciding(Click(e)) /\ url'[e] = url[e]
      BY <2>1 DEF Deciding
    <3>2. \A e \in Clicks : Admitted(e)' => Admitted(e) /\ url'[e] = url[e]
      BY <2>1 DEF Admitted, Deciding
    <3>3. CopiedOwn(d)'
      BY <2>1 DEF AnswerInv, ClickInv, CopiedOwn
    <3> QED BY <1>0, <1>n, <1>o, <3>1, <3>2, <3>3, TokenStaysTaken, StillAlone DEF ClickInv
  <2> QED BY <1>0, <2>2 DEF AnswerInv
<1>4. CASE ~Deciding(Click(c))'
  <2>1. /\ \A th \in Callers : th # Click(c) => pc'[th] = pc[th] /\ copy'[th] = copy[th]
        /\ \A d \in Clicks : d # c => url'[d] = url[d]
        /\ UNCHANGED <<loopPc, suggested>>
    BY ClickOnce
  <2>2. ASSUME NEW d \in Clicks PROVE ClickInv(d)'
    <3>1. \A e \in Clicks : Deciding(Click(e))' => Deciding(Click(e)) /\ url'[e] = url[e]
      BY <1>4, <2>1 DEF Deciding
    <3>2. \A e \in Clicks : Admitted(e)' => Admitted(e) /\ url'[e] = url[e]
      BY <1>4, <2>1 DEF Deciding, Admitted
    <3>3. CopiedOwn(d)'
      BY <1>4, <2>1 DEF Deciding, AnswerInv, ClickInv, CopiedOwn
    <3> QED BY <1>0, <1>n, <1>o, <3>1, <3>2, <3>3, TokenStaysTaken, StillAlone DEF ClickInv
  <2> QED BY <1>0, <2>2 DEF AnswerInv
<1> QED BY <1>1, <1>2, <1>3, <1>4, ClickOnce

LEMMA AnswerInvStep ==
    ASSUME SerialAnswers, TypeOK, AnswerInv, [Next]_vars
    PROVE  AnswerInv'
<1> USE ThreadFacts
<1>0. suggested \in Nat
  BY DEF TypeOK
<1>1. CASE ObservationLoop \/ Age
  <2>1. /\ UNCHANGED <<pc, copy, url>> /\ TokenInv' /\ suggested <= suggested'
        /\ suggested' \in Nat
        /\ \A t \in Traces : TokenLeft(t)' => TokenLeft(t)
    BY <1>1, LoopOnce DEF AnswerInv
  <2>2. ASSUME NEW c \in Clicks PROVE ClickInv(c)'
    <3>1. \A th : Deciding(th)' <=> Deciding(th)
      BY <2>1 DEF Deciding
    <3>2. \A d : Admitted(d)' <=> Admitted(d)
      BY <2>1 DEF Admitted, Deciding
    <3>3. Deciding(Main)' => \A d \in Clicks : ~Deciding(Click(d))
      BY <3>1 DEF AnswerInv, ClickInv, DecidesAlone
    <3>4. CopiedOwn(c)'
      BY <2>1 DEF AnswerInv, ClickInv, CopiedOwn
    <3> QED BY <1>0, <2>1, <3>1, <3>2, <3>3, <3>4, TokenStaysTaken, StillAlone DEF ClickInv
  <2> QED BY <2>1, <2>2 DEF AnswerInv
<1>2. CASE UserCommand \/ \E th \in Callers : Dispatch(th)
  <2>1. TokenInv' /\ \A t \in Traces : TokenLeft(t)' => TokenLeft(t)
    BY <1>2, DecidingBegins, TokensGo DEF AnswerInv
  <2>2. UNCHANGED <<url, suggested>>
    BY <1>2, DecidingBegins
  <2>3. ASSUME NEW c \in Clicks PROVE ClickInv(c)'
    <3>1. \A d \in Clicks : Deciding(Click(d))' => Deciding(Click(d)) /\ pc'[Click(d)] = pc[Click(d)]
      BY <1>2, DecidingBegins
    <3>2. Deciding(Main)' => \A d \in Clicks : ~Deciding(Click(d))
      BY <1>2, DecidingBegins DEF MayAnswer, AnswerInv, ClickInv, DecidesAlone
    <3>3. \A d \in Clicks : Admitted(d)' => Admitted(d)
      BY <3>1 DEF Admitted, Deciding
    <3>4. CopiedOwn(c)'
      BY <1>2, <2>2, <3>1, DecidingBegins DEF Deciding, AnswerInv, ClickInv, CopiedOwn
    <3> QED BY <1>0, <2>1, <2>2, <3>1, <3>2, <3>3, <3>4, TokenStaysTaken, StillAlone
            DEF ClickInv
  <2> QED BY <2>1, <2>3 DEF AnswerInv
<1>3. CASE \E c \in Clicks : ProtocolAction(c)
  BY <1>3, ClickInvStep
<1>4. CASE (Bridge /\ flowUnchanged) \/ UNCHANGED vars
  <2>1. UNCHANGED <<token, loopPc, suggested, url>>
    BY <1>4 DEF Bridge, TrackRelaySession, Subscribed, SubscriptionFails, ReceiveProgress,
       ReceiveTerminal, FetchResult, FinishPublishing, FinishPublish, InterruptSession,
       InterruptRefused, InterruptAccepted, InterruptFails, InterruptOk, InterruptError,
       EngineEnds, flowUnchanged, vars, deskVars
  <2>2. \A th \in Callers : /\ copy'[th] = copy[th]
                            /\ pc'[th] = pc[th] \/ (th = Main /\ ~Deciding(th)')
    <3>0. pc \in [Threads -> Places]
      BY DEF TypeOK
    <3>1. ASSUME NEW s \in Sessions, TrackRelaySession(s)
          PROVE  copy' = copy /\ \A th \in Callers : pc'[th] = pc[th]
      <4>1. /\ copy' = copy
            /\ \E to \in Places : pc' = [pc EXCEPT ![Tracker(s)] = to]
        BY <3>1 DEF TrackRelaySession, Subscribed, SubscriptionFails, ReceiveProgress,
           ReceiveTerminal, FetchResult, Goes, Places, TrackerPlaces
      <4>2. \A th \in Callers : th # Tracker(s)
        OBVIOUS
      <4> QED BY <3>0, <4>1, <4>2
    <3>2. ASSUME InterruptSession
          PROVE  copy' = copy /\ \A th \in Callers : pc'[th] = pc[th] \/ (th = Main /\ ~Deciding(th)')
      BY <3>0, <3>2 DEF InterruptSession, InterruptRefused, InterruptAccepted, InterruptFails,
         InterruptOk, InterruptError, Deciding, Goes
    <3>3. ASSUME NEW th \in Threads, FinishPublishing(th) PROVE copy' = copy /\ pc' = pc
      BY <3>3 DEF FinishPublishing, bridgeVars
    <3>4. ASSUME NEW s \in Sessions, EngineEnds(s) PROVE copy' = copy /\ pc' = pc
      BY <3>4 DEF EngineEnds
    <3>5. UNCHANGED vars => copy' = copy /\ pc' = pc
      BY DEF vars, bridgeVars
    <3> QED BY <1>4, <3>1, <3>2, <3>3, <3>4, <3>5 DEF Bridge
  <2>3. ASSUME NEW c \in Clicks PROVE ClickInv(c)'
    <3>1. \A d \in Clicks : pc'[Click(d)] = pc[Click(d)] /\ copy'[Click(d)] = copy[Click(d)]
      BY <2>2
    <3>2. Deciding(Main)' => Deciding(Main)
      BY <2>2 DEF Deciding
    <3>3. \A d \in Clicks : Deciding(Click(d))' <=> Deciding(Click(d))
      BY <3>1 DEF Deciding
    <3>4. \A d \in Clicks : Admitted(d)' <=> Admitted(d)
      BY <3>1 DEF Admitted, Deciding
    <3>5. Deciding(Main)' => \A d \in Clicks : ~Deciding(Click(d))
      BY <3>2 DEF AnswerInv, ClickInv, DecidesAlone
    <3>6. CopiedOwn(c)'
      BY <2>1, <3>1 DEF AnswerInv, ClickInv, CopiedOwn
    <3>7. \A t \in Traces : TokenLeft(t)' => TokenLeft(t)
      BY <2>1 DEF TokenLeft
    <3> QED BY <1>0, <2>1, <3>3, <3>4, <3>5, <3>6, <3>7, TokenStaysTaken, StillAlone
            DEF ClickInv
  <2> QED BY <2>1, <2>3 DEF AnswerInv, TokenInv
<1> QED BY <1>1, <1>2, <1>3, <1>4 DEF Next

-----------------------------------------------------------------------------
(* Who holds a suggestion: the caller that read it and has not finished    *)
(* with it.  A click that cancels holds only the suggestion of its own     *)
(* toast.                                                                  *)

HeldPlaces == {"decline_pending", "clear_token", "decline_token", "store_task",
               "clear_execution", "begin_session", "connect", "dispatch", "spawn",
               "dispatch_failed"}

Held(th, t) ==
    /\ copy[th] = t
    /\ \/ pc[th] \in HeldPlaces
       \/ /\ pc[th] = "clear_pending"
          /\ \A c \in Clicks : th = Click(c) => url[c].trace = t

\* the holder has not recorded the answer yet
Undecided(th) ==
    \/ pc[th] \in {"decline_pending", "clear_token", "decline_token"}
    \/ /\ pc[th] = "clear_pending"
       /\ \A c \in Clicks : th = Click(c) => url[c].button = "cancel"

Sessionless(t) == \A s \in Sessions : engine[s].trace # t
OneSession(t) == \A r, s \in Sessions : engine[r].trace = t /\ engine[s].trace = t => r = s
OneAnswer(t) == ~({"confirmed", "cancelled"} \subseteq answers[t])

HeldRightly(th, t) ==
    /\ Born(t)
    /\ pc[th] \notin {"clear_pending", "decline_pending"} => pending.trace # t
    /\ answers[t] = (IF Undecided(th) THEN {} ELSE {"confirmed"})
    /\ pc[th] \notin {"spawn", "dispatch_failed"} => Sessionless(t)

HolderOf(th, t) ==
    Held(th, t) => HeldRightly(th, t) /\ \A o \in Callers : Held(o, t) => o = th

Untouched(t) ==
    PendingLeft(t) /\ (\A th \in Callers : ~Held(th, t)) => answers[t] = {} /\ Sessionless(t)

TraceInv(t) ==
    /\ \A th \in Callers : HolderOf(th, t)
    /\ Untouched(t)
    /\ OneSession(t)
    /\ OneAnswer(t)

PendingBorn == pending.trace # NoTrace => Born(pending.trace)

\* what a step does to the suggestion t apart from the step's own caller
PendingOnce(t) ==
    /\ Born(t) => Born(t)'
    /\ PendingLeft(t)' => PendingLeft(t)
    /\ Born(t) /\ pending'.trace = t => pending.trace = t

OthersSame(th) ==
    /\ \A o \in Callers : o # th => pc'[o] = pc[o] /\ copy'[o] = copy[o]
    /\ \A c \in Clicks : Click(c) # th => url'[c] = url[c]

SessionsSame(t) == \A s \in Sessions : engine'[s].trace = t <=> engine[s].trace = t

LEMMA OthersHold ==
    ASSUME NEW th, NEW t, OthersSame(th)
    PROVE  \A o \in Callers : o # th => /\ Held(o, t)' <=> Held(o, t)
                                        /\ Undecided(o)' <=> Undecided(o)
BY ThreadFacts DEF OthersSame, Held, Undecided

\* The caller neither held the suggestion nor holds it now.
LEMMA BystanderKeepsTrace ==
    ASSUME NEW t \in Traces, TraceInv(t), NEW th, OthersSame(th), PendingOnce(t),
           th \in Callers => ~Held(th, t) /\ ~Held(th, t)',
           answers'[t] = answers[t], SessionsSame(t)
    PROVE  TraceInv(t)'
<1>1. \A o \in Callers : Held(o, t)' <=> Held(o, t)
  BY OthersHold
<1>2. Sessionless(t)' <=> Sessionless(t)
  BY DEF SessionsSame, Sessionless
<1>3. ASSUME NEW o \in Callers PROVE HolderOf(o, t)'
  <2> SUFFICES ASSUME Held(o, t)' PROVE HeldRightly(o, t)' /\ \A p \in Callers : Held(p, t)' => p = o
    BY DEF HolderOf
  <2>1. Held(o, t) /\ o # th
    BY <1>1
  <2>2. HeldRightly(o, t) /\ \A p \in Callers : Held(p, t) => p = o
    BY <2>1 DEF TraceInv, HolderOf
  <2>3. pc'[o] = pc[o] /\ (Undecided(o)' <=> Undecided(o))
    BY <2>1, OthersHold DEF OthersSame
  <2>4. HeldRightly(o, t)'
    BY <1>2, <2>2, <2>3 DEF HeldRightly, PendingOnce
  <2> QED BY <1>1, <2>2, <2>4
<1>4. Untouched(t)'
  BY <1>1, <1>2 DEF TraceInv, Untouched, PendingOnce
<1>5. OneSession(t)' /\ OneAnswer(t)'
  BY DEF TraceInv, OneSession, OneAnswer, SessionsSame
<1> QED BY <1>3, <1>4, <1>5 DEF TraceInv

\* The caller holds the suggestion, alone, before or after the step.
LEMMA HolderKeepsTrace ==
    ASSUME NEW t \in Traces, TraceInv(t), NEW th \in Callers, OthersSame(th),
           \A o \in Callers : o # th => ~Held(o, t),
           Held(th, t)' => HeldRightly(th, t)',
           ~Held(th, t)' => ~PendingLeft(t)',
           OneSession(t)', OneAnswer(t)'
    PROVE  TraceInv(t)'
<1>1. \A o \in Callers : o # th => ~Held(o, t)'
  BY OthersHold
<1>2. \A o \in Callers : HolderOf(o, t)'
  BY <1>1 DEF HolderOf
<1>3. Untouched(t)'
  BY DEF Untouched
<1> QED BY <1>2, <1>3 DEF TraceInv

LEMMA HeldAlone ==
    ASSUME NEW t, TraceInv(t), NEW th \in Callers, Held(th, t)
    PROVE  HeldRightly(th, t) /\ \A o \in Callers : o # th => ~Held(o, t)
BY DEF TraceInv, HolderOf

\* Outside the loop a suggestion is only taken away.
LEMMA PendingGoes ==
    ASSUME TypeOK, NEW t \in Traces, UNCHANGED <<loopPc, suggested>>,
           pending' \in {pending, NoPending}
    PROVE  PendingOnce(t)
BY DEF TypeOK, PendingOnce, PendingLeft, Born, NoPending, NoTrace, Traces

-----------------------------------------------------------------------------
(* Each suggestion has one holder at most, and is answered by it alone.    *)

SuggestionInv ==
    /\ ConfirmInv
    /\ AnswerInv
    /\ PendingBorn
    /\ \A t \in Traces : TraceInv(t)

LEMMA InitSuggestion == Init => SuggestionInv
<1> SUFFICES ASSUME Init PROVE SuggestionInv
  OBVIOUS
<1>1. \A th \in Callers : pc[th] = "idle"
  BY ThreadFacts DEF Init, BridgeInit
<1>2. \A s \in Sessions : engine[s].trace = NoTrace
  BY DEF Init, BridgeInit, NoEngineSession
<1>3. PendingBorn /\ \A t \in Traces : answers[t] = {}
  BY DEF Init, DeskInit, NoPending, PendingBorn
<1>4. ASSUME NEW t \in Traces PROVE TraceInv(t)
  <2>1. \A th \in Callers : ~Held(th, t)
    BY <1>1 DEF Held, HeldPlaces
  <2>2. Sessionless(t) /\ OneSession(t)
    BY <1>2 DEF Sessionless, OneSession, Traces, NoTrace
  <2> QED BY <1>3, <2>1, <2>2 DEF TraceInv, HolderOf, Untouched, OneAnswer
<1> QED BY <1>3, <1>4, InitConfirm, InitAnswer DEF SuggestionInv

\* The loop and the passing minutes answer nothing.
LEMMA LoopTrace ==
    ASSUME SuggestionInv, NEW t \in Traces, ObservationLoop \/ Age PROVE TraceInv(t)'
<1>1. TypeOK /\ TraceInv(t)
  BY DEF SuggestionInv, ConfirmInv
<1>2. UNCHANGED <<pc, copy, engine, url, answers>> /\ PendingOnce(t)
  BY <1>1, LoopOnce DEF PendingOnce
<1>3. OthersSame(Tracker(0)) /\ Tracker(0) \notin Callers /\ SessionsSame(t)
  BY <1>2, ThreadFacts DEF OthersSame, SessionsSame
<1> QED BY <1>1, <1>2, <1>3, BystanderKeepsTrace

\* What the engine accepts for one suggestion is nothing to another.
LEMMA AcceptFacts ==
    ASSUME TypeOK, NEW th, NEW s \in Sessions, Accepts(s, th), NEW t \in Traces
    PROVE  /\ copy[th] # t => SessionsSame(t)
           /\ Sessionless(t) => OneSession(t)'
<1>1. /\ engine[s].trace = NoTrace
      /\ \A r \in Sessions : engine'[r].trace = (IF r = s THEN copy[th] ELSE engine[r].trace)
  BY DEF TypeOK, Accepts, NoEngineSession
<1> QED BY <1>1 DEF SessionsSame, Sessionless, OneSession, Traces, NoTrace

\* A dispatch goes on with the suggestion its thread holds.
LEMMA DispatchTrace ==
    ASSUME SuggestionInv, NEW t \in Traces, NEW th \in Callers, Dispatch(th) PROVE TraceInv(t)'
<1> USE ThreadFacts DEF Goes, flowUnchanged
<1>0. TypeOK /\ TraceInv(t) /\ pc \in [Threads -> Places]
      /\ copy \in [Callers -> Traces \cup {NoTrace}]
  BY DEF SuggestionInv, ConfirmInv, TypeOK
<1>1. /\ UNCHANGED <<answers, pending, loopPc, suggested, url>>
      /\ OthersSame(th)
      /\ copy'[th] \in {copy[th], NoTrace}
      /\ pc[th] \in DispatchPlaces
  <2>1. CASE SpawnTracker(th) /\ flowUnchanged
    <3>1. \A o \in Callers : o # Tracker(snapshot[th].session)
      OBVIOUS
    <3> QED BY <1>0, <2>1, <3>1 DEF SpawnTracker, Finishes, OthersSame, DispatchPlaces
  <2>2. CASE (Dispatched(th) \/ DispatchFails(th) \/ DispatchFailed(th)) /\ flowUnchanged
    BY <1>0, <2>2 DEF Dispatched, DispatchFails, DispatchFailed, Finishes, OthersSame, DispatchPlaces
  <2>3. CASE (BeginSession(th) \/ ConnectFails(th) \/ Connected(th)) /\ flowUnchanged
    BY <1>0, <2>3 DEF BeginSession, ConnectFails, Connected, OthersSame, DispatchPlaces
  <2>4. CASE StoreConfirmedTask(th) \/ ClearOldExecution(th)
    BY <1>0, <2>4 DEF StoreConfirmedTask, ClearOldExecution, OthersSame, DispatchPlaces
  <2> QED BY <2>1, <2>2, <2>3, <2>4 DEF Dispatch, StartRelaySession
<1>2. PendingOnce(t)
  BY <1>0, <1>1, PendingGoes
<1>3. CASE copy[th] # t
  <2>1. ~Held(th, t) /\ ~Held(th, t)'
    BY <1>1, <1>3 DEF Held, NoTrace, Traces
  <2>2. SessionsSame(t)
    <3>1. UNCHANGED engine \/ \E s \in Sessions : Accepts(s, th)
      BY DEF Dispatch, StartRelaySession, StoreConfirmedTask, ClearOldExecution, BeginSession,
         ConnectFails, Connected, Dispatched, DispatchFails, SpawnTracker, DispatchFailed, Finishes
    <3> QED BY <1>0, <1>3, <3>1, AcceptFacts DEF SessionsSame
  <2> QED BY <1>0, <1>1, <1>2, <2>1, <2>2, BystanderKeepsTrace
<1>4. CASE copy[th] = t
  <2>1. /\ HeldRightly(th, t) /\ \A o \in Callers : o # th => ~Held(o, t)
        /\ OneSession(t) /\ OneAnswer(t)
    <3>1. Held(th, t)
      BY <1>1, <1>4 DEF Held, HeldPlaces, DispatchPlaces
    <3> QED BY <1>0, <3>1, HeldAlone DEF TraceInv
  <2>2. Born(t)' /\ pending'.trace # t /\ answers'[t] = {"confirmed"} /\ OneAnswer(t)'
    BY <1>1, <2>1 DEF HeldRightly, Undecided, DispatchPlaces, Born, OneAnswer
  <2>3. ~PendingLeft(t)'
    BY <2>2 DEF PendingLeft
  <2>4. pc'[th] \in DispatchPlaces => ~Undecided(th)'
    BY DEF Undecided, DispatchPlaces
  <2>5. CASE /\ StoreConfirmedTask(th) \/ ClearOldExecution(th) \/ BeginSession(th)
                   \/ ConnectFails(th) \/ Connected(th)
    <3>1. /\ UNCHANGED engine
          /\ pc[th] \in DispatchPlaces \ {"spawn", "dispatch_failed"}
          /\ pc'[th] \in DispatchPlaces \ {"spawn"}
      BY <1>0, <2>5 DEF StoreConfirmedTask, ClearOldExecution, BeginSession, ConnectFails,
         Connected, DispatchPlaces
    <3>2. HeldRightly(th, t)' /\ OneSession(t)'
      BY <2>1, <2>2, <2>4, <3>1 DEF HeldRightly, Sessionless, OneSession, DispatchPlaces
    <3> QED BY <1>0, <1>1, <2>1, <2>2, <2>3, <3>2, HolderKeepsTrace
  <2>6. CASE Dispatched(th) \/ DispatchFails(th)
    <3>1. /\ UNCHANGED engine \/ \E s \in Sessions : Accepts(s, th)
          /\ pc[th] = "dispatch" /\ pc'[th] \in {"spawn", "dispatch_failed"}
      BY <1>0, <2>6 DEF Dispatched, DispatchFails
    <3>2. Sessionless(t)
      BY <2>1, <3>1 DEF HeldRightly
    <3>3. OneSession(t)'
      BY <1>0, <2>1, <3>1, <3>2, AcceptFacts DEF OneSession
    <3>4. HeldRightly(th, t)'
      BY <2>2, <2>4, <3>1 DEF HeldRightly, DispatchPlaces
    <3> QED BY <1>0, <1>1, <2>1, <2>2, <2>3, <3>3, <3>4, HolderKeepsTrace
  <2>7. CASE SpawnTracker(th) \/ DispatchFailed(th)
    <3>1. UNCHANGED engine /\ copy'[th] = NoTrace
      BY <1>0, <2>7 DEF SpawnTracker, DispatchFailed, Finishes
    <3>2. OneSession(t)' /\ ~Held(th, t)'
      BY <2>1, <3>1 DEF OneSession, Held, NoTrace, Traces
    <3> QED BY <1>0, <1>1, <2>1, <2>2, <2>3, <3>2, HolderKeepsTrace
  <2> QED BY <2>5, <2>6, <2>7 DEF Dispatch, StartRelaySession
<1> QED BY <1>3, <1>4

\* Nobody has begun to answer a suggestion that is pending, or the thread that
\* did is about to take it out of the state.
LEMMA PendingIsFree ==
    ASSUME SuggestionInv, NEW t \in Traces, pending.trace = t,
           \A th \in Callers : Held(th, t) => ~Deciding(th)
    PROVE  /\ Born(t) /\ answers[t] = {} /\ Sessionless(t) /\ OneSession(t)
           /\ \A th \in Callers : ~Held(th, t)
<1>1. TraceInv(t) /\ Born(t)
  BY DEF SuggestionInv, PendingBorn, NoTrace, Traces
<1>2. ASSUME NEW th \in Callers, Held(th, t) PROVE FALSE
  <2>1. HeldRightly(th, t)
    BY <1>1, <1>2, HeldAlone
  <2> QED BY <1>2, <2>1 DEF HeldRightly, Deciding
<1> QED BY <1>1, <1>2 DEF TraceInv, Untouched, PendingLeft

\* A caller that has just taken a suggestion holds it rightly.
LEMMA TakenRightly ==
    ASSUME SuggestionInv, NEW t \in Traces, pending.trace = t, NEW th \in Callers, OthersSame(th),
           UNCHANGED <<pending, engine, loopPc, suggested>>,
           \A o \in Callers : Held(o, t) => ~Deciding(o),
           Held(th, t)', pc'[th] \in {"clear_pending", "decline_pending"},
           answers'[t] = IF Undecided(th)' THEN {} ELSE {"confirmed"}
    PROVE  TraceInv(t)'
<1>1. /\ Born(t) /\ answers[t] = {} /\ Sessionless(t) /\ OneSession(t)
      /\ \A o \in Callers : ~Held(o, t)
  BY PendingIsFree
<1>2. Born(t)' /\ Sessionless(t)' /\ OneSession(t)'
  BY <1>1 DEF Born, Sessionless, OneSession
<1>3. HeldRightly(th, t)'
  BY <1>2 DEF HeldRightly
<1>4. OneAnswer(t)'
  BY DEF OneAnswer
<1>5. TraceInv(t)
  BY DEF SuggestionInv
<1> QED BY <1>1, <1>2, <1>3, <1>4, <1>5, HolderKeepsTrace

\* The user's commands, one at a time: an answer given on the main thread.
LEMMA UserTrace ==
    ASSUME SerialAnswers, SuggestionInv, NEW t \in Traces, UserCommand PROVE TraceInv(t)'
<1> USE ThreadFacts DEF Goes, flowUnchanged
<1>0. TypeOK /\ TraceInv(t) /\ pc \in [Threads -> Places]
      /\ copy \in [Callers -> Traces \cup {NoTrace}] /\ answers \in [Traces -> SUBSET {"confirmed", "cancelled"}]
      /\ t # NoTrace
  BY DEF SuggestionInv, ConfirmInv, TypeOK, Traces, NoTrace
<1>1. UNCHANGED <<engine, url, loopPc, suggested>> /\ OthersSame(Main) /\ pending' \in {pending, NoPending}
  <2>1. CASE SetRunning
    BY <2>1 DEF SetRunning, bridgeVars, OthersSame
  <2>2. CASE ConfirmPending \/ ClearPending \/ ClearToken
    BY <1>0, <2>2 DEF ConfirmPending, ClearPending, ClearToken, deskVars, OthersSame
  <2>3. CASE DeclinePending \/ ClearDeclined \/ RecordDeclined
    BY <1>0, <2>3 DEF DeclinePending, ClearDeclined, RecordDeclined, deskVars, OthersSame
  <2>4. CASE \/ RunRelayDemo \/ InterruptCurrentTask \/ MarkTaskInterrupting
             \/ MarkRelayInterrupting
    BY <1>0, <2>4 DEF RunRelayDemo, InterruptCurrentTask, MarkTaskInterrupting,
       MarkRelayInterrupting, deskVars, OthersSame
  <2> QED BY <2>1, <2>2, <2>3, <2>4 DEF UserCommand
<1>2. PendingOnce(t) /\ SessionsSame(t)
  BY <1>0, <1>1, PendingGoes DEF SessionsSame
<1>3. CASE \/ SetRunning \/ RunRelayDemo
           \/ InterruptCurrentTask \/ MarkTaskInterrupting \/ MarkRelayInterrupting
  <2>1. CASE SetRunning
    <3>1. ~(Tracker(0) \in Callers) /\ OthersSame(Tracker(0)) /\ answers' = answers
      BY <2>1 DEF SetRunning, bridgeVars, OthersSame
    <3> QED BY <1>0, <1>2, <3>1, BystanderKeepsTrace
  <2>2. CASE ~SetRunning
    <3>1. /\ pc[Main] \in NoAnswerPlaces /\ copy' = copy /\ answers' = answers
      BY <1>3, <2>2 DEF RunRelayDemo, InterruptCurrentTask, MarkTaskInterrupting,
         MarkRelayInterrupting, deskVars, NoAnswerPlaces, Gives
    <3>2. copy[Main] = NoTrace
      BY <3>1 DEF SuggestionInv, ConfirmInv, DemoHasNoSuggestion
    <3>3. ~Held(Main, t) /\ ~Held(Main, t)'
      BY <1>0, <3>1, <3>2 DEF Held
    <3> QED BY <1>0, <1>1, <1>2, <3>1, <3>3, BystanderKeepsTrace
  <2> QED BY <2>1, <2>2
<1>4. CASE ConfirmPending \/ DeclinePending
  <2>1. /\ pc[Main] = "idle" /\ UNCHANGED <<pending, answers>>
        /\ copy'[Main] = pending.trace
        /\ pc'[Main] \in {"clear_pending", "decline_pending"}
        /\ \A o \in Callers : ~Deciding(o)
    BY <1>0, <1>4 DEF ConfirmPending, DeclinePending, deskVars, MayAnswer
  <2>2. ~Held(Main, t)
    BY <2>1 DEF Held, HeldPlaces
  <2>3. CASE pending.trace # t
    <3>1. ~Held(Main, t)'
      BY <2>1, <2>3 DEF Held
    <3> QED BY <1>0, <1>1, <1>2, <2>1, <2>2, <3>1, BystanderKeepsTrace
  <2>4. CASE pending.trace = t
    <3>1. Held(Main, t)' /\ Undecided(Main)'
      BY <2>1, <2>4 DEF Held, Undecided, HeldPlaces
    <3>2. answers'[t] = {}
      BY <2>1, <2>4, PendingIsFree
    <3> QED BY <1>1, <2>1, <2>4, <3>1, <3>2, TakenRightly
  <2> QED BY <2>3, <2>4
<1>5. CASE ClearPending \/ ClearDeclined \/ ClearToken \/ RecordDeclined
  <2>1. /\ pc[Main] \in {"clear_pending", "decline_pending", "clear_token", "decline_token"}
        /\ pc'[Main] \in {"clear_token", "decline_token", "store_task", "idle"}
        /\ copy'[Main] \in {copy[Main], NoTrace}
        /\ copy[Main] # t => answers'[t] = answers[t]
    <3>1. CASE ClearPending \/ ClearDeclined
      BY <1>0, <3>1 DEF ClearPending, ClearDeclined
    <3>2. CASE ClearToken
      BY <1>0, <3>2 DEF ClearToken, RecordAnswer
    <3>3. CASE RecordDeclined
      BY <1>0, <3>3 DEF RecordDeclined, RecordAnswer
    <3> QED BY <1>5, <3>1, <3>2, <3>3
  <2>2. CASE copy[Main] # t
    <3>1. ~Held(Main, t) /\ ~Held(Main, t)'
      BY <1>0, <2>1, <2>2 DEF Held
    <3> QED BY <1>0, <1>1, <1>2, <2>1, <2>2, <3>1, BystanderKeepsTrace
  <2>3. CASE copy[Main] = t
    <3>1. Held(Main, t) /\ Undecided(Main)
      BY <2>1, <2>3 DEF Held, Undecided, HeldPlaces
    <3>2. /\ HeldRightly(Main, t) /\ \A o \in Callers : o # Main => ~Held(o, t)
          /\ OneSession(t)
      BY <1>0, <3>1, HeldAlone DEF TraceInv
    <3>3. Born(t)' /\ answers[t] = {} /\ Sessionless(t)' /\ OneSession(t)'
      BY <1>1, <2>1, <3>1, <3>2 DEF HeldRightly, Born, Sessionless, OneSession
    <3>4. pending'.trace # t
      <4>1. CASE ClearPending \/ ClearDeclined
        BY <1>0, <4>1 DEF ClearPending, ClearDeclined, NoPending
      <4>2. CASE ClearToken \/ RecordDeclined
        BY <3>2, <4>2 DEF ClearToken, RecordDeclined, HeldRightly
      <4> QED BY <1>5, <4>1, <4>2
    <3>5. ~PendingLeft(t)'
      BY <3>3, <3>4 DEF PendingLeft
    <3>6. CASE ClearPending \/ ClearDeclined
      <4>1. pc'[Main] \in {"clear_token", "decline_token"} /\ answers'[t] = {}
        BY <1>0, <3>3, <3>6 DEF ClearPending, ClearDeclined
      <4>2. HeldRightly(Main, t)' /\ OneAnswer(t)'
        BY <3>3, <3>4, <4>1 DEF HeldRightly, Undecided, OneAnswer
      <4> QED BY <1>0, <1>1, <3>2, <3>3, <3>5, <4>2, HolderKeepsTrace
    <3>7. CASE ClearToken
      <4>1. pc'[Main] = "store_task" /\ answers'[t] = {"confirmed"}
        BY <1>0, <2>3, <3>3, <3>7 DEF ClearToken, RecordAnswer
      <4>2. HeldRightly(Main, t)' /\ OneAnswer(t)'
        BY <3>3, <3>4, <4>1 DEF HeldRightly, Undecided, OneAnswer
      <4> QED BY <1>0, <1>1, <3>2, <3>3, <3>5, <4>2, HolderKeepsTrace
    <3>8. CASE RecordDeclined
      <4>1. pc'[Main] = "idle" /\ answers'[t] = {"cancelled"}
        BY <1>0, <2>3, <3>3, <3>8 DEF RecordDeclined, RecordAnswer
      <4>2. ~Held(Main, t)' /\ OneAnswer(t)'
        BY <4>1 DEF Held, HeldPlaces, OneAnswer
      <4> QED BY <1>0, <1>1, <3>2, <3>3, <3>5, <4>2, HolderKeepsTrace
    <3> QED BY <1>5, <3>6, <3>7, <3>8
  <2> QED BY <2>2, <2>3
<1> QED BY <1>3, <1>4, <1>5 DEF UserCommand

\* A click on a toast: it takes the suggestion only if the toast is its own.
LEMMA ClickTrace ==
    ASSUME SuggestionInv, NEW t \in Traces, NEW c \in Clicks, ProtocolAction(c) PROVE TraceInv(t)'
<1> DEFINE th == Click(c)
<1> USE ThreadFacts DEF Goes, flowUnchanged
<1>0. TypeOK /\ TraceInv(t) /\ pc \in [Threads -> Places] /\ th \in Callers
      /\ copy \in [Callers -> Traces \cup {NoTrace}] /\ answers \in [Traces -> SUBSET {"confirmed", "cancelled"}]
      /\ t # NoTrace /\ ClickInv(c)
      /\ url \in [Clicks -> [trace : Traces \cup {NoTrace}, button : Buttons \cup {"none"}]]
      /\ \A d \in Clicks : th = Click(d) => d = c
  BY DEF SuggestionInv, ConfirmInv, TypeOK, Traces, NoTrace, AnswerInv
<1>1. /\ UNCHANGED <<engine, loopPc, suggested>>
      /\ OthersSame(th)
      /\ pending' \in {pending, NoPending}
  <2>1. UNCHANGED engine
    BY DEF ProtocolAction, ClickToast, ConsumeToken, RejectToken, ExpireToken, ConfirmByToken,
       RejectConfirm, CancelByToken, ClearConfirmed, ClearCancelled
  <2> QED BY <1>0, <2>1, ClickOnce DEF OthersSame
<1>2. PendingOnce(t) /\ SessionsSame(t)
  BY <1>0, <1>1, PendingGoes DEF SessionsSame
<1>3. CASE \/ ClickToast(c) \/ ConsumeToken(c) \/ RejectToken(c) \/ ExpireToken(c)
           \/ RejectConfirm(c)
  <2>1. /\ pc[th] \in {"idle", "consume", "read_pending"}
        /\ pc'[th] \in {"idle", "consume", "read_pending"}
        /\ answers' = answers
    BY <1>0, <1>3 DEF ClickToast, ConsumeToken, RejectToken, ExpireToken, RejectConfirm, deskVars
  <2>2. ~Held(th, t) /\ ~Held(th, t)'
    BY <2>1 DEF Held, HeldPlaces
  <2> QED BY <1>0, <1>1, <1>2, <2>1, <2>2, BystanderKeepsTrace
<1>4. CASE ConfirmByToken(c) \/ CancelByToken(c)
  <2>1. /\ pc[th] = "read_pending" /\ pc'[th] = "clear_pending"
        /\ UNCHANGED <<pending, url>>
        /\ copy'[th] = pending.trace
        /\ pending.trace # t => answers'[t] = answers[t]
        /\ url[c].button = "cancel" => answers'[t] = answers[t]
    <3>1. CASE ConfirmByToken(c)
      BY <1>0, <3>1 DEF ConfirmByToken, RecordAnswer
    <3>2. CASE CancelByToken(c)
      BY <1>0, <3>2 DEF CancelByToken, deskVars
    <3> QED BY <1>4, <3>1, <3>2
  <2>2. ~Held(th, t)
    BY <2>1 DEF Held, HeldPlaces
  <2>3. CASE pending.trace # t
    <3>1. ~Held(th, t)'
      BY <2>1, <2>3 DEF Held, HeldPlaces
    <3> QED BY <1>0, <1>1, <1>2, <2>1, <2>2, <2>3, <3>1, BystanderKeepsTrace
  <2>4. CASE pending.trace = t /\ url[c].trace # t
    <3>1. ~Held(th, t)'
      BY <1>0, <2>1, <2>4 DEF Held, HeldPlaces
    <3>2. answers'[t] = answers[t]
      BY <1>4, <2>1, <2>4 DEF ConfirmByToken, CancelByToken
    <3> QED BY <1>0, <1>1, <1>2, <2>2, <3>1, <3>2, BystanderKeepsTrace
  <2>5. CASE pending.trace = t /\ url[c].trace = t
    <3>1. ASSUME NEW o \in Callers, Held(o, t), Deciding(o) PROVE FALSE
      <4>1. Deciding(th) /\ Admitted(c)
        BY <2>1 DEF Deciding, Admitted
      <4>2. o # Main
        BY <1>0, <3>1, <4>1 DEF ClickInv, DecidesAlone
      <4>3. PICK d \in Clicks : o = Click(d)
        BY <4>2
      <4>4. pc[o] \in {"clear_pending", "decline_pending"}
        BY <3>1 DEF Held, Deciding, HeldPlaces
      <4>5. Admitted(d) /\ url[d] = url[c]
        BY <1>0, <3>1, <4>1, <4>3, <4>4 DEF Admitted, ClickInv, DecidesAlone
      <4>6. c = d
        BY <1>0, <4>1, <4>5 DEF ClickInv, TookToken
      <4> QED BY <2>1, <4>3, <4>4, <4>6
    <3>2. Held(th, t)'
      BY <1>0, <2>1, <2>5 DEF Held
    <3>3. answers[t] = {}
      BY <2>5, <3>1, PendingIsFree
    <3>4. answers'[t] = IF Undecided(th)' THEN {} ELSE {"confirmed"}
      <4>1. Undecided(th)' <=> url[c].button = "cancel"
        BY <1>0, <2>1 DEF Undecided
      <4>2. CASE ConfirmByToken(c)
        BY <1>0, <2>5, <3>3, <4>1, <4>2 DEF ConfirmByToken, RecordAnswer
      <4>3. CASE CancelByToken(c)
        BY <2>1, <3>3, <4>1, <4>3 DEF CancelByToken
      <4> QED BY <1>4, <4>2, <4>3
    <3> QED BY <1>0, <1>1, <2>1, <2>5, <3>1, <3>2, <3>4, TakenRightly
  <2> QED BY <2>3, <2>4, <2>5
<1>5. CASE ClearConfirmed(c) \/ ClearCancelled(c)
  <2>1. /\ pc[th] = "clear_pending" /\ pending' = NoPending
        /\ pc'[th] = (IF url[c].button = "confirm" THEN "store_task" ELSE "idle")
        /\ copy'[th] = (IF url[c].button = "confirm" THEN copy[th] ELSE NoTrace)
        /\ ~(url[c].button = "cancel" /\ copy[th] = url[c].trace /\ url[c].trace = t)
              => answers'[t] = answers[t]
    BY <1>0, <1>5 DEF ClearConfirmed, ClearCancelled, RecordAnswer
  <2>2. CASE ~Held(th, t)
    <3>1. ~Held(th, t)'
      <4>1. CASE url[c].button = "confirm"
        BY <1>0, <2>1, <2>2, <4>1 DEF Held, HeldPlaces, ClickInv, CopiedOwn
      <4>2. CASE url[c].button # "confirm"
        BY <1>0, <2>1, <4>2 DEF Held
      <4> QED BY <4>1, <4>2
    <3>2. answers'[t] = answers[t]
      BY <1>0, <2>1, <2>2 DEF Held
    <3> QED BY <1>0, <1>1, <1>2, <2>2, <3>1, <3>2, BystanderKeepsTrace
  <2>3. CASE Held(th, t)
    <3>1. HeldRightly(th, t) /\ (\A o \in Callers : o # th => ~Held(o, t)) /\ OneSession(t)
      BY <1>0, <2>3, HeldAlone DEF TraceInv
    <3>2. /\ copy[th] = t /\ url[c].trace = t
          /\ Undecided(th) <=> url[c].button = "cancel"
      BY <1>0, <2>1, <2>3 DEF Held, HeldPlaces, Undecided
    <3>3. Born(t)' /\ Sessionless(t)' /\ OneSession(t)' /\ pending'.trace # t
      BY <1>0, <1>1, <2>1, <3>1 DEF HeldRightly, Born, Sessionless, OneSession, NoPending
    <3>4. ~PendingLeft(t)'
      BY <3>3 DEF PendingLeft
    <3>5. CASE ClearConfirmed(c)
      <4>1. url[c].button = "confirm" /\ pc'[th] = "store_task" /\ answers'[t] = {"confirmed"}
        BY <1>0, <2>1, <3>1, <3>2, <3>5 DEF ClearConfirmed, HeldRightly
      <4>2. HeldRightly(th, t)' /\ OneAnswer(t)'
        BY <3>3, <4>1 DEF HeldRightly, Undecided, OneAnswer
      <4> QED BY <1>0, <1>1, <3>1, <3>3, <3>4, <4>2, HolderKeepsTrace
    <3>6. CASE ClearCancelled(c)
      <4>1. answers[t] = {} /\ pc'[th] = "idle"
        BY <1>0, <2>1, <3>1, <3>2, <3>6 DEF ClearCancelled, HeldRightly
      <4>2. answers'[t] = {"cancelled"}
        BY <1>0, <3>2, <3>6, <4>1 DEF ClearCancelled, RecordAnswer
      <4>3. ~Held(th, t)' /\ OneAnswer(t)'
        BY <4>1, <4>2 DEF Held, HeldPlaces, OneAnswer
      <4> QED BY <1>0, <1>1, <3>1, <3>3, <3>4, <4>3, HolderKeepsTrace
    <3> QED BY <1>5, <3>5, <3>6
  <2> QED BY <2>2, <2>3
<1> QED BY <1>3, <1>4, <1>5 DEF ProtocolAction

\* Trackers, the engine and the interrupt call have no suggestion of their own.
LEMMA BridgeTrace ==
    ASSUME SuggestionInv, NEW t \in Traces, (Bridge /\ flowUnchanged) \/ UNCHANGED vars
    PROVE  TraceInv(t)' /\ UNCHANGED <<pending, loopPc, suggested>>
<1> USE ThreadFacts
<1>0. TypeOK /\ TraceInv(t) /\ pc \in [Threads -> Places] /\ t # NoTrace
      /\ copy \in [Callers -> Traces \cup {NoTrace}]
  BY DEF SuggestionInv, ConfirmInv, TypeOK, Traces, NoTrace
<1>1. UNCHANGED <<pending, loopPc, suggested, url, answers, copy>>
  BY DEF Bridge, TrackRelaySession, Subscribed, SubscriptionFails, ReceiveProgress,
     ReceiveTerminal, FetchResult, FinishPublishing, FinishPublish, InterruptSession,
     InterruptRefused, InterruptAccepted, InterruptFails, InterruptOk, InterruptError,
     EngineEnds, flowUnchanged, vars, deskVars, bridgeVars
<1>2. PendingOnce(t)
  BY <1>0, <1>1, PendingGoes
<1>3. \A s, st : engine' = [engine EXCEPT ![s].state = st] => SessionsSame(t)
  BY <1>0 DEF TypeOK, SessionsSame
<1>4. CASE InterruptSession
  <2>1. /\ pc[Main] \in NoAnswerPlaces
        /\ \E p \in NoAnswerPlaces : pc' = [pc EXCEPT ![Main] = p]
    BY <1>4 DEF InterruptSession, InterruptRefused, InterruptAccepted, InterruptFails,
       InterruptOk, InterruptError, NoAnswerPlaces, Goes
  <2>2. SessionsSame(t)
    BY <1>3, <1>4 DEF InterruptSession, InterruptRefused, InterruptAccepted, InterruptFails,
       InterruptOk, InterruptError, Interrupted, SessionsSame
  <2>3. copy[Main] = NoTrace
    BY <2>1 DEF SuggestionInv, ConfirmInv, DemoHasNoSuggestion
  <2>4. ~Held(Main, t) /\ ~Held(Main, t)' /\ OthersSame(Main)
    BY <1>0, <1>1, <2>1, <2>3 DEF Held, OthersSame
  <2> QED BY <1>0, <1>1, <1>2, <2>2, <2>4, BystanderKeepsTrace
<1>5. CASE ~InterruptSession
  <2>1. SessionsSame(t) /\ \A th \in Callers : pc'[th] = pc[th]
    <3>1. ASSUME NEW s \in Sessions, TrackRelaySession(s)
          PROVE  SessionsSame(t) /\ \A th \in Callers : pc'[th] = pc[th]
      <4>1. UNCHANGED engine /\ \E p : pc' = [pc EXCEPT ![Tracker(s)] = p]
        BY <3>1 DEF TrackRelaySession, Subscribed, SubscriptionFails, ReceiveProgress,
           ReceiveTerminal, FetchResult, Goes
      <4>2. \A th \in Callers : th # Tracker(s)
        OBVIOUS
      <4> QED BY <1>0, <4>1, <4>2 DEF SessionsSame
    <3>2. ASSUME NEW th \in Threads, FinishPublishing(th) PROVE pc' = pc /\ engine' = engine
      BY <3>2 DEF FinishPublishing, bridgeVars
    <3>3. ASSUME NEW s \in Sessions, EngineEnds(s) PROVE pc' = pc /\ SessionsSame(t)
      BY <1>3, <3>3 DEF EngineEnds
    <3>4. UNCHANGED vars => pc' = pc /\ engine' = engine
      BY DEF vars, bridgeVars
    <3> QED BY <1>5, <3>1, <3>2, <3>3, <3>4 DEF Bridge, SessionsSame
  <2>2. OthersSame(Tracker(0)) /\ ~(Tracker(0) \in Callers)
    BY <1>1, <2>1 DEF OthersSame
  <2> QED BY <1>0, <1>1, <1>2, <2>1, <2>2, BystanderKeepsTrace
<1> QED BY <1>1, <1>4, <1>5

-----------------------------------------------------------------------------
(* One answer, one session. *)

LEMMA PendingBornStep == ASSUME SuggestionInv, [Next]_vars PROVE PendingBorn'
<1>0. TypeOK /\ PendingBorn
  BY DEF SuggestionInv, ConfirmInv
<1>1. CASE ObservationLoop \/ Age
  <2>1. CASE StorePending
    BY <1>0, <2>1 DEF StorePending, LoopGoes, LoopOnly, PendingBorn, Born, MakingPlaces, TypeOK
  <2>2. CASE ~StorePending
    <3>1. pending'.trace \in {pending.trace, NoTrace}
      BY <1>0, <1>1, <2>2 DEF ObservationLoop, CheckWaiting, KeepWaiting, CheckRunning,
         ExpirePending, ClearExpired, NothingToSuggest, Suggest, StoreToken, ClearTask,
         ClearExecution, Age, NoPending, TypeOK
    <3>2. SUFFICES ASSUME pending'.trace # NoTrace PROVE Born(pending.trace)'
      BY DEF PendingBorn
    <3>3. PICK t \in Traces : t = pending.trace
      BY <1>0, <3>1, <3>2 DEF TypeOK
    <3>4. Born(t)'
      BY <1>0, <1>1, <3>1, <3>2, <3>3, LoopOnce DEF PendingBorn
    <3> QED BY <3>1, <3>2, <3>3, <3>4 DEF Born
  <2> QED BY <2>1, <2>2
<1>2. CASE ~(ObservationLoop \/ Age)
  <2>1. UNCHANGED <<loopPc, suggested>> /\ pending' \in {pending, NoPending}
    <3>1. CASE UserCommand \/ \E th \in Callers : Dispatch(th)
      BY <1>0, <3>1, DecidingBegins
    <3>2. CASE \E c \in Clicks : ProtocolAction(c)
      BY <1>0, <3>2, ClickOnce
    <3>3. CASE (Bridge /\ flowUnchanged) \/ UNCHANGED vars
      BY <3>3 DEF Bridge, TrackRelaySession, Subscribed, SubscriptionFails, ReceiveProgress,
         ReceiveTerminal, FetchResult, FinishPublishing, FinishPublish, InterruptSession,
         InterruptRefused, InterruptAccepted, InterruptFails, InterruptOk, InterruptError,
         EngineEnds, flowUnchanged, vars, deskVars
    <3> QED BY <1>2, <3>1, <3>2, <3>3 DEF Next
  <2> QED BY <1>0, <2>1 DEF PendingBorn, Born, NoPending
<1> QED BY <1>1, <1>2

LEMMA SuggestionStep ==
    ASSUME SerialAnswers, SuggestionInv, [Next]_vars PROVE SuggestionInv'
<1>1. ConfirmInv' /\ AnswerInv' /\ PendingBorn'
  BY ConfirmStep, AnswerInvStep, PendingBornStep DEF SuggestionInv, ConfirmInv
<1>2. ASSUME NEW t \in Traces PROVE TraceInv(t)'
  <2>1. CASE ObservationLoop \/ Age
    BY <2>1, LoopTrace
  <2>2. CASE UserCommand
    BY <2>2, UserTrace
  <2>3. CASE \E c \in Clicks : ProtocolAction(c)
    BY <2>3, ClickTrace
  <2>4. CASE \E th \in Callers : Dispatch(th)
    BY <2>4, DispatchTrace
  <2>5. CASE (Bridge /\ flowUnchanged) \/ UNCHANGED vars
    BY <2>5, BridgeTrace
  <2> QED BY <2>1, <2>2, <2>3, <2>4, <2>5 DEF Next
<1>3. \A t \in Traces : TraceInv(t)'
  BY <1>2
<1>4. (\A t \in Traces : TraceInv(t))'
  BY <1>3 DEF Traces
<1> QED BY <1>1, <1>4 DEF SuggestionInv

LEMMA SuggestionInvariant == ASSUME SerialAnswers PROVE Spec => []SuggestionInv
<1>1. SerialAnswers /\ SuggestionInv /\ [Next]_vars => SuggestionInv'
  BY SuggestionStep
<1> QED BY InitSuggestion, <1>1, PTL DEF Spec

(* One suggestion starts one session, whichever of the two channels takes  *)
(* the answer, however often the click is delivered, and whatever the      *)
(* loop stores and clears meanwhile: confirm_pending_task and              *)
(* confirm_pending_task_by_token read, clear and dispatch in steps of      *)
(* their own.                                                              *)
THEOREM OneDispatchPerSuggestion == ASSUME SerialAnswers PROVE Spec => []DispatchedOnce
<1>1. SuggestionInv => DispatchedOnce
  <2> SUFFICES ASSUME SuggestionInv, NEW r \in Sessions, NEW s \in Sessions,
                      engine[r].trace = engine[s].trace, engine[r].trace # NoTrace
               PROVE  r = s
    BY DEF DispatchedOnce
  <2>1. PICK t \in Traces : engine[r].trace = t
    BY DEF SuggestionInv, ConfirmInv, TypeOK
  <2>2. OneSession(t)
    BY DEF SuggestionInv, TraceInv
  <2> QED BY <2>1, <2>2 DEF OneSession
<1> QED BY <1>1, SuggestionInvariant, PTL

(* A suggestion that was cancelled is not confirmed later, nor the         *)
(* reverse: of the window's buttons and the toast's, one answer is         *)
(* recorded.                                                               *)
THEOREM AnswersAgree == ASSUME SerialAnswers PROVE Spec => []AnsweredOneWay
<1>1. SuggestionInv => AnsweredOneWay
  BY DEF SuggestionInv, TraceInv, OneAnswer, AnsweredOneWay
<1> QED BY <1>1, SuggestionInvariant, PTL
=============================================================================

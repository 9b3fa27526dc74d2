----------------------------- MODULE RelayBridge -----------------------------
(***************************************************************************)
(* The desktop's side of a relay session (relay_bridge.rs): a caller that  *)
(* starts a session, the thread that follows it, and the interrupt call.   *)
(* The engine is reduced to what its answers depend on, the state of each  *)
(* session (SessionLifecycle says what a client may rely on).              *)
(***************************************************************************)
EXTENDS DesktopState

VARIABLES
    pc,       \* where each thread is
    copy,     \* the suggestion each caller read and acts on
    target,   \* the session interrupt_current_task read
    engine    \* the relay engine: trace and state of each session

bridgeVars == <<pc, copy, target, engine>>

NoEngineSession == [trace |-> NoTrace, state |-> "absent"]
EngineStates == {"absent", "running"} \cup EndStates

BridgeInit ==
    /\ pc = [th \in Threads |-> "idle"]
    /\ copy = [th \in Callers |-> NoTrace]
    /\ target = NoSession
    /\ engine = [s \in Sessions |-> NoEngineSession]

Goes(th, from, to) ==
    /\ pc[th] = from
    /\ th \notin half
    /\ pc' = [pc EXCEPT ![th] = to]

PublishStatus(th, st) == Publish(th, [snapshot[th] EXCEPT !.status = st])

----------------------------------------------------------------------------
\* start_relay_session, on the thread that dispatches

BeginSession(th) ==
    /\ Goes(th, "begin_session", "connect")
    /\ Publish(th, [trace |-> copy[th], status |-> "connecting", session |-> NoSession])
    /\ UNCHANGED <<running, pending, token, execution, answers, copy, target, engine>>

\* ensure_relay_available or RelayClient::connect fails
ConnectFails(th) ==
    /\ Goes(th, "connect", "dispatch_failed")
    /\ PublishStatus(th, "connect_error")
    /\ UNCHANGED <<running, pending, token, execution, answers, copy, target, engine>>

Connected(th) ==
    /\ Goes(th, "connect", "dispatch")
    /\ PublishStatus(th, "dispatching")
    /\ UNCHANGED <<running, pending, token, execution, answers, copy, target, engine>>

\* the engine accepts the session of a dispatch request
Accepts(s, th) ==
    /\ engine[s] = NoEngineSession
    /\ \A r \in Sessions : engine[r] = NoEngineSession => s <= r
    /\ engine' = [engine EXCEPT ![s] = [trace |-> copy[th], state |-> "running"]]

Dispatched(th) ==
    /\ Goes(th, "dispatch", "spawn")
    /\ \E s \in Sessions :
          /\ Accepts(s, th)
          /\ Publish(th, [trace |-> copy[th], status |-> "running", session |-> s])
    /\ UNCHANGED <<running, pending, token, execution, answers, copy, target>>

\* the request fails, or its answer is lost after the engine accepted it
DispatchFails(th) ==
    /\ Goes(th, "dispatch", "dispatch_failed")
    /\ UNCHANGED engine \/ \E s \in Sessions : Accepts(s, th)
    /\ PublishStatus(th, "dispatch_error")
    /\ UNCHANGED <<running, pending, token, execution, answers, copy, target>>

Finishes(th) ==
    /\ copy' = [copy EXCEPT ![th] = NoTrace]
    /\ UNCHANGED <<running, pending, token, execution, answers, half, target, engine>>

SpawnTracker(th) ==
    /\ pc[th] = "spawn"
    /\ th \notin half
    /\ LET tracker == Tracker(snapshot[th].session)
       IN  /\ pc' = [pc EXCEPT ![th] = "idle", ![tracker] = "subscribe"]
           /\ snapshot' = [snapshot EXCEPT ![th] = NoExecution, ![tracker] = snapshot[th]]
    /\ Finishes(th)
    /\ UNCHANGED task

\* the three confirmation commands mark the task; run_relay_demo has none
DispatchFailed(th) ==
    /\ Goes(th, "dispatch_failed", "idle")
    /\ IF copy[th] = NoTrace THEN UNCHANGED task ELSE StoreTaskState("dispatch_error")
    /\ snapshot' = [snapshot EXCEPT ![th] = NoExecution]
    /\ Finishes(th)

StartRelaySession(th) ==
    \/ BeginSession(th) \/ ConnectFails(th) \/ Connected(th)
    \/ Dispatched(th) \/ DispatchFails(th)
    \/ SpawnTracker(th) \/ DispatchFailed(th)

----------------------------------------------------------------------------
\* track_relay_session, on a thread of its own

Subscribed(s) ==
    /\ Goes(Tracker(s), "subscribe", "receive")
    /\ UNCHANGED <<deskVars, copy, target, engine>>

\* Mutant: the thread ends without publishing that it lost the session.
SubscriptionFailsQuietly(s) ==
    /\ \E from \in {"subscribe", "receive"} : Goes(Tracker(s), from, "done")
    /\ UNCHANGED <<deskVars, copy, target, engine>>

\* no connection, no subscription, a broken stream or 120 silent seconds
SubscriptionFails(s) ==
    /\ \E from \in {"subscribe", "receive"} : Goes(Tracker(s), from, "done")
    /\ PublishStatus(Tracker(s), "subscription_error")
    /\ UNCHANGED <<running, pending, token, execution, answers, copy, target, engine>>

ReceiveProgress(s) ==
    /\ Goes(Tracker(s), "receive", "receive")
    /\ Publish(Tracker(s), snapshot[Tracker(s)])
    /\ UNCHANGED <<running, pending, token, execution, answers, copy, target, engine>>

\* Mutant: the terminal event does not change the status of the snapshot.
ReceiveTerminalIgnored(s) ==
    /\ engine[s].state \in EndStates
    /\ Goes(Tracker(s), "receive", "fetch_result")
    /\ Publish(Tracker(s), snapshot[Tracker(s)])
    /\ UNCHANGED <<running, pending, token, execution, answers, copy, target, engine>>

ReceiveTerminal(s) ==
    /\ engine[s].state \in EndStates
    /\ Goes(Tracker(s), "receive", "fetch_result")
    /\ PublishStatus(Tracker(s), engine[s].state)
    /\ UNCHANGED <<running, pending, token, execution, answers, copy, target, engine>>

\* wait_for_result: with a result, without one and after an error the same
\* status is published once more
FetchResult(s) ==
    /\ Goes(Tracker(s), "fetch_result", "done")
    /\ Publish(Tracker(s), snapshot[Tracker(s)])
    /\ UNCHANGED <<running, pending, token, execution, answers, copy, target, engine>>

TrackRelaySession(s) ==
    \/ Subscribed(s) \/ SubscriptionFails(s)
    \/ ReceiveProgress(s) \/ ReceiveTerminal(s) \/ FetchResult(s)

\* the snapshot is dropped with a thread that ends
FinishPublishing(th) ==
    /\ FinishPublish(th, IF pc[th] = "done" THEN NoExecution ELSE snapshot[th])
    /\ UNCHANGED bridgeVars

----------------------------------------------------------------------------
\* interrupt_session, called by interrupt_current_task on the main thread

\* no connection; or the session has ended, or the kill failed
InterruptRefused ==
    /\ Goes(Main, "interrupt_call", "idle")
    /\ target' = NoSession
    /\ UNCHANGED <<deskVars, copy, engine>>

Interrupted(s) == engine' = [engine EXCEPT ![s].state = "interrupted"]

InterruptAccepted ==
    /\ Goes(Main, "interrupt_call", "interrupt_ok")
    /\ engine[target].state = "running"
    /\ Interrupted(target)
    /\ UNCHANGED <<deskVars, copy, target>>

\* the request fails; the engine may have executed it
InterruptFails ==
    /\ Goes(Main, "interrupt_call", "interrupt_error")
    /\ \/ UNCHANGED engine
       \/ engine[target].state = "running" /\ Interrupted(target)
    /\ StoreRelayStatus("interrupt_error")
    /\ UNCHANGED <<running, pending, token, task, snapshot, half, answers, copy, target>>

InterruptOk ==
    /\ Goes(Main, "interrupt_ok", "idle")
    /\ StoreRelayStatus("interrupted")
    /\ target' = NoSession
    /\ UNCHANGED <<running, pending, token, task, snapshot, half, answers, copy, engine>>

\* Mutant: the task state is one that nothing else knows.
InterruptErrorMisspelt ==
    /\ Goes(Main, "interrupt_error", "idle")
    /\ StoreTaskState("interrupt-error")
    /\ target' = NoSession
    /\ UNCHANGED <<running, pending, token, execution, snapshot, half, answers, copy, engine>>

InterruptError ==
    /\ Goes(Main, "interrupt_error", "idle")
    /\ StoreTaskState("interrupt_error")
    /\ target' = NoSession
    /\ UNCHANGED <<running, pending, token, execution, snapshot, half, answers, copy, engine>>

InterruptSession ==
    \/ InterruptRefused \/ InterruptAccepted \/ InterruptFails
    \/ InterruptOk \/ InterruptError

----------------------------------------------------------------------------
\* the engine ends a session by itself
EngineEnds(s) ==
    /\ engine[s].state = "running"
    /\ \E st \in {"completed", "failed"} : engine' = [engine EXCEPT ![s].state = st]
    /\ UNCHANGED <<deskVars, pc, copy, target>>
=============================================================================

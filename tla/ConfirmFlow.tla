----------------------------- MODULE ConfirmFlow -----------------------------
(***************************************************************************)
(* From a suggestion to a relay session: the observation loop              *)
(* (main_loop.rs) that makes suggestions and lets them expire, the         *)
(* commands of the user interface on the main thread (commands.rs), and    *)
(* the clicks on toasts (main.rs, notification_manager.rs), each of which  *)
(* is processed by a task of its own.                                      *)
(***************************************************************************)
EXTENDS RelayBridge

CONSTANTS
    Commands,       \* the commands the user gives
    SerialAnswers   \* the user gives no answer while another one is being
                    \* taken; a click that is delivered twice is one answer

ASSUME CommandsAssumption ==
    /\ Commands \subseteq {"confirm", "decline", "interrupt", "demo", "start", "stop"}
    /\ SerialAnswers \in BOOLEAN

VARIABLES
    loopPc,     \* where the observation loop is
    suggested,  \* the suggestions made so far: traces 1 .. suggested
    url         \* the toast and button of each click being processed

vars == <<deskVars, bridgeVars, loopPc, suggested, url>>

flowUnchanged == UNCHANGED <<loopPc, suggested, url>>

Buttons == {"confirm", "cancel"}
NoUrl == [trace |-> NoTrace, button |-> "none"]

Init ==
    /\ DeskInit
    /\ BridgeInit
    /\ loopPc = "check"
    /\ suggested = 0
    /\ url = [c \in Clicks |-> NoUrl]

\* between reading the suggestion and taking it out of the state
Deciding(th) == pc[th] \in {"clear_pending", "decline_pending", "consume", "read_pending"}

----------------------------------------------------------------------------
\* The observation loop

LoopGoes(from, to) == loopPc = from /\ loopPc' = to

LoopOnly == UNCHANGED <<running, snapshot, half, bridgeVars, url>>

\* has_pending_confirmation, then has_active_task: with an active task alone
\* the loop sleeps, running or not
CheckWaiting ==
    /\ HasPendingConfirmation \/ ~HasActiveTask
    /\ LoopGoes("check", IF HasPendingConfirmation THEN "wait_answer" ELSE "observe")
    /\ LoopOnly
    /\ UNCHANGED <<pending, token, task, execution, answers, suggested>>

\* not running; or the suggestion is younger than 60 seconds, or gone
KeepWaiting ==
    /\ ~running \/ ~pending.old
    /\ LoopGoes("wait_answer", "check")
    /\ LoopOnly
    /\ UNCHANGED <<pending, token, task, execution, answers, suggested>>

ExpirePending ==
    /\ running /\ pending.old
    /\ LoopGoes("wait_answer", "expire_pending")
    /\ LoopOnly
    /\ UNCHANGED <<pending, token, task, execution, answers, suggested>>

CheckRunning ==
    /\ LoopGoes("observe", IF running THEN "call_model" ELSE "check")
    /\ LoopOnly
    /\ UNCHANGED <<pending, token, task, execution, answers, suggested>>

\* Mutant: the task is cleared, the expired suggestion is not.
ClearExpiredForgotten ==
    /\ LoopGoes("expire_pending", "expire_task")
    /\ LoopOnly
    /\ UNCHANGED <<pending, token, task, execution, answers, suggested>>

ClearExpired ==
    /\ LoopGoes("expire_pending", "expire_task")
    /\ pending' = NoPending
    /\ LoopOnly
    /\ UNCHANGED <<token, task, execution, answers, suggested>>

ClearTask ==
    /\ \/ LoopGoes("expire_task", "expire_execution")
       \/ LoopGoes("clear_task", "clear_execution")
    /\ task' = NoTask
    /\ LoopOnly
    /\ UNCHANGED <<pending, token, execution, answers, suggested>>

ClearExecution ==
    /\ \/ LoopGoes("expire_execution", "check")
       \/ LoopGoes("clear_execution", "store_pending")
    /\ execution' = NoExecution
    /\ LoopOnly
    /\ UNCHANGED <<pending, token, task, answers, suggested>>

\* no capture, a filtered or unchanged window, a model error, an empty text
NothingToSuggest ==
    /\ LoopGoes("call_model", "check")
    /\ LoopOnly
    /\ UNCHANGED <<pending, token, task, execution, answers, suggested>>

\* the toast of a new suggestion is shown, or cannot be shown
Suggest ==
    /\ suggested < MaxSuggestions
    /\ suggested' = suggested + 1
    /\ LoopGoes("call_model", "store_token") \/ LoopGoes("call_model", "clear_task")
    /\ LoopOnly
    /\ UNCHANGED <<pending, token, task, execution, answers>>

StoreToken ==
    /\ LoopGoes("store_token", "clear_task")
    /\ token' = suggested
    /\ LoopOnly
    /\ UNCHANGED <<pending, task, execution, answers, suggested>>

StorePending ==
    /\ LoopGoes("store_pending", "check")
    /\ pending' = [trace |-> suggested, old |-> FALSE]
    /\ LoopOnly
    /\ UNCHANGED <<token, task, execution, answers, suggested>>

ObservationLoop ==
    \/ CheckWaiting \/ KeepWaiting \/ CheckRunning
    \/ ExpirePending \/ ClearExpired
    \/ NothingToSuggest \/ Suggest \/ StoreToken
    \/ ClearTask \/ ClearExecution \/ StorePending

\* a minute passes
Age ==
    /\ HasPendingConfirmation /\ ~pending.old
    /\ pending' = [pending EXCEPT !.old = TRUE]
    /\ UNCHANGED <<running, token, task, execution, snapshot, half, answers, bridgeVars>>
    /\ flowUnchanged

----------------------------------------------------------------------------
\* Commands on the main thread, one at a time

MayAnswer(others) == SerialAnswers => \A th \in others : ~Deciding(th)

Gives(command) == command \in Commands /\ pc[Main] = "idle"

\* start_running, stop_running, the tray menu and the toggle of the mini window
SetRunning ==
    /\ \/ Gives("start") /\ running' = TRUE
       \/ Gives("stop") /\ running' = FALSE
    /\ UNCHANGED <<pending, token, task, execution, snapshot, half, answers, bridgeVars>>
    /\ flowUnchanged

\* confirm_pending_task; the copy says that it is no cancellation
ConfirmPending ==
    /\ Gives("confirm")
    /\ MayAnswer(Callers)
    /\ HasPendingConfirmation
    /\ Goes(Main, "idle", "clear_pending")
    /\ copy' = [copy EXCEPT ![Main] = pending.trace]
    /\ UNCHANGED <<deskVars, target, engine>>
    /\ flowUnchanged

ClearPending ==
    /\ Goes(Main, "clear_pending", "clear_token")
    /\ pending' = NoPending
    /\ UNCHANGED <<running, token, task, execution, snapshot, half, answers, copy, target, engine>>
    /\ flowUnchanged

ClearToken ==
    /\ Goes(Main, "clear_token", "store_task")
    /\ token' = NoTrace
    /\ RecordAnswer(copy[Main], "confirmed")
    /\ UNCHANGED <<running, pending, task, execution, snapshot, half, copy, target, engine>>
    /\ flowUnchanged

\* cancel_pending_task and dismiss_pending_task, also when nothing is pending
DeclinePending ==
    /\ Gives("decline")
    /\ MayAnswer(Callers)
    /\ Goes(Main, "idle", "decline_pending")
    /\ copy' = [copy EXCEPT ![Main] = pending.trace]
    /\ UNCHANGED <<deskVars, target, engine>>
    /\ flowUnchanged

\* Mutant: only the notification is cleared.
ClearDeclinedForgotten ==
    /\ Goes(Main, "decline_pending", "decline_token")
    /\ UNCHANGED <<deskVars, copy, target, engine>>
    /\ flowUnchanged

ClearDeclined ==
    /\ Goes(Main, "decline_pending", "decline_token")
    /\ pending' = NoPending
    /\ UNCHANGED <<running, token, task, execution, snapshot, half, answers, copy, target, engine>>
    /\ flowUnchanged

RecordDeclined ==
    /\ Goes(Main, "decline_token", "idle")
    /\ token' = NoTrace
    /\ IF copy[Main] = NoTrace THEN UNCHANGED answers ELSE RecordAnswer(copy[Main], "cancelled")
    /\ copy' = [copy EXCEPT ![Main] = NoTrace]
    /\ UNCHANGED <<running, pending, task, execution, snapshot, half, target, engine>>
    /\ flowUnchanged

\* run_relay_demo: a session that belongs to no suggestion
RunRelayDemo ==
    /\ Gives("demo")
    /\ Goes(Main, "idle", "begin_session")
    /\ UNCHANGED <<deskVars, copy, target, engine>>
    /\ flowUnchanged

\* interrupt_current_task
InterruptCurrentTask ==
    /\ Gives("interrupt")
    /\ execution.session # NoSession
    /\ Goes(Main, "idle", "interrupt_task")
    /\ target' = execution.session
    /\ UNCHANGED <<deskVars, copy, engine>>
    /\ flowUnchanged

MarkTaskInterrupting ==
    /\ Goes(Main, "interrupt_task", "interrupt_execution")
    /\ StoreTaskState("interrupting")
    /\ UNCHANGED <<running, pending, token, execution, snapshot, half, answers, copy, target, engine>>
    /\ flowUnchanged

MarkRelayInterrupting ==
    /\ Goes(Main, "interrupt_execution", "interrupt_call")
    /\ StoreRelayStatus("interrupting")
    /\ UNCHANGED <<running, pending, token, task, snapshot, half, answers, copy, target, engine>>
    /\ flowUnchanged

UserCommand ==
    \/ SetRunning
    \/ ConfirmPending \/ ClearPending \/ ClearToken
    \/ DeclinePending \/ ClearDeclined \/ RecordDeclined
    \/ RunRelayDemo
    \/ InterruptCurrentTask \/ MarkTaskInterrupting \/ MarkRelayInterrupting

----------------------------------------------------------------------------
\* A click on a toast

\* the operating system starts the program again with the toast's URL; the
\* single-instance plugin and the deep-link plugin each deliver it.  Toasts stay
\* in the action center; one that could not be shown never had its token stored
ClickToast(c) ==
    /\ \E t \in 1 .. suggested, b \in Buttons :
          /\ url' = [url EXCEPT ![c] = [trace |-> t, button |-> b]]
          /\ MayAnswer({Main} \cup {Click(d) : d \in {d \in Clicks : url[d] # url'[c]}})
    /\ Goes(Click(c), "idle", "consume")
    /\ UNCHANGED <<deskVars, copy, target, engine, loopPc, suggested>>

\* the task ends, with an error or without one
Forget(c) == url' = [url EXCEPT ![c] = NoUrl]

\* Mutant: the notification is read and not taken.
ConsumeTokenKept(c) ==
    /\ token = url[c].trace
    /\ Goes(Click(c), "consume", "read_pending")
    /\ UNCHANGED <<deskVars, copy, target, engine>>
    /\ flowUnchanged

\* consume_pending_notification
ConsumeToken(c) ==
    /\ token = url[c].trace
    /\ Goes(Click(c), "consume", "read_pending")
    /\ token' = NoTrace
    /\ UNCHANGED <<running, pending, task, execution, snapshot, half, answers, copy, target, engine>>
    /\ flowUnchanged

RejectToken(c) ==
    /\ token # url[c].trace
    /\ Goes(Click(c), "consume", "idle")
    /\ Forget(c)
    /\ UNCHANGED <<deskVars, copy, target, engine, loopPc, suggested>>

\* a token older than 600 seconds is dropped, whatever the URL says; the
\* suggestion made with it is old by then
ExpireToken(c) ==
    /\ token # NoTrace
    /\ token = pending.trace => pending.old
    /\ Goes(Click(c), "consume", "idle")
    /\ token' = NoTrace
    /\ Forget(c)
    /\ UNCHANGED <<running, pending, task, execution, snapshot, half, answers,
                   copy, target, engine, loopPc, suggested>>

\* Mutant: the trace of the URL is not compared with the suggestion's.
ConfirmByTokenUnchecked(c) ==
    /\ url[c].button = "confirm"
    /\ HasPendingConfirmation
    /\ Goes(Click(c), "read_pending", "clear_pending")
    /\ copy' = [copy EXCEPT ![Click(c)] = pending.trace]
    /\ RecordAnswer(url[c].trace, "confirmed")
    /\ UNCHANGED <<running, pending, token, task, execution, snapshot, half, target, engine>>
    /\ flowUnchanged

\* confirm_pending_task_by_token
ConfirmByToken(c) ==
    /\ url[c].button = "confirm"
    /\ pending.trace = url[c].trace
    /\ Goes(Click(c), "read_pending", "clear_pending")
    /\ copy' = [copy EXCEPT ![Click(c)] = pending.trace]
    /\ RecordAnswer(pending.trace, "confirmed")
    /\ UNCHANGED <<running, pending, token, task, execution, snapshot, half, target, engine>>
    /\ flowUnchanged

\* nothing is pending, or another suggestion is
RejectConfirm(c) ==
    /\ url[c].button = "confirm"
    /\ pending.trace # url[c].trace
    /\ Goes(Click(c), "read_pending", "idle")
    /\ Forget(c)
    /\ UNCHANGED <<deskVars, copy, target, engine, loopPc, suggested>>

\* cancel_pending_task_by_token clears the suggestion before it compares traces
CancelByToken(c) ==
    /\ url[c].button = "cancel"
    /\ Goes(Click(c), "read_pending", "clear_pending")
    /\ copy' = [copy EXCEPT ![Click(c)] = pending.trace]
    /\ UNCHANGED <<deskVars, target, engine>>
    /\ flowUnchanged

\* Mutant: the suggestion is taken and nothing is dispatched.
ClearConfirmedOnly(c) ==
    /\ url[c].button = "confirm"
    /\ Goes(Click(c), "clear_pending", "idle")
    /\ pending' = NoPending
    /\ copy' = [copy EXCEPT ![Click(c)] = NoTrace]
    /\ Forget(c)
    /\ UNCHANGED <<running, token, task, execution, snapshot, half, answers,
                   target, engine, loopPc, suggested>>

ClearConfirmed(c) ==
    /\ url[c].button = "confirm"
    /\ Goes(Click(c), "clear_pending", "store_task")
    /\ pending' = NoPending
    /\ Forget(c)
    /\ UNCHANGED <<running, token, task, execution, snapshot, half, answers,
                   copy, target, engine, loopPc, suggested>>

ClearCancelled(c) ==
    /\ url[c].button = "cancel"
    /\ Goes(Click(c), "clear_pending", "idle")
    /\ pending' = NoPending
    /\ IF copy[Click(c)] # url[c].trace THEN UNCHANGED answers
       ELSE RecordAnswer(url[c].trace, "cancelled")
    /\ copy' = [copy EXCEPT ![Click(c)] = NoTrace]
    /\ Forget(c)
    /\ UNCHANGED <<running, token, task, execution, snapshot, half,
                   target, engine, loopPc, suggested>>

ProtocolAction(c) ==
    \/ ClickToast(c) \/ ConsumeToken(c) \/ RejectToken(c) \/ ExpireToken(c)
    \/ ConfirmByToken(c) \/ RejectConfirm(c) \/ CancelByToken(c)
    \/ ClearConfirmed(c) \/ ClearCancelled(c)

----------------------------------------------------------------------------
\* Both ways of confirming go on here: store_current_task,
\* store_relay_execution with nothing, then the relay bridge

StoreConfirmedTask(th) ==
    /\ Goes(th, "store_task", "clear_execution")
    /\ StoreTask(copy[th])
    /\ UNCHANGED <<running, pending, token, execution, snapshot, half, answers,
                   copy, target, engine>>
    /\ flowUnchanged

ClearOldExecution(th) ==
    /\ Goes(th, "clear_execution", "begin_session")
    /\ execution' = NoExecution
    /\ UNCHANGED <<running, pending, token, task, snapshot, half, answers,
                   copy, target, engine>>
    /\ flowUnchanged

Dispatch(th) ==
    \/ StoreConfirmedTask(th) \/ ClearOldExecution(th)
    \/ StartRelaySession(th) /\ flowUnchanged

Bridge ==
    \/ \E s \in Sessions : TrackRelaySession(s)
    \/ \E th \in Threads : FinishPublishing(th)
    \/ InterruptSession
    \/ \E s \in Sessions : EngineEnds(s)

Next ==
    \/ ObservationLoop
    \/ Age
    \/ UserCommand
    \/ \E c \in Clicks : ProtocolAction(c)
    \/ \E th \in Callers : Dispatch(th)
    \/ Bridge /\ flowUnchanged

Spec == Init /\ [][Next]_vars

\* Threads are scheduled and minutes pass.  A command given or a toast clicked
\* is the user's choice, but what it starts goes on.  Agents end, and the log
\* of a session that has ended is finite, so its subscriber reaches the end.
Fairness ==
    /\ WF_vars(ObservationLoop)
    /\ WF_vars(Age)
    /\ WF_vars(UserCommand /\ pc[Main] # "idle")
    /\ WF_vars(InterruptSession /\ flowUnchanged)
    /\ \A c \in Clicks : WF_vars(ProtocolAction(c) /\ pc[Click(c)] # "idle")
    /\ \A th \in Callers : WF_vars(Dispatch(th))
    /\ \A th \in Threads : WF_vars(FinishPublishing(th) /\ flowUnchanged)
    /\ \A s \in Sessions :
          /\ WF_vars((Subscribed(s) \/ SubscriptionFails(s)) /\ pc[Tracker(s)] = "subscribe" /\ flowUnchanged)
          /\ SF_vars(ReceiveTerminal(s) /\ flowUnchanged)
          /\ WF_vars(FetchResult(s) /\ flowUnchanged)
          /\ WF_vars(EngineEnds(s) /\ flowUnchanged)

LiveSpec == Spec /\ Fairness

----------------------------------------------------------------------------
\* Properties

CallerPlaces == {"idle", "clear_pending", "store_task", "clear_execution",
                 "begin_session", "connect", "dispatch", "spawn", "dispatch_failed"}
MainPlaces == {"clear_token", "decline_pending", "decline_token", "interrupt_task",
               "interrupt_execution", "interrupt_call", "interrupt_ok", "interrupt_error"}
ClickPlaces == {"consume", "read_pending"}
TrackerPlaces == {"idle", "subscribe", "receive", "fetch_result", "done"}
Places == CallerPlaces \cup MainPlaces \cup ClickPlaces \cup TrackerPlaces

LoopPlaces == {"check", "wait_answer", "observe", "call_model",
               "expire_pending", "expire_task", "expire_execution",
               "store_token", "clear_task", "clear_execution", "store_pending"}

Executions == [trace : Traces \cup {NoTrace}, status : States \cup {"none"},
               session : Sessions \cup {NoSession}]

\* Every variable has the type of the code's field.
TypeOK ==
    /\ running \in BOOLEAN
    /\ pending \in [trace : Traces \cup {NoTrace}, old : BOOLEAN]
    /\ token \in Traces \cup {NoTrace}
    /\ task \in [trace : Traces \cup {NoTrace}, state : States \cup {"none"}]
    /\ execution \in Executions
    /\ snapshot \in [Threads -> Executions]
    /\ half \subseteq Threads
    /\ answers \in [Traces -> SUBSET {"confirmed", "cancelled"}]
    /\ pc \in [Threads -> Places]
    /\ copy \in [Callers -> Traces \cup {NoTrace}]
    /\ target \in Sessions \cup {NoSession}
    /\ engine \in [Sessions -> [trace : Traces \cup {NoTrace}, state : EngineStates]]
    /\ loopPc \in LoopPlaces
    /\ suggested \in Nat /\ suggested <= MaxSuggestions
    /\ url \in [Clicks -> [trace : Traces \cup {NoTrace}, button : Buttons \cup {"none"}]]

\* An agent is started for a suggestion only after the user confirmed this
\* suggestion, whatever the loop stores meanwhile and whichever toast is clicked.
NothingRunsUnconfirmed ==
    \A s \in Sessions : engine[s].trace # NoTrace => "confirmed" \in answers[engine[s].trace]

\* One suggestion starts one session, however often its toast is clicked or
\* its click delivered (SerialAnswers).
DispatchedOnce ==
    \A r, s \in Sessions :
        engine[r].trace = engine[s].trace /\ engine[r].trace # NoTrace => r = s

\* A suggestion that was cancelled is not confirmed later, nor the reverse,
\* through whichever of the two channels (SerialAnswers).
AnsweredOneWay == \A t \in Traces : ~({"confirmed", "cancelled"} \subseteq answers[t])

\* threads that will still publish the end of what they do
Following(th) == pc[th] \in {"connect", "dispatch", "spawn", "subscribe", "receive"}
Confirmed(th) == pc[th] = "begin_session" \/ (th \in Callers /\ pc[th] = "clear_execution")

\* What the windows show as a session under way is followed by a thread that
\* will replace it: no end, error or lost connection leaves it there.
ShownRunningIsFollowed ==
    execution.status \in {"connecting", "dispatching", "running"} =>
        \E th \in Threads :
            /\ Following(th) \/ th \in half
            /\ snapshot[th].trace = execution.trace
            /\ execution.session # NoSession => snapshot[th].session = execution.session

\* The observation loop waits for a task only while some thread still works,
\* so a task whose threads are done does not stop the suggestions for ever
\* (unless an interrupt command marked it).
WaitingIsFollowed ==
    task.state \in {"connecting", "dispatching", "running"} =>
        \E th \in Threads : Following(th) \/ Confirmed(th)

\* A suggestion nobody answers goes away while the program runs.
SuggestionDoesNotLinger ==
    \A t \in Traces : pending.trace = t /\ running ~> pending.trace # t \/ ~running

\* The observation loop is not stopped for ever by a task.
TaskReleasesLoop == HasActiveTask ~> ~HasActiveTask

Tried(t) ==
    \/ \E s \in Sessions : engine[s].trace = t
    \/ \E th \in Callers : copy[th] = t /\ pc[th] = "dispatch_failed"

\* A confirmed suggestion is dispatched, or the user is shown that it failed,
\* through either channel.
ConfirmedIsTried ==
    \A t \in Traces :
        /\ copy[Main] = t /\ pc[Main] = "clear_token" ~> Tried(t)
        /\ \A c \in Clicks : copy[Click(c)] = t /\ url[c].button = "confirm" ~> Tried(t)
=============================================================================

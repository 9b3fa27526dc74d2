---------------------------- MODULE DesktopState ----------------------------
(***************************************************************************)
(* AppState of the desktop program (cozmio/src-tauri/src/commands.rs), the *)
(* one pending notification and the running flag: what the main thread,    *)
(* the observation loop, the tasks of toast clicks and the threads that    *)
(* follow relay sessions share.  Every field has a lock of its own, so     *)
(* each operator below that changes one field is one atomic step and       *)
(* nothing keeps two fields consistent.                                    *)
(***************************************************************************)
EXTENDS Naturals

CONSTANTS
    MaxSuggestions, \* bound: suggestions the observation loop makes
    MaxSessions,    \* bound: sessions the relay engine accepts
    Clicks          \* tasks that process a click on a toast

ASSUME BoundsAssumption == MaxSuggestions \in Nat /\ MaxSessions \in Nat

NoTrace == 0
NoSession == 0
Traces == 1 .. MaxSuggestions
Sessions == 1 .. MaxSessions

Main == <<"main", 0>>
Click(c) == <<"click", c>>
Tracker(s) == <<"tracker", s>>
Callers == {Main} \cup {Click(c) : c \in Clicks}
Threads == Callers \cup {Tracker(s) : s \in Sessions}

VARIABLES
    running,    \* RUNNING_STATE
    pending,    \* pending_confirmation: its trace, and whether created_at is
                \* more than 60 seconds ago
    token,      \* NOTIFICATION_PENDING: the trace whose token it holds, or NoTrace
    task,       \* current_task: its trace and task_state
    execution,  \* relay_execution: its trace, relay_status and session
    snapshot,   \* the RelayExecutionInfo each thread publishes from
    half,       \* threads between the two locks of store_relay_execution
    answers     \* the user's answers in the experience record, per suggestion

deskVars == <<running, pending, token, task, execution, snapshot, half, answers>>

NoPending == [trace |-> NoTrace, old |-> FALSE]
NoTask == [trace |-> NoTrace, state |-> "none"]
NoExecution == [trace |-> NoTrace, status |-> "none", session |-> NoSession]

ActiveStates == {"connecting", "dispatching", "running", "waiting", "interrupting"}
EndStates == {"completed", "failed", "interrupted"}
ErrorStates == {"connect_error", "dispatch_error", "interrupt_error", "subscription_error"}
States == ActiveStates \cup EndStates \cup ErrorStates

DeskInit ==
    /\ running = FALSE
    /\ pending = NoPending
    /\ token = NoTrace
    /\ task = NoTask
    /\ execution = NoExecution
    /\ snapshot = [th \in Threads |-> NoExecution]
    /\ half = {}
    /\ answers = [t \in Traces |-> {}]

HasPendingConfirmation == pending # NoPending
HasActiveTask == task.state \in ActiveStates

StoreTask(t) == task' = [trace |-> t, state |-> "dispatching"]
StoreTaskState(st) == task' = IF task = NoTask THEN NoTask ELSE [task EXCEPT !.state = st]

\* mark_relay_interrupting and the two outcomes of interrupt_session
StoreRelayStatus(st) ==
    execution' = IF execution = NoExecution THEN NoExecution ELSE [execution EXCEPT !.status = st]

RecordAnswer(t, answer) == answers' = [answers EXCEPT ![t] = @ \cup {answer}]

\* store_relay_execution takes two locks: it copies the status into whatever
\* the current task is, then replaces the execution
Publish(th, info) ==
    /\ th \notin half
    /\ StoreTaskState(info.status)
    /\ snapshot' = [snapshot EXCEPT ![th] = info]
    /\ half' = half \cup {th}

FinishPublish(th, kept) ==
    /\ th \in half
    /\ execution' = snapshot[th]
    /\ snapshot' = [snapshot EXCEPT ![th] = kept]
    /\ half' = half \ {th}
    /\ UNCHANGED <<running, pending, token, task, answers>>
=============================================================================

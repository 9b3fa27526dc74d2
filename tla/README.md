# Verification of Cozmio

Cozmio is a desktop agent. The desktop program watches the foreground window,
asks a model whether to step in, shows a notification, and on the user's
confirmation hands a task to the *relay engine*, a local server that runs a
coding agent as a child process and streams its output back. What it sees and
does goes to a log, a ledger and a memory of its own, from which later prompts are
made. This directory holds TLA+ models of that program, the TLC runs that check
them on small instances, and proofs of their safety properties for every size.

Paths are relative to `cozmio/` in the repository; a file name without a
directory is in `src-tauri/src`.

1. [The system](#1-the-system) - parts, state, hard behaviour
2. [Modules](#2-modules) - what models what, and how
3. [Runs](#3-runs) - instances, bounds, fairness, what each shows
4. [Findings](#4-findings) - where code and documents disagree, and limits of the code
5. [Proofs](#5-proofs)
6. [Not modelled](#6-not-modelled)

## 1. The system

| Part | Where | State | Operations | Hard behaviour |
|---|---|---|---|---|
| Session table | `relay-engine/src/session.rs` | sessions (status, log, result), pid table, interrupt marks, subscribers, each behind a lock of its own | create, update status, add progress, set result, (un)register process, mark/clear interrupt, subscribe, notify | a method takes one lock, changes a table, releases it and then publishes: everything may happen in between |
| Agent sessions | `relay-engine/src/main.rs`, `agents/claude_code.rs` | a dispatcher thread, two readers and a child process per session; a handler thread per request | dispatch, interrupt, subscribe; status, progress and result only read | interrupt against normal end, failed spawn, failed kill, pid reuse |
| Wire | `relay-engine/src/{transport,proto}`, `relay-client/src` | none between calls | frame, encode, decode, answer, refuse | two hand-written copies of the messages; a client reads any answer as what it asked for |
| Observation loop | `main_loop.rs`, `window_monitor.rs` | window history, last title judged, last error | expire, capture, ask the model, notify | acts on stale snapshots; a round lasts as long as a model call |
| Action log | `logging.rs` | one JSONL file | append, tail, history, clear | a record and its line end are two writes, by any thread |
| Confirmation | `commands.rs`, `notification_manager.rs`, `main.rs` | pending suggestion, current task, relay execution, token | confirm, cancel, dismiss, by button or by toast; interrupt | a suggestion answered twice; expiry against answer |
| Relay bridge | `relay_bridge.rs` | a tracking thread per session | dispatch, subscribe, track, fetch the result, interrupt | a snapshot overwrites the shared execution |
| Settings, updates | `config.rs`, `updater.rs` | `config.json`, the update reminder, packages | load, save, check, install, remind, dismiss | files truncated and written in place; two checks at once |
| Prompt context | `prompt_context.rs` | use counts of memories | compose, clip, recall | limits that are met together; recall that feeds itself |
| Memory | `memory_consolidation.rs`, `experience_recorder.rs`, `cozmio_memory/src/agent_memory.rs` | memories, operations, feedback, runs in SQLite | remember, supersede, reject, consolidate | several statements, several connections, any of which fails |
| Archive | the rest of `cozmio_memory/src`, `memory-cli` | events, text index, slices, threads, decisions, skills | migrate, import, build, upsert, seed, search, remind | statements without transaction, processes killed in between |
| Event ledger | `ledger.rs`, `transcript_import.rs` | content files, a JSONL file, a SQLite projection | record, import, rebuild, query | three places, one statement after the other |
| Distillation | `distill_commands.rs` | jobs, candidates, a backend process | distill a trace, a range, a day; reject | three pipes and one thread |
| Evaluation | `evaluation.rs`, `eval_commands.rs` | samples, results, notes | save, evaluate, mark reviewed | two statements, a thread beside them |

The desktop talks to the engine over two ports: requests on 7890, one per
connection, and event streams on 7891, written by whichever engine thread logs
something and read by the tracking thread of the bridge, which copies it into the
state the user interface polls. The loop, the commands and the trackers share
`AppState`; the loop, the commands and the consolidation threads share the files
and databases. `memory-cli` opens databases of its own, while the desktop runs or
not.

`main.rs` declares no module for `ledger.rs`, `distill_commands.rs`, `evaluation.rs`,
`eval_commands.rs` and `transcript_import.rs`, so no build contains them yet. They
are modelled as what their signatures make them, synchronous commands of the main
thread, since that is where their design can still be changed.

### What each part has to get right

* Sessions: a session ends once, in one way, with one result that is there when
  the end is announced; a subscriber misses nothing; an interrupt kills the right
  process and decides the end; the end of a process is always reported.
* Wire: what is understood is what was meant, and no refusal is taken for success.
* Confirmation and bridge: a suggestion runs at most once, only if it was
  confirmed, and not after it was cancelled; a suggestion nobody answers goes away;
  what is shown as running is followed; a finished task does not stop the loop.
* Observation: what the model is told of the past is true; a window gets its
  judgment; the loop lives.
* Settings: the loop ends up with what the user set; a torn file takes nothing
  away; a reminder is for what was installed, and does not come back once dismissed.
* Memory: a memory is replaced once and for all, by one that says so; feedback is
  about what happened; a failure leaves no run working for ever.
* Archive: the index and the slices are those of the events; an upsert answers
  with the row it wrote; a search finds what it was asked for.
* Ledger, distillation, evaluation: the log is the source of the rows; a job's row
  says how it ended; whoever behaves is not waited for for ever.

## 2. Modules

| Module | Models | Kind |
|---|---|---|
| `SessionManager` | `session.rs`: the tables, one operator per lock region | component |
| `RelayEngine` | handlers of `relay-engine/src/main.rs`, `claude_code.rs`, over `SessionManager` | composition, specification |
| `SessionLifecycle` | what a polling client may rely on | abstract specification |
| `RelayWire` | messages, frames, the engine's `handle_connection`, the client | operators |
| `DesktopState` | `AppState`, the token, the running flag, one operator per lock region | component |
| `RelayBridge` | `relay_bridge.rs`, over `DesktopState` and the state of each engine session | component |
| `ConfirmFlow` | the loop, the commands and the toast clicks, over `RelayBridge` | composition, specification |
| `Settings` | `config.rs`, `updater.rs` and their callers | specification |
| `JsonLines` | what a file of JSON lines holds | operators, shared by the next and `EventLedger` |
| `ActionLog` | `logging.rs` | component |
| `Observation` | a round of `main_loop.rs`, `window_monitor.rs`, over `ActionLog` | composition, specification |
| `PromptContext` | `prompt_context.rs`, recall and marks of `agent_memory.rs`, the bridge's clip | operators |
| `MemoryStore` | `agent_memory.rs`: one operator per statement or transaction | component |
| `Consolidation` | `memory_consolidation.rs`, `experience_recorder.rs`, over `MemoryStore` | composition, specification |
| `MemoryLifecycle` | what a reader of the memories may rely on | abstract specification |
| `MemoryArchive` | migrations, import, slices, threads, seed, over several processes | specification |
| `MemorySearch` | `search.rs`, `competition.rs` and their callers | operators |
| `EventLedger` | `ledger.rs`, `transcript_import.rs` | component |
| `Distillation` | `distill_commands.rs` and the dialogue with its backend, over `EventLedger` | component |
| `Evaluation` | `evaluation.rs`, `eval_commands.rs`, over `EventLedger` | component |
| `LedgerCommands` | the three together on the main thread | composition, specification |
| `MC...` | instances for TLC, and what it evaluates of the operator modules | model checking |
| `..._proofs` | theorems | proofs |

A definition whose comment begins with "Mutant" is no part of the model. It is the
code with a plausible mistake; put in place of the definition after it, it
makes the property it was written for fail.

### Relay engine

`SessionManager` has the tables as variables and an operator for each thing the
source does under one lock. `update_status` and `add_progress` change the session
and, the lock released, look up the subscribers and write to them one after the
other; so `UpdateStatus` and `AddProgress` leave a *notice*, `LookupSubscribers`
turns it into *deliveries*, and each delivery is one step. `Ready(t)` says that
thread `t` has none of these outstanding: a thread runs its next statement only
then, as the methods return only after the last write.

`RelayEngine` gives each thread a program counter and one action per statement
that touches shared state, in the order of the source. `HandleDispatch` to
`ReplyDispatch` are `handle_dispatch`; `SpawnProcess` to `SaveInterrupted` the
thread started by `ClaudeCodeConnector::dispatch`; `ReadLine`, `ReadFails`,
`ReadEnd` the reader threads; `FindProcess` to `SetInterrupted`
`ClaudeCodeConnector::interrupt`; `HandleSubscribe` and `ReplayNext` a
subscription. The two tests `is_interrupt_requested || get_status == Interrupted`
are two steps (`CheckFlag`, `CheckStatus`), since the interrupt handler may act
between them. `ProcessExits` and the choice of pids are the operating system's.
Log entries are their positions in the session's log; text, level and time are
left out. A subscriber subscribes once per connection, and a client interrupts a
session it was given the id of.

Two constants separate what the code guarantees by itself from what it needs of
its surroundings: `RecyclePids`, whether the system may give a freed pid out again
(between `wait` and `unregister_process` the table names a pid that is free), and
`SerialInterrupts`, whether clients wait for the answer to an interrupt before
they send the next one for the same session.

`SessionLifecycle` is the abstract specification: absent, pending, running, then
one of completed, failed, interrupted, with the result stored before the first two
and after the third. `ImplementsLifecycle` says that `RelayEngine` implements it,
with `status` and `result` mapped to themselves.

`RelayWire` has the messages as each crate declares them, field by field, prost's
encoding (a field that is zero is not written, an unknown one is skipped, a wrong
wire type is an error), `handle_connection` with its answers, and what the client
and the bridge make of an answer or an event. Values are numbers, zero being what is
not written; a size is a number given with the frame.

### Desktop: from a suggestion to a session

The threads are those of the program. Synchronous commands, the mini window and
the tray run on the main thread, one at a time (`Main`), and a confirmation keeps
it busy through the inference request and the dispatch. A click on a toast starts
the program again with a URL, which the single-instance plugin and the deep-link
plugin each hand to a task of its own (`Click(c)`). The loop has a thread, and so
has every session that is followed (`Tracker(s)`).

`pc` says where each thread is, `copy` which suggestion a caller read and acts
on, `snapshot` the `RelayExecutionInfo` a thread publishes from. Every field of
`AppState` has its own lock, and each access is one action. `store_relay_execution`
takes two locks, so publishing is two actions: `Publish` changes the task and puts
the thread into `half`, `FinishPublish` replaces the execution.

| Function | Actions of `ConfirmFlow` and `RelayBridge` |
|---|---|
| one round of `start_main_loop` | `CheckWaiting`, `KeepWaiting`, `CheckRunning`, `NothingToSuggest`; `ExpirePending`, `ClearExpired`, `ClearTask`, `ClearExecution`; `Suggest`, `StoreToken`, `ClearTask`, `ClearExecution`, `StorePending` |
| `confirm_pending_task` | `ConfirmPending`, `ClearPending`, `ClearToken`, then `Dispatch(Main)` |
| `cancel_pending_task`, `dismiss_pending_task` | `DeclinePending`, `ClearDeclined`, `RecordDeclined` |
| `confirm_pending_task_by_token` | `ConsumeToken`, `RejectToken` or `ExpireToken`; `ConfirmByToken` or `RejectConfirm`; `ClearConfirmed`, then `Dispatch(Click(c))` |
| `cancel_pending_task_by_token` | the same first step, `CancelByToken`, `ClearCancelled` |
| `start_relay_session` | `BeginSession`, `ConnectFails` or `Connected`, `Dispatched` or `DispatchFails`, `SpawnTracker`, `DispatchFailed` |
| `track_relay_session` | `Subscribed`, `SubscriptionFails`, `ReceiveProgress`, `ReceiveTerminal`, `FetchResult` |
| `interrupt_current_task`, `interrupt_session` | `InterruptCurrentTask`, `MarkTaskInterrupting`, `MarkRelayInterrupting`, `InterruptRefused`, `InterruptAccepted`, `InterruptOk`, `InterruptFails`, `InterruptError` |

Abstracted: a suggestion is its trace; a pending one also has the age that matters
(over 60 seconds or not, `Age`); a token may expire whenever its suggestion is not
a young pending one, since 600 seconds are longer than 60; `relay_unavailable` and
`connect_error` are one status, as both end the same way; the inference before a
dispatch changes only the text of the task and is the time between `ClearToken`
and `StoreConfirmedTask`; cancel and dismiss differ only in what they log. The
reads of the suggestion and of the task at the head of a round are one action,
which is sound because only the loop itself makes a suggestion. The engine is the
state of each session and, with `DispatchFails` and `InterruptFails`, requests that
were executed although their answer was lost.

`SerialAnswers` is an assumption about the user: no answer is begun between the
moment another one reads the suggestion and the moment it clears it, the two
deliveries of one click excepted. The properties that need it say so.

### Desktop: observation, log, prompt

`Observation` is the same loop seen from the other side: what a round does to the
window history (`buffer`, a ring of `Capacity`), to the title it compares with, to
the error it remembers and to the log. `Ask` is capture to request and computes
the context the way `compute_context` does, before the snapshot is pushed;
`ModelAnswers`, `ModelFails`, `CaptureFails` are the outcomes; `LogText`, `LogEnd`
the record; `Finish` pushes the snapshot and stores the suggestion. What follows is
`ConfirmFlow`'s subject, here only `waiting`. An answer is empty, a text, or a text
whose 200th byte lies inside a character ("split"). `ActionLog` has the file as texts
and line ends, since `writeln!` on a `File` writes them apart and nothing locks it.
Either write can fail (`TextFails`, which leaves a part of the text, `Torn`, and `EndFails`),
and so can the opening of the file (`LogFails`). The clock is in milliseconds, as the stamps
of `capture_all` are, and `LastMinute` (60) and `Rapid` (5) are applied to these
stamps as `compute_context` applies them: its "last minute" is 60 milliseconds, and
so it is in the properties (§4). `moves`, `judged` and `disturbed` are history variables. Left out are the
sleep between rounds, which only makes a snapshot older than the model has it, and the time
the capture itself takes after the stamp.

`PromptContext` counts characters: which parts the context has, which are clipped
and where, which records and feedback facts are taken, which memories are recalled
for a set of terms and get marked as used, and what `clip_relay_context` leaves for
the relay. A text is its length and, for recall, its set of terms.

### Settings and updates

`config.json` is a configuration, missing or torn: `fs::write` is two steps. The loop
reloads it each round (`Round`) and keeps the last one that loads. The start-up
check saves the time of the check into the copy of the defaults that `AppState` was
built with (`TruncateConfig`, `WriteConfig`); user checks run beside it; packages are
files that both write. `Restart` ends the process anywhere. The update server and
`msiexec` are their outcomes. `fresh` and `shown` are history: the checks that installed and were
not dismissed since they told, and the check whose reminder is the one shown. `save_config` has no call that succeeds - the settings
page leaves out a field the structure requires - so `Edit` is the user's editor.

### Memory

Each thread opens a connection of its own, so an operator of `MemoryStore` is one
statement or one transaction. `Consolidation` runs jobs on threads: `live` and `manual`
runs, `apply` and `reject` of the user, `record` of an event. A run creates its row, asks
the model and applies operations (`FindExact`, `Insert`, `LogInsert`; `SupersedeOld`;
`RejectOld`, `LogReject`; `RecordFeedback`), any of which may be refused
(`RefuseInvalid`) or fail (`OperationFails`, `RunFails`); `Crash` ends all threads. A
packet cites events; what it shows of screenshots and windows is left out, as are the
idle and cooldown clocks: a run may start at any time. `MemoryLifecycle` is the
abstract specification, implemented with `life` and `over` mapped to themselves.

`MemoryArchive` is several invocations of `memory-cli`, and the desktop's updates of
threads, at the statements of one database, any of them killed at any statement.
`LAST_INSERT_ROWID` is per connection, which is what `upsert` trips over.

`MemorySearch` says which results a search may return: the alias table, the text that
goes to FTS5, filters, limits and the two sorts; and what `build_reminder_context`
cites. A text is its words and the classes of syntax marks in it; scores are given;
a query with marks may be refused, and otherwise stands for its words.

### Ledger, distillation, evaluation

An event goes to a content file, to the JSONL file of its day (text and line end) and
to its row, in `StoreContent`, `AppendText`, `AppendEnd`, `Ingest`. A statement that fails
and a program that stops between two are the same for what is stored
(`RecordingFails`). One day's file is modelled. `LedgerManager::new` has no content
store, with which every import fails; the model is of `with_content_store`.

A line that holds two texts, or a part of one (`Torn`), is none (`JsonLines`).

`Distillation` is the commands, `call_distillation_backend` over three pipes that hold
one unit each, and `run_distillation_job`. The backend is external: it reads all and
then answers ("waits"), answers without reading ("answers") or answers before it has
read ("streams"), with a complaint of some size first. `broken` is history: the jobs that a
failing statement gave up. `Evaluation` is the sample, the
thread that writes its note, the result and the second note.

## 3. Runs

Each row of the table is a `.cfg` file of that name; its module is the `MC...` module of the
specification. All runs but the last pass; it is the first of the [Findings](#4-findings).

| Run | Instance | Properties |
|---|---|---|
| `relay_feed` | `RelayEngine`: 1 session, both pipes, 1 subscriber, 1 interrupt, 2 log entries | `TypeOK`, `NoEventLost`, `ToldFinishedCanFetch`, `EndIsReported`, `InterruptAnswered` |
| `relay_interrupts` | `RelayEngine`: 2 sessions, 2 pids not reused, 2 interrupts, serial per session, 1 pipe, no subscriber, 1 log entry | `InterruptReachesItsAgent`, `InterruptDecides`, `EndedHasResult`, `NoStaleRegistration`, `ResultIsFinal`, `ImplementsLifecycle` |
| `desk_answers` | `ConfirmFlow`: 2 suggestions, 2 sessions, 1 click, confirm and decline, serial answers | `AnsweredOneWay`, `NothingRunsUnconfirmed` |
| `desk_clicks` | `ConfirmFlow`: 1 suggestion, 2 sessions, 2 deliveries, all answers and interrupts, serial answers | `DispatchedOnce`, `TypeOK` |
| `desk_sessions` | `ConfirmFlow`: 1 suggestion, 2 sessions, one of them a demonstration, answers overlap | `ShownRunningIsFollowed`, `WaitingIsFollowed` |
| `desk_liveness` | `ConfirmFlow`: 1 suggestion, 1 session, 1 click, start and stop, answers overlap | `SuggestionDoesNotLinger`, `TaskReleasesLoop`, `ConfirmedIsTried` |
| `settings` | `Settings`: 2 configurations, 2 versions, start-up and user check, 1 edit, 1 restart | `ReminderIsTrue`, `LastKnownIsKept`, `SettingsReachLoop` |
| `observation` | `Observation`: 2 windows and the program's own, history of 2, 2 moves, 2 ticks, limits of 1 tick, 2 writers, 2 records of 3 bytes and their line ends, tail of 5 bytes | `LostOnlyIfDisturbed`, `ContextIsTrue`, `TailIsTold`, `WindowIsJudged` |
| `memory` | `Consolidation`: 2 threads with different jobs, 1 event, 2 memories, 1 failure | `SupersededHasSuccessor`, `SuccessorReplaces`, `FeedbackIsTrue`, `RunningIsWorkedOn`, `RetryDoesNotDuplicate`, `ImplementsMemoryLifecycle` |
| `archive` | `MemoryArchive`: 2 processes, 4 invocations, a log of 4 lines with 1 malformed, 2 threads and rows of demo data | `IndexIsComplete`, `BuildIsExact`, `SeedIsSound` |
| `ledger` | `LedgerCommands`: 2 traces, 2 events, 1 failure, 5 backends, 2 jobs, 1 sample and result | `LedgerIsSound`, `JobsTellTheTruth`, `ResultsAreReviewable`, `DistillationEnds` |
| `loop_dies` | as `observation` | `LoopRunsIndefinitely`, violated |

### What they show

**Relay engine.** Whenever a subscriber joins, and whichever threads publish to it, every
log entry and the end of the session is sent to it (`NoEventLost`): `subscribe` takes the log
and joins the list under two locks, in the one order in which this holds. Who hears that a
session completed or failed finds its result stored. An agent can be found from its
registration on, and only the agent of a session somebody interrupted is killed; an interrupt that
was answered with success stays the session's status, and no mark is left for
nobody (`InterruptDecides`). An exited agent leads to a status, a result and the news of it, an
interrupt to an answer. For a client that polls, the engine is `SessionLifecycle`.

**Confirmation.** With each answer given after the last one took effect, a suggestion is
dispatched once, though each click arrives twice, and is not both confirmed and cancelled.
Nothing runs that was not confirmed, with no such assumption (§5). What is shown as running, and
what the loop waits for, has a thread that will replace it, while several sessions publish into
one state. A suggestion goes away, a task releases the loop, a confirmation is dispatched or
seen to fail.

**Observation.** A record of the action log that a reader skips met another writer, a write that failed or the end of the
program; nothing else loses one (`LostOnlyIfDisturbed`). Records whose lines lie in the tail are told,
and only a tail that begins inside a text may come out empty (`TailIsTold`). The prompt never says more of switches than did happen in the milliseconds that count, though the history has only
the rounds that came to their end (`ContextIsTrue`). A window that stays in front is answered about, or the failure repeats.

**Settings.** A reminder is for a version that was really installed, and it is not one the user put off:
the check that shows it told of it after the last dismissal, for the first time (`ReminderIsTrue`). A
check that had installed before the dismissal and not told yet does still tell. A file
caught half written does not change what the loop works with, which is what the loop's text says and not
what that of `Config::load` says (§4). What the file says in the
end, the loop uses in the end.

**Memory.** A replaced memory has its successor and its log entries, and is never active beside it;
feedback tells what happened; a run is "running" only while a thread works on it, a crash or a failed
statement excepted; one thread's second attempt adds no copy. The store is `MemoryLifecycle`.

**Archive.** Whatever is killed when, every event is in the text index. A build that met neither
another build nor a kill leaves one slice per window. An upsert answers with its row.

**Ledger.** Content before log before row, always. A job that succeeded has the candidate its row names and
no other, which cites what the job was given; one that failed or abstained has none; a job is "started"
while its call is under way, and afterwards only if a statement of it failed, which is also the only
case of a candidate that no job's row names (`JobsTellTheTruth`). Each result has its note. A backend
that reads before it answers, or does not read at all and answers no more than a pipe holds, and
that complains no more than a pipe holds, is not waited for for ever (`DistillationEnds`). `FiveBackends` has two that the
property leaves out and that leave the call stuck, since the program feeds its whole input before
it reads: one that writes while it is still being fed, and one that does not read and answers two pipes.

**Operators.** TLC evaluates three groups of assumptions on the way: in `MCRelayEngine` that
messages arrive as sent, inference does not, and refusals are heard; in `MCObservation` the prompt
at each of its limits, plus or minus one; in `MCMemoryArchive` searches of a small archive, whose
expected results are worked out by hand from the source.

### Why the bounds are enough

The hazards are between two or three actors, and the instances have that many of each kind that
meets: two publishers and a subscriber, two sessions for one pid table, two deliveries of one
click, two sessions publishing into one execution, two database threads. Of two log
entries one is replayed while the other is published.
Two suggestions are an old toast and a new one. Two memories are a replaced one and its
successor. Four archive lines have a malformed one in the middle of two windows of slices. One
failure, placed at any statement, is enough for properties of a single operation; a second
failure could only hit another one. In `observation` two records of 3 bytes stand against a tail of 5: a
file of one record fits; one of two and a line end (7 bytes) is cut inside the first text, one of two
and both ends (8) at the first line's end, where the second record has to be told. The
clock passes the limits of 1 tick, and the windows judged exceed the history. The answers of `observation` are
empty or text; `loop_dies` has the third kind. `MaxLog`, `MaxSuggestions`, `MaxSessions`, `MaxMemories`, `MaxEvents`,
`MaxStarts`, `MaxJobs`, `MaxSamples`, `MaxResults`, `MaxRows`, `MaxEdits`, `MaxRestarts`,
`MaxFaults` stand in guards; the theorems hold for all their values. Runs with `SYMMETRY` check
no liveness and interchange only threads, sessions and pids that nothing tells apart.

Deadlock is checked except in `archive`, `observation`, `loop_dies` and `ledger`. There the system stops:
the tool's invocations are used up, the records and the clock are at their bounds, or the main
thread waits for a backend that waits for it.

### Fairness

* `RelayEngine!FairSpec`: each handler, dispatcher, reader and publisher is a thread of the operating
  system, and weakly fair. Clients owe nothing, and agents need not exit: `EndIsReported` begins with the exit.
* `ConfirmFlow!LiveSpec`: the same for the loop, the main thread once it has a command, the task of a
  click and the trackers. `Age`: a minute passes. `ReceiveTerminal` is strongly fair: the log of an
  ended session is finite, so a reader that keeps reading comes to its end; other events disable
  it in between. `EngineEnds`: agents end; the engine itself has no limit for them, and without
  this a task holds the loop as long as its agent runs. The loop's thread is assumed to survive, which `loop_dies`
  shows not to be so after every answer.
* `Settings`: weak fairness of `Round`. `Observation`: of `LoopStep`; a model call ends at its timeout.
* `LedgerCommands`: of the backend's and of the program's side of the pipes, both processes of the operating system.

## 4. Findings

**`loop_dies`.** `start_main_loop` "runs indefinitely" (`main_loop.rs:19`), and "panic catching is done
INSIDE start_main_loop via catch_unwind" (`main.rs:346`). The log line of every answer slices its text
at byte 200 (`main_loop.rs:260`), which panics inside a multibyte character; there is no
`catch_unwind`. The prompts ask for Chinese. One such answer ends the loop's thread for the rest of the
program's life, and the window goes on showing it as running.

### Other disagreements between code and text

* `Config::load` "Returns Default config if file doesn't exist or is invalid" (`config.rs:66`). For a file that
  does not parse it returns an error (`config.rs:77`). At a start the caller makes the defaults of it (`main.rs:330`);
  the loop, which reloads the file each round, keeps the "last known config" (`main_loop.rs:28`). The model has
  what the code does, and `LastKnownIsKept` states the loop's text: with that of `load`, half a file, left there by a
  write that failed or is under way, would give the loop the defaults.
* `compute_context` is to "count entries with different window_titles in last 60s" (`window_monitor.rs:90`). It
  subtracts 60 from a stamp (line 91) that `capture_all` took with `as_millis()` (`cozmio_core/src/lib.rs:31-34`) and
  `window_monitor.rs:165` passed on: it looks at 60 milliseconds, and at 5 where the names say 5 seconds (lines 126,
  133). As a round sleeps at least a second (`main_loop.rs:34`), the program never counts any: the prompt's switches are
  always 0, and its stay is in milliseconds under the name of seconds (line 85). `ContextIsTrue` is therefore of
  milliseconds, and only says that nothing is told that did not happen.
* Every inference request of the desktop is refused: the client declares bundle and timeout, the engine
  request id, worker id, bundle and timeout, so that field 2 is a number for one and a string for the
  other. The refusal has the form of a dispatch response, which the client cannot read as an inference
  response. `confirm_pending_task` therefore always falls back to the session without inference, where
  `commands.rs:192` speaks of a step before it. An error answer is readable only to a dispatch (as
  an empty id), a status request (as no status) and an interrupt (as refused). (`InferenceIsRefused`, `RefusalIsNoSuccess`)
* `search.rs:170` sorts by score descending, and `bm25` gives the best match the smallest score: with
  more matches than the limit it is the best that are cut. The limit falls before the time filter. "Keep highest
  score" (`search.rs:155`) keeps the keyword hit. (`BestIsLost`, `RangeComesLate`)
* "Last 2 hours" (`competition.rs:55`) asks for the slices that begin after the note
  itself; the desktop's note is of now, so it never cites one. (`NowHasNoSlices`)
* The protected lines of a prompt have up to 2374 characters and the relay is given 2200 of them. (`ProtectedLinesFit`, `RelayHearsLess`)
* A subscriber joins the list before the log is replayed to it (`session.rs:244`), so an event that is
  published meanwhile overtakes the replay, and an entry may come twice; `relay-engine/test_real_chain.py:371`
  requires the first event to be the first entry.
* `commands.rs:1160` puts "confirm" before "executing"; the code below has it after.
* `app_running.rs:6` says a stopped program does not analyse; the flag is read once per round (`main_loop.rs:77`).
* "It can be rebuilt from JSONL at any time" (`ledger.rs:195`) fails after one failed write of a line end.

### Limits the models show

* Answers that overlap run a suggestion twice, or confirm and cancel it: the pending suggestion is read and cleared
  under two separate locks. Overlapping interrupts of one session take each other's mark away. With pids reused, an
  interrupt can kill a process that is not its agent's.
* `interrupt_current_task` marks the task before it calls the engine; if the session has ended by then,
  nothing takes the mark away and the loop waits for ever (`commands.rs:868`).
* A cancel by token clears whatever suggestion is pending (`commands.rs:781`), and the loop clears on the
  strength of an old copy (`main_loop.rs:111`). Trackers do not compare traces before they publish.
* A stop during a round does not stop its suggestion (`main_loop.rs:77`).
* A subscriber that stops reading blocks the thread that writes to it, and the end of the session with it (`relay-engine/src/main.rs:874`);
  nothing removes a subscription.
* The check at start-up saves the defaults with its date and forgets the user's settings (`main_loop.rs:429`).
  The settings page leaves out `update_channel`, so its SAVE is refused. `update_state.json` is written and not read.
* A live consolidation run is "completed" though operations failed; a failed insert of the log leaves the change without its row (`agent_memory.rs:167`).
* Recall prefers what was recalled before (`RecallRepeats`).
* `import` of `memory-cli` run twice has each event twice (`importer.rs:51`), as has a transcript. The desktop's import reads a path
  and a timestamp format that the log does not have. A second seed panics (`task_threads.rs:93`). A syntax error of FTS5 in a window's title is
  swallowed where the reminder is built, and seed rows are labelled so only where they stand in for others.
* The time a window has been in front is milliseconds in 32 bits: it wraps after 49.7 days, and after a clock that was set back (`window_monitor.rs:85`).
* A check that installed before the user said "later" and had not told yet tells after it (`commands.rs:1340`), of the same version too.
* A write to the action log that fails half-way costs the next record as well, which lands on the same line (`logging.rs:208`).
* A job whose last update failed stays "started" beside its candidate, and a retry makes another (`distill_commands.rs:574`).
* `LedgerManager::new` has no content store, so every import through it fails; a sample may be saved for events that are
  not there, as `sample_exists` has no caller; a distillation has no time limit.

Four hazards have no property, for lack of a text that says what should be: the subscriber that stops
reading, the newer suggestion wiped by an old answer, the interrupting mark and the running flag.

## 5. Proofs

TLAPS proves every invariant and every action property of the passing runs, and the two refinements,
for all values of the constants: any number of sessions, pids, clients, suggestions, clicks, threads, processes,
events and memories; any lengths, tables and texts. Each theorem of the form `Spec => []P` has an invariant that is
inductive, shown for the initial states and for one action after the other.

| Module | Theorem | Says | Along |
|---|---|---|---|
| `RelayEngine_proofs` | `TypeCorrect` | `TypeOK` | `TypeInv`: and an interrupt under way names its session |
| | `EndedSessionsHaveResults`, `ResultsAreFinal` | `EndedHasResult`, `ResultIsFinal` | `ResultInv`: the dispatcher's place determines status and result; it is the only one that stores, once |
| | `NoRegistrationLeft` | `NoStaleRegistration`, pids reused or not | `RegistrationInv`: at most one entry per session, whose dispatcher stands between register and unregister |
| | `NoSubscriberMissesAnEvent` | `NoEventLost` | `EveryStepAnnounces`: what is logged is received, or in a notice, a delivery or a replay, and each step hands it from one to the next |
| | `InterruptsReachTheirAgents` | `~RecyclePids => []InterruptReachesItsAgent` | `ProcessInv`: the dispatcher's place says whether its process lives and is registered; `AgentInv`: the pid an interrupt holds is its session's or nobody's |
| | `InterruptsDecide` | `InterruptDecides`, if also `SerialInterrupts` | `DecideInv`: while one interrupt is under way the mark is its own, and its place says how the dispatcher will find it |
| | `LifecycleImplemented` | `ImplementsLifecycle`, a refinement, under the same two | `StatusInv`: a dispatcher's place says which status and result its session can have; each step is one of `SessionLifecycle` or none |
| | `ToldFinishedMeansFetchable` | `ToldFinishedCanFetch` | `ToldInv`: a final status in a notice, a delivery or a replay is already true in the table |
| `ConfirmFlow_proofs` | `TypeCorrect` | `TypeOK` | itself |
| | `RunsAreConfirmed` | `NothingRunsUnconfirmed` | `ConfirmInv`: a caller on its way to a dispatch carries a suggestion that was confirmed |
| | `ShownIsFollowed`, `LoopWaitsForWork` | `ShownRunningIsFollowed`, `WaitingIsFollowed` | `FollowInv`: the snapshot of a thread agrees with its place; the thread that vouches for a session changes when its tracker starts |
| | `OneDispatchPerSuggestion`, `AnswersAgree` | `SerialAnswers => []DispatchedOnce`, `[]AnsweredOneWay` | `SuggestionInv`: at most one caller holds a suggestion, and then the table has let it go; `AnswerInv`: a click that decides is the only one, with the token of its own suggestion |
| `Consolidation_proofs` | `ReplacedMemoriesAreGone` | `SuccessorReplaces` | `StoreInv`: ids are dense, so that a new row is nobody's predecessor; `StoreCases` reduces all actions to four statements |
| | `StoreImplementsLifecycle` | `ImplementsMemoryLifecycle`, a refinement | each statement is a step of `MemoryLifecycle` or none |
| | `SupersededIsReplaced` | `SupersededHasSuccessor` | `MemoryInv`: types, and every successor is a row of the table |
| | `FeedbackTellsTheTruth` | `FeedbackIsTrue` | `FeedbackInv`: what a thread is about to write as feedback is so and logged; final rows and log rows stay |
| | `RunsAreWorkedOn` | `RunningIsWorkedOn` | `RunInv`: whether a run is "running" can be told from where its thread stands and whether anything failed |
| | `RetriesDoNotDuplicate` | `RetryDoesNotDuplicate` | `DuplicateInv`: a thread that has come to its INSERT has no active row with that text |
| `Settings_proofs` | `RemindersAreTrue` | `ReminderIsTrue` | `UpdateInv`: a package on the disk is missing, torn or its own version's; a check about to tell has installed its version, and the one that told last is fresh as long as its reminder stands |
| | `LastSettingsStay` | `LastKnownIsKept`, an action property | one case per action |
| `Observation_proofs` | `RecordsAreLostOnlyIfDisturbed` | `LostOnlyIfDisturbed` | `LastInv`: a last line without its end belongs to a thread still writing it, or an exit or a failed write left it there and marked what comes next |
| | `TheTailIsTold` | `TailIsTold`, an action property | byte offsets are numbers, and start at 0 |
| | `TheContextIsTrue` | `ContextIsTrue` | `SightInv`: the sightings in the buffer, with the round's own, have places among the user's moves; `SwitchesAreMoves` maps switches to moves one to one |
| `MemoryArchive_proofs` | `SearchIsComplete` | `IndexIsComplete` | `PlaceInv`, `IndexInv`: no import is past its migrations before the trigger exists |
| | `SeedsAreSound` | `SeedIsSound` | `SeedInv`: one invocation got past the first thread, and what it made is made in order |
| | `BuildsAreExact` | `BuildIsExact` | `BuildInv`: a build that met no other is alone with its slices |
| `LedgerCommands_proofs` | `LedgerStaysSound` | `LedgerIsSound` | `MainInv`: whoever works has the main thread; `EventInv`, `RecordingInv`, `LinesInv`: what of an event is there at each statement, and that the log consists of lines while no write failed |
| | `JobRowsAreTrue` | `JobsTellTheTruth` | `CallInv`: the call under way is about the last job, and what it made so far is known; `Truth`: a job that is not under way and was not given up has its final row |
| | `ReviewersSeeEveryResult` | `ResultsAreReviewable` | `SampleInv`, `NoteInv`: results are ahead of notes by what is between the two statements |
| `Algorithms_proofs` | `RoundTrip`, `SessionRequestsArrive`, `EndIsHeard`, `ResultIsTold` | of `RelayWire`: what is sent is what is understood | encoding and decoding of one field, then of all |
| | `RefusalIsNoSuccess`, `InferenceIsRefused` | what is refused, and how it is heard | the wire types of single fields |
| | `ProtectedLinesFit`, `LogTailIsShown`, `FeedbackReachesRelay` | of `PromptContext`: sizes | bounds of each part, added |
| | `BestAreRecalled`, `RecallRepeats` | recall takes the best up to its limit, and takes them again | the order is total, so that who comes before another has fewer before it; a rank that a mark can only improve |
| | `FoundIsAsked`, `FewAreAllFound`, `BestIsLost`, `NowHasNoSlices` | of `MemorySearch`: what a search may return | cardinalities of the parts |

They rest on the theorems of the library about finite sets, and one about the well-founded order of numbers, and on the constants' assumptions, which TLC evaluates
in every run of these modules: `NoneAssumption`, `StreamsAssumption`, `EngineAssumption`, `BoundsAssumption`, the
`CommandsAssumption` of `ConfirmFlow` and that of `LedgerCommands`, `SettingsAssumption`, `LogAssumption`,
`ObservationAssumption`, `StoreAssumption`, `ConsolidationAssumption`, `ArchiveAssumption`, `LedgerAssumption`,
`DistillationAssumption` and `EvaluationAssumption`. They say that bounds are numbers and that special values are no
members of the sets they are told apart from.

Three hypotheses are no such assumptions but switches of the models; the theorems that need them state them.
`~RecyclePids`: the system gives no pid out again. `SerialInterrupts`: clients wait for one interrupt before
they send the next for the same session. `SerialAnswers`: the user begins no answer between another one's read of the
suggestion and its clearing.
The code enforces none of them; section 4 says what the models show without.

Why an invariant has to be stronger than its property:

* `EndedHasResult` says nothing of a session that has not ended, and so not that its result was stored before.
* `DispatchedOnce` counts what has been dispatched; a second caller that has read the same suggestion but not come to
  its dispatch breaks it one step later. So no two callers may hold one.
* `FeedbackIsTrue` is about rows of feedback. Between a change and its feedback lie two statements of the thread and any
  number of the others', and the change must survive them in the thread's hand.
* `LostOnlyIfDisturbed` looks at texts that share a line. Whether the next text will is decided by the end of the
  file before it is written.
* `ContextIsTrue` compares two counts. Neither is inductive: a round that fails, an entry that leaves the ring and
  a move change them apart. What lasts is where each sighting lies among the moves.
* `ResultsAreReviewable` lets results and notes differ by one between two statements; what must be known is whose
  statements these are.

Model-checked only are the liveness properties (`InterruptAnswered`, `EndIsReported`, `TaskReleasesLoop`,
`ConfirmedIsTried`, `SuggestionDoesNotLinger`, `SettingsReachLoop`, `WindowIsJudged`, `DistillationEnds`): fairness and
`ENABLED` are out of the prover's reach. The refinements are proved for the safety part of the abstract
specifications, which is all they state. Induction over data is out of reach too: the sums and sorts of the operator modules
are stated by what they yield (bounds, minima, cardinalities), not by recursion.

## 6. Not modelled

* **Worker pool and inference routing** (`relay-engine/src/{worker_session,inference_router}.rs`): there is no behaviour.
  `inference_router.rs:71` uses a name that is not defined; and `worker_session.rs:128` spawns a task,
  `main.rs:559` asks for the runtime, on threads that have none, which panics before any
  message is handled. `RelayWire` has what becomes of the requests.
* **Box worker**: the other end of that pool; no request can reach it, and its heartbeats go to a port that takes them for registrations.
* **Runtime state file**: counters for display with one writer.
* **Model client, executor, capture**: HTTP, parsing and screenshots; `Observation` and `ConfirmFlow` take their outcomes as inputs.
* **Tray, windows, toast verification**: user interface.
* **Other sources that are not compiled** (`competition_commands`, `executor_session_registry`, `confirmation_flow`,
  `context_admission`, `dashboard_commands`, `human_memory`): no module declares them, nothing drives them together.
* **API server**: a TypeScript service the desktop and engine of this revision do not call; each request runs to completion over one store.
* **Core library, command line tools, web site**: no state between calls.

Inside the modelled parts: ledger queries by session, type and page, and the files of several days; the
projections of the memory; providers of embeddings, which no caller enables; the consolidation's idle and cooldown clocks; the
judgments of `store_error_judgment`; the opening and accepting of connections; and the wording of every text.

---------------------------- MODULE RelayEngine ----------------------------
(***************************************************************************)
(* The agent sessions of the relay engine: the request handlers of         *)
(* cozmio/relay-engine/src/main.rs and the Claude Code connector of        *)
(* agents/claude_code.rs, over the shared tables of SessionManager.        *)
(*                                                                         *)
(* Threads: one handler per dispatch request, the dispatcher thread it     *)
(* starts, the two threads reading the agent's output, one handler per     *)
(* interrupt request, one per subscription.  Each has a program counter    *)
(* and one action per statement that touches shared state.                 *)
(***************************************************************************)
EXTENDS SessionManager

CONSTANTS
    MaxLog,           \* bound: no output line is read once a log has MaxLog entries
    RecyclePids,      \* whether the system gives a freed pid out again
    SerialInterrupts  \* whether clients wait for an interrupt before the next

ASSUME EngineAssumption == /\ MaxLog \in Nat
                           /\ RecyclePids \in BOOLEAN
                           /\ SerialInterrupts \in BOOLEAN

VARIABLES
    handlerPc,    \* handle_dispatch, per session it creates
    dispatchPc,   \* the thread started by ClaudeCodeConnector::dispatch
    readerPc,     \* spawn_output_reader threads
    interruptPc,  \* handle_interrupt, per request
    interruptOf,  \* session the request names
    interruptPid, \* pid the handler found in the process table
    os,           \* the agent process: none, running, exited (zombie), reaped
    pidOf,        \* its pid
    outcome,      \* how it ended: ok, failed, killed
    received      \* events written to each subscription connection

pcVars == <<handlerPc, dispatchPc, readerPc, interruptPc, interruptOf, interruptPid>>
osVars == <<os, pidOf, outcome>>
vars == <<managerVars, handlerPc, dispatchPc, readerPc, interruptPc, interruptOf,
          interruptPid, os, pidOf, outcome, received>>

HandlerLabel == {"off", "lookup", "reject", "reply", "done"}
DispatchLabel == {"off", "spawn", "register", "announce", "readers", "wait", "join",
                  "unregister", "checkFlag", "checkStatus", "saveResult", "finish",
                  "clearFlag", "markInterrupted", "saveInterrupted",
                  "saveError", "logError", "done"}
InterruptLabel == {"idle", "mark", "kill", "log", "unregister", "setStatus",
                   "clear", "ok", "error"}

(* Shared shape of the thread steps: the thread is at one label, has no    *)
(* publication under way, and moves to another.                            *)
HandlerStep(s, from, to) ==
    /\ handlerPc[s] = from /\ Ready(Handler(s))
    /\ handlerPc' = [handlerPc EXCEPT ![s] = to]
    /\ UNCHANGED <<readerPc, interruptPc, interruptOf, interruptPid, osVars, received>>

DispatchStep(s, from, to) ==
    /\ dispatchPc[s] = from /\ Ready(Dispatcher(s))
    /\ dispatchPc' = [dispatchPc EXCEPT ![s] = to]
    /\ UNCHANGED <<handlerPc, interruptPc, interruptOf, interruptPid, received>>

InterruptStep(i, from, to) ==
    /\ interruptPc[i] = from /\ Ready(Interrupter(i))
    /\ interruptPc' = [interruptPc EXCEPT ![i] = to]
    /\ UNCHANGED <<handlerPc, dispatchPc, readerPc, received>>
-----------------------------------------------------------------------------
Init ==
    /\ ManagerInit
    /\ handlerPc = [s \in Sessions |-> "off"]
    /\ dispatchPc = [s \in Sessions |-> "off"]
    /\ readerPc = [k \in Streams \X Sessions |-> "off"]
    /\ interruptPc = [i \in Interrupts |-> "idle"]
    /\ interruptOf = [i \in Interrupts |-> None]
    /\ interruptPid = [i \in Interrupts |-> None]
    /\ os = [s \in Sessions |-> "none"]
    /\ pidOf = [s \in Sessions |-> None]
    /\ outcome = [s \in Sessions |-> "none"]
    /\ received = [c \in Clients |-> <<>>]

-----------------------------------------------------------------------------
(* handle_dispatch *)

HandleDispatch(s) ==
    /\ HandlerStep(s, "off", "lookup")
    /\ CreateSession(s)
    /\ UNCHANGED dispatchPc

(* The agent is registered: ClaudeCodeConnector::dispatch sets the session *)
(* running and starts the dispatcher thread; it never returns an error.    *)
DispatchToAgent(s) ==
    /\ HandlerStep(s, "lookup", "reply")
    /\ UpdateStatus(Handler(s), s, "Running")
    /\ dispatchPc' = [dispatchPc EXCEPT ![s] = "spawn"]

\* Mutant: the rejected session gets no result.
AgentNotFoundSilently(s) ==
    /\ HandlerStep(s, "lookup", "reject")
    /\ UNCHANGED <<managerVars, dispatchPc>>

AgentNotFound(s) ==
    /\ HandlerStep(s, "lookup", "reject")
    /\ SetResult(s, "failed")
    /\ UNCHANGED dispatchPc

RejectDispatch(s) ==
    /\ HandlerStep(s, "reject", "reply")
    /\ UpdateStatus(Handler(s), s, "Failed")
    /\ UNCHANGED dispatchPc

(* From here on the client knows the session id. *)
ReplyDispatch(s) ==
    /\ HandlerStep(s, "reply", "done")
    /\ UNCHANGED <<managerVars, dispatchPc>>
-----------------------------------------------------------------------------
(* The dispatcher thread of ClaudeCodeConnector::dispatch *)

InUse(p) == \E q \in Sessions : pidOf[q] = p /\ os[q] \in {"running", "exited"}

SpawnProcess(s) ==
    /\ DispatchStep(s, "spawn", "register")
    /\ \E p \in Pids :
         /\ IF RecyclePids THEN ~InUse(p) ELSE \A q \in Sessions : pidOf[q] # p
         /\ pidOf' = [pidOf EXCEPT ![s] = p]
    /\ os' = [os EXCEPT ![s] = "running"]
    /\ UNCHANGED <<managerVars, readerPc, outcome>>

\* Mutant: a failed spawn is logged but no result is stored.
SpawnFailsNoResult(s) ==
    /\ DispatchStep(s, "spawn", "logError")
    /\ UNCHANGED <<managerVars, readerPc, osVars>>

SpawnFails(s) ==
    /\ DispatchStep(s, "spawn", "saveError")
    /\ UNCHANGED <<managerVars, readerPc, osVars>>

SaveSpawnError(s) ==
    /\ DispatchStep(s, "saveError", "logError")
    /\ SetResult(s, "failed")
    /\ UNCHANGED <<readerPc, osVars>>

LogSpawnError(s) ==
    /\ DispatchStep(s, "logError", "finish")
    /\ AddProgress(Dispatcher(s), s)
    /\ UNCHANGED <<readerPc, osVars>>

Register(s) ==
    /\ DispatchStep(s, "register", "announce")
    /\ RegisterProcess(pidOf[s], s)
    /\ UNCHANGED <<readerPc, osVars>>

AnnounceStart(s) ==
    /\ DispatchStep(s, "announce", "readers")
    /\ AddProgress(Dispatcher(s), s)
    /\ UNCHANGED <<readerPc, osVars>>

StartReaders(s) ==
    /\ DispatchStep(s, "readers", "wait")
    /\ readerPc' = [r \in Streams \X Sessions |->
                      IF r[2] = s THEN "reading" ELSE readerPc[r]]
    /\ UNCHANGED <<managerVars, osVars>>

(* child.wait() reaps the process: from here its pid is free.  An error of *)
(* wait is treated as a failed exit by the code.                           *)
WaitReturns(s) ==
    /\ DispatchStep(s, "wait", "join")
    /\ os[s] = "exited"
    /\ os' = [os EXCEPT ![s] = "reaped"]
    /\ UNCHANGED <<managerVars, readerPc, pidOf, outcome>>

JoinReaders(s) ==
    /\ DispatchStep(s, "join", "unregister")
    /\ \A k \in Streams : readerPc[<<k, s>>] = "done" /\ Ready(Reader(s, k))
    /\ UNCHANGED <<managerVars, readerPc, osVars>>

\* Mutant: the dispatcher leaves its pid in the table.
UnregisterForgotten(s) ==
    /\ DispatchStep(s, "unregister", "checkFlag")
    /\ UNCHANGED <<managerVars, readerPc, osVars>>

Unregister(s) ==
    /\ DispatchStep(s, "unregister", "checkFlag")
    /\ UnregisterProcess(pidOf[s])
    /\ UNCHANGED <<readerPc, osVars>>

\* Mutant: only the status is looked at, not the mark.
CheckFlagIgnored(s) ==
    /\ DispatchStep(s, "checkFlag", "checkStatus")
    /\ UNCHANGED <<managerVars, readerPc, osVars>>

CheckFlag(s) ==
    /\ DispatchStep(s, "checkFlag",
                    IF s \in interruptRequested THEN "clearFlag" ELSE "checkStatus")
    /\ UNCHANGED <<managerVars, readerPc, osVars>>

\* Mutant: the final status is set without storing the result first.
CheckStatusNoResult(s) ==
    /\ DispatchStep(s, "checkStatus",
                    IF status[s] = "Interrupted" THEN "clearFlag" ELSE "finish")
    /\ UNCHANGED <<managerVars, readerPc, osVars>>

CheckStatus(s) ==
    /\ DispatchStep(s, "checkStatus",
                    IF status[s] = "Interrupted" THEN "clearFlag" ELSE "saveResult")
    /\ UNCHANGED <<managerVars, readerPc, osVars>>

SaveResult(s) ==
    /\ DispatchStep(s, "saveResult", "finish")
    /\ SetResult(s, IF outcome[s] = "ok" THEN "ok" ELSE "failed")
    /\ UNCHANGED <<readerPc, osVars>>

Finish(s) ==
    /\ DispatchStep(s, "finish", "done")
    /\ UpdateStatus(Dispatcher(s), s, IF outcome[s] = "ok" THEN "Completed" ELSE "Failed")
    /\ UNCHANGED <<readerPc, osVars>>

ClearFlag(s) ==
    /\ DispatchStep(s, "clearFlag", "markInterrupted")
    /\ ClearInterruptRequested(s)
    /\ UNCHANGED <<readerPc, osVars>>

(* The code skips the update when it reads Interrupted; the update itself  *)
(* is then without effect, so the read needs no step of its own.           *)
MarkInterrupted(s) ==
    /\ DispatchStep(s, "markInterrupted", "saveInterrupted")
    /\ UpdateStatus(Dispatcher(s), s, "Interrupted")
    /\ UNCHANGED <<readerPc, osVars>>

\* Mutant: the return of the interrupted branch is missing.
SaveInterruptedFallsThrough(s) ==
    /\ DispatchStep(s, "saveInterrupted", "saveResult")
    /\ IF result[s] = "none" THEN SetResult(s, "interrupted") ELSE UNCHANGED managerVars
    /\ UNCHANGED <<readerPc, osVars>>

SaveInterrupted(s) ==
    /\ DispatchStep(s, "saveInterrupted", "done")
    /\ IF result[s] = "none" THEN SetResult(s, "interrupted") ELSE UNCHANGED managerVars
    /\ UNCHANGED <<readerPc, osVars>>
-----------------------------------------------------------------------------
(* spawn_output_reader: one thread per pipe. *)

ReaderStep(s, k, to) ==
    /\ readerPc[<<k, s>>] = "reading" /\ Ready(Reader(s, k))
    /\ readerPc' = [readerPc EXCEPT ![<<k, s>>] = to]
    /\ UNCHANGED <<handlerPc, dispatchPc, interruptPc, interruptOf, interruptPid,
                   osVars, received>>

ReadLine(s, k) ==
    /\ logged[s] < MaxLog
    /\ ReaderStep(s, k, "reading")
    /\ AddProgress(Reader(s, k), s)

(* A line that is not valid text is reported and ends the reader. *)
ReadFails(s, k) ==
    /\ logged[s] < MaxLog
    /\ ReaderStep(s, k, "done")
    /\ AddProgress(Reader(s, k), s)

(* The pipe ends once the process, and whoever inherited it, is gone. *)
ReadEnd(s, k) ==
    /\ os[s] \in {"exited", "reaped"}
    /\ ReaderStep(s, k, "done")
    /\ UNCHANGED managerVars
-----------------------------------------------------------------------------
(* handle_interrupt: ClaudeCodeConnector::interrupt *)

InProgress(i) == interruptPc[i] \notin {"idle", "ok", "error"}

(* Only a client that was given the session id asks for its interrupt. *)
MayInterrupt(s) ==
    /\ handlerPc[s] = "done"
    /\ SerialInterrupts => \A j \in Interrupts : ~(InProgress(j) /\ interruptOf[j] = s)

\* Mutant: the handler loses the session id.
FindProcessNoTarget(i, s) ==
    /\ MayInterrupt(s)
    /\ \E p \in Pids :
         /\ processes[p] = s
         /\ interruptPid' = [interruptPid EXCEPT ![i] = p]
    /\ InterruptStep(i, "idle", "mark")
    /\ UNCHANGED <<managerVars, interruptOf, osVars>>

\* Mutant: any registered process is taken for the session's.
FindProcessAny(i, s) ==
    /\ MayInterrupt(s)
    /\ \E p \in Pids :
         /\ processes[p] # None
         /\ interruptPid' = [interruptPid EXCEPT ![i] = p]
    /\ interruptOf' = [interruptOf EXCEPT ![i] = s]
    /\ InterruptStep(i, "idle", "mark")
    /\ UNCHANGED <<managerVars, osVars>>

FindProcess(i, s) ==
    /\ MayInterrupt(s)
    /\ \E p \in Pids :
         /\ processes[p] = s
         /\ interruptPid' = [interruptPid EXCEPT ![i] = p]
    /\ interruptOf' = [interruptOf EXCEPT ![i] = s]
    /\ InterruptStep(i, "idle", "mark")
    /\ UNCHANGED <<managerVars, osVars>>

NoProcessFound(i, s) ==
    /\ MayInterrupt(s)
    /\ \A p \in Pids : processes[p] # s
    /\ interruptOf' = [interruptOf EXCEPT ![i] = s]
    /\ InterruptStep(i, "idle", "error")
    /\ UNCHANGED <<managerVars, interruptPid, osVars>>

MarkRequested(i) ==
    /\ InterruptStep(i, "mark", "kill")
    /\ MarkInterruptRequested(interruptOf[i])
    /\ UNCHANGED <<interruptOf, interruptPid, osVars>>

(* The kill hits whichever process has the pid by now: an agent process,   *)
(* still running or already a zombie, or a stranger the pid was given to.  *)
KillSucceeds(i) ==
    /\ InterruptStep(i, "kill", "log")
    /\ InUse(interruptPid[i]) \/ RecyclePids
    /\ LET hit == {q \in Sessions : pidOf[q] = interruptPid[i] /\ os[q] = "running"}
       IN /\ os' = [q \in Sessions |-> IF q \in hit THEN "exited" ELSE os[q]]
          /\ outcome' = [q \in Sessions |-> IF q \in hit THEN "killed" ELSE outcome[q]]
    /\ UNCHANGED <<managerVars, interruptOf, interruptPid, pidOf>>

KillFails(i) ==
    /\ InterruptStep(i, "kill", "clear")
    /\ UNCHANGED <<managerVars, interruptOf, interruptPid, osVars>>

ClearAfterFailedKill(i) ==
    /\ InterruptStep(i, "clear", "error")
    /\ ClearInterruptRequested(interruptOf[i])
    /\ UNCHANGED <<interruptOf, interruptPid, osVars>>

LogInterrupt(i) ==
    /\ InterruptStep(i, "log", "unregister")
    /\ AddProgress(Interrupter(i), interruptOf[i])
    /\ UNCHANGED <<interruptOf, interruptPid, osVars>>

\* Mutant: the handler expects to find its entry still in the table.
UnregisterKilledWaits(i) ==
    /\ InterruptStep(i, "unregister", "setStatus")
    /\ processes[interruptPid[i]] = interruptOf[i]
    /\ UnregisterProcess(interruptPid[i])
    /\ UNCHANGED <<interruptOf, interruptPid, osVars>>

UnregisterKilled(i) ==
    /\ InterruptStep(i, "unregister", "setStatus")
    /\ UnregisterProcess(interruptPid[i])
    /\ UNCHANGED <<interruptOf, interruptPid, osVars>>

SetInterrupted(i) ==
    /\ InterruptStep(i, "setStatus", "ok")
    /\ UpdateStatus(Interrupter(i), interruptOf[i], "Interrupted")
    /\ UNCHANGED <<interruptOf, interruptPid, osVars>>
-----------------------------------------------------------------------------
(* Subscriptions: handle_subscribe and TcpSessionSubscriber.  A write to a *)
(* connection that was closed fails and the failure is ignored, so closing *)
(* changes nothing here.                                                   *)

Wire(c, e) == received' = [received EXCEPT ![c] = Append(@, e)]

HandleSubscribe(c, s) ==
    /\ handlerPc[s] = "done"
    /\ \A q \in Sessions : c \notin subscribers[q]
    /\ Subscribe(c, s)
    /\ UNCHANGED <<pcVars, osVars, received>>

ReplayNext(c) ==
    /\ ReplayLeft(c)
    /\ Wire(c, ReplayEvent(c))
    /\ Replayed(c)
    /\ UNCHANGED <<pcVars, osVars>>

StartPublish(t) ==
    /\ \E m \in notices : m.by = t /\ LookupSubscribers(m)
    /\ UNCHANGED <<pcVars, osVars, received>>

SendEvent(t) ==
    /\ \E d \in deliveries : /\ d.by = t
                             /\ Wire(d.to, d.event)
                             /\ Delivered(d)
    /\ UNCHANGED <<pcVars, osVars>>
-----------------------------------------------------------------------------
(* The agent process itself. *)
ProcessExits(s) ==
    /\ os[s] = "running"
    /\ os' = [os EXCEPT ![s] = "exited"]
    /\ \E r \in {"ok", "failed"} : outcome' = [outcome EXCEPT ![s] = r]
    /\ UNCHANGED <<managerVars, pcVars, pidOf, received>>

-----------------------------------------------------------------------------
HandlerNext(s) == \/ HandleDispatch(s) \/ DispatchToAgent(s) \/ AgentNotFound(s)
                  \/ RejectDispatch(s) \/ ReplyDispatch(s)

DispatcherNext(s) ==
    \/ SpawnProcess(s) \/ SpawnFails(s) \/ SaveSpawnError(s) \/ LogSpawnError(s)
    \/ Register(s) \/ AnnounceStart(s) \/ StartReaders(s) \/ WaitReturns(s)
    \/ JoinReaders(s) \/ Unregister(s) \/ CheckFlag(s) \/ CheckStatus(s)
    \/ SaveResult(s) \/ Finish(s)
    \/ ClearFlag(s) \/ MarkInterrupted(s) \/ SaveInterrupted(s)

ReaderNext(s, k) == ReadLine(s, k) \/ ReadFails(s, k) \/ ReadEnd(s, k)

InterruptRequest(i, s) == FindProcess(i, s) \/ NoProcessFound(i, s)

InterruptNext(i) ==
    \/ MarkRequested(i) \/ KillSucceeds(i) \/ KillFails(i) \/ ClearAfterFailedKill(i)
    \/ LogInterrupt(i) \/ UnregisterKilled(i) \/ SetInterrupted(i)

Publish(t) == StartPublish(t) \/ SendEvent(t)

(* Every request was served and every agent process is gone. *)
AllServed ==
    /\ \A s \in Sessions : handlerPc[s] = "done" /\ dispatchPc[s] \in {"off", "done"}
    /\ \A i \in Interrupts : interruptPc[i] \in {"ok", "error"}
    /\ \A c \in Clients : ~ReplayLeft(c) /\ \E s \in Sessions : c \in subscribers[s]
    /\ notices = {} /\ deliveries = {}
    /\ UNCHANGED vars

Next ==
    \/ \E s \in Sessions : HandlerNext(s) \/ DispatcherNext(s) \/ ProcessExits(s)
    \/ \E s \in Sessions, k \in Streams : ReaderNext(s, k)
    \/ \E i \in Interrupts : InterruptNext(i)
    \/ \E i \in Interrupts, s \in Sessions : InterruptRequest(i, s)
    \/ \E c \in Clients, s \in Sessions : HandleSubscribe(c, s)
    \/ \E c \in Clients : ReplayNext(c)
    \/ \E t \in Threads : Publish(t)
    \/ AllServed

Spec == Init /\ [][Next]_vars

(* Threads run and writes to a connection complete; a pipe is closed once  *)
(* its process is gone.  Nothing obliges clients to send requests, nor an  *)
(* agent process to write or to exit.                                      *)
Fairness ==
    /\ \A s \in Sessions : WF_vars(HandlerNext(s) /\ handlerPc[s] # "off")
                           /\ WF_vars(DispatcherNext(s))
    /\ \A s \in Sessions, k \in Streams : WF_vars(ReadEnd(s, k))
    /\ \A i \in Interrupts : WF_vars(InterruptNext(i))
    /\ \A c \in Clients : WF_vars(ReplayNext(c))
    /\ \A t \in Threads : WF_vars(Publish(t))

FairSpec == Spec /\ Fairness

-----------------------------------------------------------------------------
(* Types of the threads' program counters and of the processes and         *)
(* connections around them; TypeOK adds the session tables they share.     *)
ThreadTypeOK ==
    /\ handlerPc \in [Sessions -> HandlerLabel]
    /\ dispatchPc \in [Sessions -> DispatchLabel]
    /\ readerPc \in [Streams \X Sessions -> {"off", "reading", "done"}]
    /\ interruptPc \in [Interrupts -> InterruptLabel]
    /\ interruptOf \in [Interrupts -> Sessions \cup {None}]
    /\ interruptPid \in [Interrupts -> Pids \cup {None}]
    /\ os \in [Sessions -> {"none", "running", "exited", "reaped"}]
    /\ pidOf \in [Sessions -> Pids \cup {None}]
    /\ outcome \in [Sessions -> {"none", "ok", "failed", "killed"}]
    /\ received \in [Clients -> Seq(Event)]

TypeOK == ManagerTypeOK /\ ThreadTypeOK

-----------------------------------------------------------------------------
Heard(c, e) == \E n \in DOMAIN received[c] : received[c][n] = e

(* The event is on its way to the subscriber: its publication has not      *)
(* looked up the subscribers yet, or is writing to this one, or the replay *)
(* still has it.                                                           *)
Coming(c, s, e) ==
    \/ \E m \in notices : m.about = s /\ m.event = e
    \/ \E d \in deliveries : d.to = c /\ d.event = e
    \/ /\ ~e.terminal
       /\ replay[c].next <= e.entry /\ e.entry <= replay[c].last
    \/ e.terminal /\ replay[c].end = e.status

(* A subscriber misses nothing, whenever it subscribes: every entry of the *)
(* session's log, and its terminal status, was written to it or is on its  *)
(* way.  This is what subscribe's two locks are for.                       *)
NoEventLost ==
    \A s \in Sessions : \A c \in subscribers[s] :
        /\ \A n \in 1..logged[s] : Heard(c, Progress(n)) \/ Coming(c, s, Progress(n))
        /\ status[s] \in TerminalStatus =>
             Heard(c, Terminal(status[s])) \/ Coming(c, s, Terminal(status[s]))

(* A subscriber told that the session completed or failed can fetch the    *)
(* result at once (the desktop's wait_for_result): the result is stored    *)
(* before the status on every path that ends a session.                    *)
ToldFinishedCanFetch ==
    \A s \in Sessions : \A c \in subscribers[s] : \A st \in {"Completed", "Failed"} :
        Heard(c, Terminal(st)) => result[s] # "none"

(* The same for a client that polls the status.  An interrupted session    *)
(* may still lack its result, but then its dispatcher is still on the way  *)
(* to storing one.                                                         *)
EndedHasResult ==
    \A s \in Sessions :
        /\ status[s] \in {"Completed", "Failed"} => result[s] # "none"
        /\ status[s] = "Interrupted" /\ result[s] = "none" => dispatchPc[s] # "done"

(* No process table entry outlives the dispatcher of its session. *)
Unregistered == {"checkFlag", "checkStatus", "saveResult", "finish", "clearFlag",
                 "markInterrupted", "saveInterrupted", "saveError", "logError", "done"}
NoStaleRegistration ==
    \A s \in Sessions : dispatchPc[s] \in Unregistered => \A p \in Pids : processes[p] # s

(* An interrupt request reaches the agent of its session and no other: a   *)
(* running agent can be found from its registration on, and only an agent  *)
(* whose own session somebody asked to interrupt is killed.                *)
RunningCanBeFound ==
    \A s \in Sessions :
        /\ os[s] = "running"
        /\ dispatchPc[s] \in {"announce", "readers", "wait"}
        => processes[pidOf[s]] = s

KillNeedsRequest ==
    \A s \in Sessions : outcome[s] = "killed" => \E i \in Interrupts : interruptOf[i] = s

InterruptReachesItsAgent == RunningCanBeFound /\ KillNeedsRequest

(* An interrupt decides the session's end or leaves no trace: after it was *)
(* answered with success the session is interrupted and stays so, and no   *)
(* mark outlives both its handler and the dispatcher that looks at it.     *)
NoMarkLeft ==
    \A s \in interruptRequested :
        \/ dispatchPc[s] # "done"
        \/ \E i \in Interrupts : InProgress(i) /\ interruptOf[i] = s

InterruptDecides ==
    /\ \A i \in Interrupts : interruptPc[i] = "ok" => status[interruptOf[i]] = "Interrupted"
    /\ NoMarkLeft

(* A stored result is never replaced. *)
ResultIsFinal ==
    [][\A s \in Sessions : result[s] # "none" => result'[s] = result[s]]_vars

(* The engine implements the session's abstract life cycle. *)
Lifecycle == INSTANCE SessionLifecycle
    WITH Sessions <- Sessions, status <- status, result <- result
ImplementsLifecycle == Lifecycle!LifeSpec

(* Once its agent process is gone, a session ends with a result, whatever  *)
(* interrupts and subscriptions do meanwhile, and every subscriber is told *)
(* of the end.                                                             *)
EndIsReported ==
    \A s \in Sessions :
        /\ os[s] = "exited" ~> (status[s] \in TerminalStatus /\ result[s] # "none")
        /\ \A c \in Clients :
              (c \in subscribers[s] /\ os[s] = "exited")
                  ~> (\E n \in DOMAIN received[c] : received[c][n].terminal)

(* Every interrupt request is answered. *)
InterruptAnswered ==
    \A i \in Interrupts : interruptPc[i] = "mark" ~> interruptPc[i] \in {"ok", "error"}
=============================================================================

--------------------------- MODULE SessionManager ---------------------------
(***************************************************************************)
(* The session table of the relay engine                                   *)
(* (cozmio/relay-engine/src/session.rs).                                   *)
(*                                                                         *)
(* A SessionManager is shared by every thread of the engine.  Its tables   *)
(* are behind separate locks, so what the source does under one lock is    *)
(* one operator here, and a method that takes two locks in turn is two:    *)
(* update_status and add_progress change the session under its lock and    *)
(* only then look up the subscribers and write to them one after the       *)
(* other.  A thread is busy with that publication until its last write.    *)
(*                                                                         *)
(* A progress entry is identified by its position in the session's log;    *)
(* its text, level and time are left out.                                  *)
(***************************************************************************)
EXTENDS Naturals, Sequences

CONSTANTS
    Sessions,    \* session ids (fresh UUIDs: one per dispatch request)
    Pids,        \* operating system process ids
    Clients,     \* connections to the subscription port
    Streams,     \* the output pipes of an agent process that are read
    Interrupts,  \* interrupt requests, each served by a thread of its own
    None         \* no session, no process

ASSUME NoneAssumption == None \notin Sessions \cup Pids
ASSUME StreamsAssumption == Streams \subseteq {"stdout", "stderr"}

VARIABLES
    status,             \* status of each session, "Absent" before it exists
    logged,             \* length of progress_logs
    result,             \* final_result
    processes,          \* pid -> session, for interrupt
    interruptRequested, \* sessions an interrupt handler has marked
    subscribers,        \* connections subscribed to each session
    notices,            \* events whose subscribers were not looked up yet
    deliveries,         \* events being written, one per subscriber
    replay              \* what subscribe still has to replay to a connection

sessionVars == <<status, logged, result>>
tableVars   == <<processes, interruptRequested>>
feedVars    == <<subscribers, notices, deliveries, replay>>
managerVars == <<status, logged, result, processes, interruptRequested,
                 subscribers, notices, deliveries, replay>>

-----------------------------------------------------------------------------
(* Threads that call into the manager. *)
Dispatcher(s)  == <<"dispatch", s>>
Handler(s)     == <<"handler", s>>
Reader(s, k)   == <<k, s>>
Interrupter(i) == <<"interrupt", i>>

Threads == (({"dispatch", "handler"} \cup Streams) \X Sessions)
              \cup ({"interrupt"} \X Interrupts)

SessionStatus == {"Pending", "Running", "Waiting",
                  "Completed", "Failed", "Interrupted"}
TerminalStatus == {"Completed", "Failed", "Interrupted"}
Results == {"ok", "failed", "interrupted"}

(* A ProgressEvent on the wire: progress events carry terminal_status 0. *)
Event == [terminal : BOOLEAN, status : SessionStatus, entry : Nat]
Progress(n)  == [terminal |-> FALSE, status |-> "Pending", entry |-> n]
Terminal(st) == [terminal |-> TRUE, status |-> st, entry |-> 0]

NoReplay == [next |-> 1, last |-> 0, end |-> "Pending"]

(* The thread has no publication under way, so it runs its next statement. *)
Ready(t) == /\ \A m \in notices : m.by # t
            /\ \A d \in deliveries : d.by # t

-----------------------------------------------------------------------------
ManagerInit ==
    /\ status = [s \in Sessions |-> "Absent"]
    /\ logged = [s \in Sessions |-> 0]
    /\ result = [s \in Sessions |-> "none"]
    /\ processes = [p \in Pids |-> None]
    /\ interruptRequested = {}
    /\ subscribers = [s \in Sessions |-> {}]
    /\ notices = {}
    /\ deliveries = {}
    /\ replay = [c \in Clients |-> NoReplay]

CreateSession(s) ==
    /\ status[s] = "Absent"
    /\ status' = [status EXCEPT ![s] = "Pending"]
    /\ UNCHANGED <<logged, result, tableVars, feedVars>>

\* Mutant: an interrupt is not announced to the subscribers.
UpdateStatusQuietInterrupt(t, s, st) ==
    /\ status' = [status EXCEPT ![s] = st]
    /\ notices' = IF status[s] # st /\ st \in {"Completed", "Failed"}
                  THEN notices \cup {[by |-> t, about |-> s, event |-> Terminal(st)]}
                  ELSE notices
    /\ UNCHANGED <<logged, result, tableVars, subscribers, deliveries, replay>>

(* The status is overwritten whatever it was; the subscribers hear of it   *)
(* only when it changed and is terminal.                                   *)
UpdateStatus(t, s, st) ==
    /\ status' = [status EXCEPT ![s] = st]
    /\ notices' = IF status[s] # st /\ st \in TerminalStatus
                  THEN notices \cup {[by |-> t, about |-> s, event |-> Terminal(st)]}
                  ELSE notices
    /\ UNCHANGED <<logged, result, tableVars, subscribers, deliveries, replay>>

AddProgress(t, s) ==
    /\ logged' = [logged EXCEPT ![s] = @ + 1]
    /\ notices' = notices \cup
                    {[by |-> t, about |-> s, event |-> Progress(logged[s] + 1)]}
    /\ UNCHANGED <<status, result, tableVars, subscribers, deliveries, replay>>

SetResult(s, r) ==
    /\ result' = [result EXCEPT ![s] = r]
    /\ UNCHANGED <<status, logged, tableVars, feedVars>>

RegisterProcess(p, s) ==
    /\ processes' = [processes EXCEPT ![p] = s]
    /\ UNCHANGED <<sessionVars, interruptRequested, feedVars>>

UnregisterProcess(p) ==
    /\ processes' = [processes EXCEPT ![p] = None]
    /\ UNCHANGED <<sessionVars, interruptRequested, feedVars>>

MarkInterruptRequested(s) ==
    /\ interruptRequested' = interruptRequested \cup {s}
    /\ UNCHANGED <<sessionVars, processes, feedVars>>

ClearInterruptRequested(s) ==
    /\ interruptRequested' = interruptRequested \ {s}
    /\ UNCHANGED <<sessionVars, processes, feedVars>>

\* Mutant: a session that has already ended is not announced as such.
SubscribeNoTerminal(c, s) ==
    /\ status[s] # "Absent"
    /\ subscribers' = [subscribers EXCEPT ![s] = @ \cup {c}]
    /\ replay' = [replay EXCEPT ![c] =
                    [next |-> 1, last |-> logged[s], end |-> "Running"]]
    /\ UNCHANGED <<sessionVars, tableVars, notices, deliveries>>

(* The subscriber is added and the log and status are read under the       *)
(* subscribers lock; the replay of what was read starts once it is freed.  *)
Subscribe(c, s) ==
    /\ status[s] # "Absent"
    /\ subscribers' = [subscribers EXCEPT ![s] = @ \cup {c}]
    /\ replay' = [replay EXCEPT ![c] =
                    [next |-> 1, last |-> logged[s], end |-> status[s]]]
    /\ UNCHANGED <<sessionVars, tableVars, notices, deliveries>>

(* notify_progress and notify_terminal: clone the list of subscribers,     *)
(* then write to each.                                                     *)
LookupSubscribers(m) ==
    /\ notices' = notices \ {m}
    /\ deliveries' = deliveries \cup
         {[by |-> m.by, to |-> c, event |-> m.event] : c \in subscribers[m.about]}
    /\ UNCHANGED <<sessionVars, tableVars, subscribers, replay>>

(* One write of a publication is over. *)
Delivered(d) ==
    /\ deliveries' = deliveries \ {d}
    /\ UNCHANGED <<sessionVars, tableVars, subscribers, notices, replay>>

(* What subscribe replays next: the entries it read, in order, then the    *)
(* terminal status it read.                                                *)
ReplayLeft(c) == \/ replay[c].next <= replay[c].last
                 \/ replay[c].end \in TerminalStatus

ReplayEvent(c) == IF replay[c].next <= replay[c].last
                  THEN Progress(replay[c].next)
                  ELSE Terminal(replay[c].end)

Replayed(c) ==
    /\ replay' = IF replay[c].next <= replay[c].last
                 THEN [replay EXCEPT ![c].next = @ + 1]
                 ELSE [replay EXCEPT ![c] = NoReplay]
    /\ UNCHANGED <<sessionVars, tableVars, subscribers, notices, deliveries>>
-----------------------------------------------------------------------------
(* Types of the session tables and of what is being published. *)
ManagerTypeOK ==
    /\ status \in [Sessions -> SessionStatus \cup {"Absent"}]
    /\ logged \in [Sessions -> Nat]
    /\ result \in [Sessions -> Results \cup {"none"}]
    /\ processes \in [Pids -> Sessions \cup {None}]
    /\ interruptRequested \in SUBSET Sessions
    /\ subscribers \in [Sessions -> SUBSET Clients]
    /\ notices \in SUBSET [by : Threads, about : Sessions, event : Event]
    /\ deliveries \in SUBSET [by : Threads, to : Clients, event : Event]
    /\ replay \in [Clients -> [next : Nat, last : Nat,
                               end : SessionStatus \cup {"Absent"}]]
=============================================================================

----------------------------- MODULE MemoryStore -----------------------------
(***************************************************************************)
(* The store of agent memories (cozmio_memory/src/agent_memory.rs) in one  *)
(* SQLite file: memories, the operations that changed them, the events     *)
(* they are drawn from and the consolidation runs.  Each thread of the     *)
(* program opens a connection of its own, so the lock inside Database      *)
(* orders nothing between threads: each operator below is one statement,   *)
(* or one transaction, and what SQLite makes atomic.  Left out are expiry, *)
(* which nothing sets, and the use counts of procedure memories.           *)
(***************************************************************************)
EXTENDS Naturals

CONSTANTS
    Threads,      \* threads and commands that open the store, one job each
    Events,       \* what experience_recorder can record
    Contents,     \* layer and body of a memory
    Reasons,      \* what a user gives as the reason of a rejection
    Forbidden,    \* the reasons with a label the recorder refuses
    MaxMemories,  \* bound: rows of agent_memories
    None

ASSUME StoreAssumption ==
    /\ MaxMemories \in Nat
    /\ Forbidden \subseteq Reasons
    /\ None \notin Threads \cup Events \cup Contents \cup Reasons

Ids == 1 .. MaxMemories
NoId == 0   \* NULL in a column that refers to a memory

VARIABLES
    rows,        \* memories inserted so far: ids 1 .. rows
    life,        \* lifecycle of each memory, "absent" where there is no row
    over,        \* supersedes_id
    text,        \* layer and body, and the source the memory cites
    author,      \* which thread inserted the memory (no column says it)
    operations,  \* memory_operations: operation_type, target, result
    events,      \* experience_sources: the events recorded
    feedback,    \* experience_sources: the feedback about memories
    runs         \* consolidation_runs: the status of each thread's run

storeVars == <<rows, life, over, text, author, operations, events, feedback, runs>>

Lifecycles == {"absent", "active", "superseded", "rejected"}
NoText == [what |-> None, ref |-> None]
Texts == [what : Contents \cup {None}, ref : Events \cup {None}]
Operation(kind, target, result) == [kind |-> kind, target |-> target, result |-> result]
Operations == [kind : {"inserted", "remembered", "superseded", "rejected"},
               target : Ids \cup {NoId}, result : Ids]
Feedback(kind, memory, cause) == [kind |-> kind, memory |-> memory, cause |-> cause]

\* the file the program finds: events, and the memory of an earlier version
StoreInit ==
    /\ rows \in {0, 1} \cap (0 .. MaxMemories)
    /\ life = [i \in Ids |-> IF i <= rows THEN "active" ELSE "absent"]
    /\ over = [i \in Ids |-> NoId]
    /\ text = [i \in Ids |-> NoText]
    /\ author = [i \in Ids |-> None]
    /\ operations = {Operation("inserted", i, i) : i \in 1 .. rows}
    /\ events \in SUBSET Events
    /\ feedback = {}
    /\ runs = [t \in Threads |-> "none"]

Exists(i) == life[i] # "absent"
Full == rows = MaxMemories

\* Mutant: the search leaves out the newest memory.
ExactActiveButNewest(c, e) ==
    \E i \in Ids : i < rows /\ life[i] = "active" /\ text[i] = [what |-> c, ref |-> e]

\* list_active, compared by find_exact_active_memory
ExactActive(c, e) ==
    \E i \in Ids : life[i] = "active" /\ text[i] = [what |-> c, ref |-> e]


\* INSERT INTO agent_memories by thread t
InsertMemory(t, c, e, old) ==
    /\ ~Full
    /\ rows' = rows + 1
    /\ over' = [over EXCEPT ![rows'] = old]
    /\ text' = [text EXCEPT ![rows'] = [what |-> c, ref |-> e]]
    /\ author' = [author EXCEPT ![rows'] = t]

\* run_migrations at every open: rows of memory_operations without a target
\* get the memory they are about
Backfill ==
    operations' = {IF o.target = NoId THEN [o EXCEPT !.target = o.result] ELSE o : o \in operations}

LogOperation(kind, target, result) ==
    operations' = operations \cup {Operation(kind, target, result)}

\* Mutant: the old memory keeps its lifecycle.
SupersedeKeepsOld(t, i, c, e) ==
    /\ Exists(i)
    /\ InsertMemory(t, c, e, i)
    /\ life' = [life EXCEPT ![rows'] = "active"]
    /\ operations' = operations \cup {Operation("remembered", i, rows'), Operation("superseded", i, i)}
    /\ UNCHANGED <<events, feedback, runs>>

\* Mutant: the new memory does not say what it supersedes.
SupersedeUnlinked(t, i, c, e) ==
    /\ Exists(i)
    /\ InsertMemory(t, c, e, NoId)
    /\ life' = [life EXCEPT ![rows'] = "active", ![i] = "superseded"]
    /\ operations' = operations \cup {Operation("remembered", i, rows'), Operation("superseded", i, i)}
    /\ UNCHANGED <<events, feedback, runs>>

\* the transaction of supersede_memory; the target may have any lifecycle
Supersede(t, i, c, e) ==
    /\ Exists(i)
    /\ InsertMemory(t, c, e, i)
    /\ life' = [life EXCEPT ![rows'] = "active", ![i] = "superseded"]
    /\ operations' = operations \cup {Operation("remembered", i, rows'), Operation("superseded", i, i)}
    /\ UNCHANGED <<events, feedback, runs>>

\* Mutant: to reject a rejected memory is to take the rejection back.
RejectToggles(i) ==
    /\ Exists(i)
    /\ life' = [life EXCEPT ![i] = IF @ = "rejected" THEN "active" ELSE "rejected"]
    /\ UNCHANGED <<rows, over, text, author, operations, events, feedback, runs>>

\* the UPDATE of reject_with_reason, whatever the lifecycle was
Reject(i) ==
    /\ Exists(i)
    /\ life' = [life EXCEPT ![i] = "rejected"]
    /\ UNCHANGED <<rows, over, text, author, operations, events, feedback, runs>>

\* create_, complete_ and fail_consolidation_run
SetRun(t, status) ==
    /\ runs' = [runs EXCEPT ![t] = status]
    /\ UNCHANGED <<rows, life, over, text, author, operations, events, feedback>>
=============================================================================

---------------------------- MODULE MemoryArchive ----------------------------
(***************************************************************************)
(* The archive side of cozmio_memory: events imported from the action log  *)
(* and indexed for search, context slices built from them, task threads,   *)
(* decisions and skills.  memory-cli works on memory.db, one connection    *)
(* per invocation; the desktop's commands (memory_commands.rs) open        *)
(* cozmio.db for each call.  Every SQL statement is its own transaction,   *)
(* and several invocations may be under way; each may be killed.           *)
(***************************************************************************)
EXTENDS Integers, Sequences, FiniteSets

CONSTANTS Procs,          \* invocations of memory-cli and desktop calls
          Log,            \* the action log: a 15-minute window per line
          Malformed,      \* the window of a line that does not parse
          DemoThreads,    \* names the seed upserts, in order
          OtherThread,    \* a name the user gives a thread
          DemoRows,       \* rows the seed adds besides: decisions and a skill
          MaxStarts, MaxEvents   \* bounds of the model

Cli == "memory.db"
Desktop == "cozmio.db"
Dbs == {Cli, Desktop}
Commands == {"seed", "import", "build", "rebuild", "update"}
Names == { DemoThreads[i] : i \in DOMAIN DemoThreads } \cup {OtherThread}
WellFormed == { i \in DOMAIN Log : Log[i] # Malformed }
Windows == { Log[i] : i \in WellFormed }

\* The seed's threads have names of their own.
ASSUME ArchiveAssumption ==
  /\ DemoThreads \in Seq(Names) /\ DemoThreads # << >>
  /\ \A i, j \in DOMAIN DemoThreads : DemoThreads[i] = DemoThreads[j] => i = j
  /\ OtherThread \notin { DemoThreads[i] : i \in DOMAIN DemoThreads }
  /\ DemoRows \in Nat \ {0} /\ MaxStarts \in Nat /\ MaxEvents \in Nat

VARIABLES tables,     \* databases whose tables have been created
          trigger,    \* and those with the trigger that indexes new events
          events,     \* memory_events of memory.db, a line of the log per row
          indexed,    \* rows the full-text index holds
          slices,     \* context_slices of memory.db, with ids never reused
          nextSlice,  \* the next id
          threads,    \* task_threads: names, in order of their rows
          demo,       \* how often each of the seed's other rows is there
          pc, cmd,    \* where an invocation is, and its command
          local,      \* what it has in hand
          starts,     \* how many invocations there have been
          alone       \* history: builds no other build or fault has met

shared == <<tables, trigger, events, indexed, slices, nextSlice, threads, demo>>
vars == <<shared, pc, cmd, local, starts, alone>>

\* at: the line or thread it is at; read: the events a build has read;
\* rowid: last_insert_rowid of the connection; thread: the row an upsert
\* returned.
Nothing == [at |-> 1, read |-> {}, todo |-> {}, rowid |-> 0, name |-> OtherThread,
            thread |-> 0]

Init == /\ tables = {} /\ trigger = {}
        /\ events = << >> /\ indexed = {}
        /\ slices = {} /\ nextSlice = 1
        /\ threads = [d \in Dbs |-> << >>]
        /\ demo = [i \in 1..DemoRows |-> 0]
        /\ pc = [p \in Procs |-> "idle"]
        /\ cmd = [p \in Procs |-> "none"]
        /\ local = [p \in Procs |-> Nothing]
        /\ starts = 0
        /\ alone = {}

Goto(p, place) == pc' = [pc EXCEPT ![p] = place]
DbOf(p) == IF cmd[p] = "update" THEN Desktop ELSE Cli
Building(p) == cmd[p] = "build" /\ pc[p] \in {"delete", "insert", "built"}

----------------------------------------------------------------------------
(* main of memory-cli: the tables are created, at last the trigger, then   *)
(* the command runs.  A desktop call opens its database as it is.          *)

Start(p, c) ==
  /\ pc[p] = "idle" /\ starts < MaxStarts
  /\ starts' = starts + 1
  /\ cmd' = [cmd EXCEPT ![p] = c]
  /\ \E name \in (IF c = "update" THEN Names ELSE {OtherThread}) :
       local' = [local EXCEPT ![p] = [Nothing EXCEPT !.name = name]]
  /\ Goto(p, IF c = "update" THEN "upsert" ELSE "tables")
  /\ UNCHANGED <<shared, alone>>

FirstStep == [seed |-> "upsert", import |-> "line", build |-> "read",
              rebuild |-> "rebuild"]

\* Mutant: a database that has its tables is taken as migrated.
CreateTablesOnce(p) ==
  /\ pc[p] = "tables"
  /\ tables' = tables \cup {Cli}
  /\ Goto(p, IF Cli \in tables THEN FirstStep[cmd[p]] ELSE "trigger")
  /\ UNCHANGED <<trigger, events, indexed, slices, nextSlice, threads, demo, cmd,
                 local, starts, alone>>

CreateTables(p) == /\ pc[p] = "tables"
                   /\ tables' = tables \cup {Cli}
                   /\ Goto(p, "trigger")
                   /\ UNCHANGED <<trigger, events, indexed, slices, nextSlice,
                                  threads, demo, cmd, local, starts, alone>>

CreateTrigger(p) == /\ pc[p] = "trigger"
                    /\ trigger' = trigger \cup {Cli}
                    /\ Goto(p, FirstStep[cmd[p]])
                    /\ UNCHANGED <<tables, events, indexed, slices, nextSlice,
                                   threads, demo, cmd, local, starts, alone>>

\* The desktop's consolidation opens cozmio.db with migrations.
DesktopMigrates == /\ Desktop \notin tables
                   /\ tables' = tables \cup {Desktop}
                   /\ trigger' = trigger \cup {Desktop}
                   /\ UNCHANGED <<events, indexed, slices, nextSlice, threads,
                                  demo, pc, cmd, local, starts, alone>>

----------------------------------------------------------------------------
(* import_from_file: a row per line that parses; the trigger indexes it.   *)
(* A statement that fails is counted and the import goes on.               *)

ImportLine(p) ==
  LET line == local[p].at
      row == Len(events) + 1
  IN  /\ pc[p] = "line" /\ line \in DOMAIN Log
      /\ local' = [local EXCEPT ![p].at = line + 1]
      /\ IF line \in WellFormed
           THEN /\ Len(events) < MaxEvents
                /\ events' = Append(events, line)
                /\ indexed' = IF Cli \in trigger THEN indexed \cup {row} ELSE indexed
           ELSE UNCHANGED <<events, indexed>>
      /\ UNCHANGED <<tables, trigger, slices, nextSlice, threads, demo, pc, cmd,
                     starts, alone>>

ImportLineFails(p) ==
  /\ pc[p] = "line" /\ local[p].at \in WellFormed
  /\ local' = [local EXCEPT ![p].at = @ + 1]
  /\ UNCHANGED <<shared, pc, cmd, starts, alone>>

ImportEnds(p) == /\ pc[p] = "line" /\ local[p].at \notin DOMAIN Log
                 /\ Goto(p, "done")
                 /\ UNCHANGED <<shared, cmd, local, starts, alone>>

\* cmd_rebuild_index
Rebuild(p) == /\ pc[p] = "rebuild"
              /\ indexed' = DOMAIN events
              /\ Goto(p, "done")
              /\ UNCHANGED <<tables, trigger, events, slices, nextSlice, threads,
                             demo, cmd, local, starts, alone>>

----------------------------------------------------------------------------
(* build_slices_from_events: read the imported events, delete the          *)
(* generated slices, insert one for each 15-minute window.                 *)

ReadEvents(p) ==
  /\ pc[p] = "read"
  /\ local' = [local EXCEPT ![p].read = DOMAIN events]
  /\ Goto(p, IF events = << >> THEN "done" ELSE "delete")
  /\ alone' = IF events # << >> /\ ~ \E q \in Procs : Building(q)
                THEN alone \cup {p}
                ELSE { q \in alone : ~Building(q) }
  /\ UNCHANGED <<shared, cmd, starts>>

\* Mutant: the old slices stay.
DeleteNothing(p) ==
  /\ pc[p] = "delete"
  /\ local' = [local EXCEPT ![p].todo = { Log[events[i]] : i \in local[p].read }]
  /\ Goto(p, "insert")
  /\ UNCHANGED <<shared, cmd, starts, alone>>

DeleteSlices(p) ==
  /\ pc[p] = "delete"
  /\ slices' = {}
  /\ local' = [local EXCEPT ![p].todo = { Log[events[i]] : i \in local[p].read }]
  /\ Goto(p, "insert")
  /\ UNCHANGED <<tables, trigger, events, indexed, nextSlice, threads, demo,
                 cmd, starts, alone>>

SliceOf(p, window) ==
  [id |-> nextSlice, window |-> window,
   refs |-> { i \in local[p].read : Log[events[i]] = window }]

InsertSlice(p, window) ==
  /\ pc[p] = "insert" /\ window \in local[p].todo
  /\ slices' = slices \cup {SliceOf(p, window)}
  /\ nextSlice' = nextSlice + 1
  /\ local' = [local EXCEPT ![p].todo = @ \ {window}]
  /\ UNCHANGED <<tables, trigger, events, indexed, threads, demo, pc, cmd, starts, alone>>

InsertSliceFails(p, window) ==
  /\ pc[p] = "insert" /\ window \in local[p].todo
  /\ local' = [local EXCEPT ![p].todo = @ \ {window}]
  /\ alone' = alone \ {p}
  /\ UNCHANGED <<shared, pc, cmd, starts>>

BuildEnds(p) == /\ pc[p] = "insert" /\ local[p].todo = {}
                /\ Goto(p, "built")
                /\ UNCHANGED <<shared, cmd, local, starts, alone>>

----------------------------------------------------------------------------
(* TaskThreadsStore::upsert, by the seed for each of its threads and by    *)
(* update_task_thread for one: the statement, and then a SELECT by the     *)
(* connection's last_insert_rowid, which an update does not move.  A row   *)
(* that is not there is a panic.                                           *)

NameAt(p) == IF cmd[p] = "seed" THEN DemoThreads[local[p].at] ELSE local[p].name
HasName(d, name) == \E i \in DOMAIN threads[d] : threads[d][i] = name

Upsert(p) ==
  LET d == DbOf(p)
      name == NameAt(p)
  IN  /\ pc[p] = "upsert" /\ d \in tables
      /\ IF HasName(d, name)
           THEN UNCHANGED <<threads, local>>
           ELSE /\ threads' = [threads EXCEPT ![d] = Append(@, name)]
                /\ local' = [local EXCEPT ![p].rowid = Len(threads[d]) + 1]
      /\ Goto(p, "select")
      /\ UNCHANGED <<tables, trigger, events, indexed, slices, nextSlice, demo,
                     cmd, starts, alone>>

\* No such table, or a statement that fails: the error ends the command.
StatementFails(p) == /\ pc[p] \in {"upsert", "demo"}
                     /\ Goto(p, "failed")
                     /\ UNCHANGED <<shared, cmd, local, starts, alone>>

\* Mutant: the newest row is taken for the one just written.
NewestRow(p) == Len(threads[DbOf(p)])

\* The row a SELECT by the connection's last_insert_rowid finds, if any.
RowFound(p) == IF local[p].rowid \in DOMAIN threads[DbOf(p)] THEN local[p].rowid ELSE 0

Select(p) ==
  /\ pc[p] = "select"
  /\ IF RowFound(p) = 0
       THEN Goto(p, "panic") /\ UNCHANGED local
       ELSE /\ local' = [local EXCEPT ![p].thread = RowFound(p)]
            /\ Goto(p, "next")
  /\ UNCHANGED <<shared, cmd, starts, alone>>

NextThread(p) ==
  /\ pc[p] = "next"
  /\ IF cmd[p] = "seed" /\ local[p].at < Len(DemoThreads)
       THEN Goto(p, "upsert") /\ local' = [local EXCEPT ![p].at = @ + 1]
       ELSE /\ Goto(p, IF cmd[p] = "seed" THEN "demo" ELSE "done")
            /\ local' = [local EXCEPT ![p].at = 1]
  /\ UNCHANGED <<shared, cmd, starts, alone>>

\* The seed's decisions and its skill, one INSERT after the other.
SeedRow(p) == /\ pc[p] = "demo"
              /\ demo' = [demo EXCEPT ![local[p].at] = @ + 1]
              /\ local' = [local EXCEPT ![p].at = @ + 1]
              /\ Goto(p, IF local[p].at = DemoRows THEN "done" ELSE "demo")
              /\ UNCHANGED <<tables, trigger, events, indexed, slices, nextSlice,
                             threads, cmd, starts, alone>>

----------------------------------------------------------------------------
\* The command has ended, or the process is killed.
Leave(p) ==
  /\ pc[p] # "idle"
  /\ Goto(p, "idle")
  /\ cmd' = [cmd EXCEPT ![p] = "none"]
  /\ local' = [local EXCEPT ![p] = Nothing]
  /\ alone' = alone \ {p}
  /\ UNCHANGED <<shared, starts>>

Step(p) == \/ \E c \in Commands : Start(p, c)
           \/ CreateTables(p) \/ CreateTrigger(p)
           \/ ImportLine(p) \/ ImportLineFails(p) \/ ImportEnds(p) \/ Rebuild(p)
           \/ ReadEvents(p) \/ DeleteSlices(p) \/ BuildEnds(p)
           \/ \E window \in Windows : InsertSlice(p, window) \/ InsertSliceFails(p, window)
           \/ Upsert(p) \/ StatementFails(p) \/ Select(p) \/ NextThread(p) \/ SeedRow(p)
           \/ Leave(p)

Next == DesktopMigrates \/ \E p \in Procs : Step(p)

Spec == Init /\ [][Next]_vars

----------------------------------------------------------------------------
Places == {"idle", "tables", "trigger", "line", "rebuild", "read", "delete",
           "insert", "built", "upsert", "select", "next", "demo", "done",
           "failed", "panic"}

\* A slice refers to rows that exist and belong to its window.
TypeOK ==
  /\ tables \subseteq Dbs /\ trigger \subseteq tables
  /\ events \in Seq(WellFormed) /\ Len(events) <= MaxEvents
  /\ indexed \subseteq DOMAIN events
  /\ \A s \in slices : /\ s.id \in 1..(nextSlice - 1)
                       /\ s.refs # {} /\ s.refs \subseteq DOMAIN events
                       /\ \A i \in s.refs : Log[events[i]] = s.window
  /\ threads \in [Dbs -> Seq(Names)]
  /\ demo \in [1..DemoRows -> 0..MaxStarts]
  /\ pc \in [Procs -> Places] /\ cmd \in [Procs -> Commands \cup {"none"}]

\* Every event can be found by search: whatever invocations overlap or are
\* killed in their migrations, no row is inserted without the trigger of
\* run_migrations (schema.rs), which its last statement creates.
IndexIsComplete == indexed = DOMAIN events

\* A build that met no other build, no failing statement and no kill leaves
\* exactly one slice for each window of the events it read, with those
\* events, whatever an earlier build left half done: build_slices_from_events.
BuildIsExact ==
  \A p \in alone :
    pc[p] = "built" =>
      /\ { s.window : s \in slices } = { Log[events[i]] : i \in local[p].read }
      /\ \A s \in slices : s.refs = { i \in local[p].read : Log[events[i]] = s.window }
      /\ Cardinality(slices) = Cardinality({ s.window : s \in slices })

\* The row upsert returns is that of the thread it was asked for: it goes by
\* last_insert_rowid, which another invocation's inserts do not move.
UpsertNeverLies ==
  \A p \in Procs : pc[p] = "next" => threads[DbOf(p)][local[p].thread] = NameAt(p)

\* And however often the seed is run, overlaps and is killed, no decision and
\* no skill of seed_demo_data is there twice: it owes this to the panic of its
\* first upsert once the first thread exists.
SeedIsSound == UpsertNeverLies /\ \A i \in 1..DemoRows : demo[i] <= 1
=============================================================================

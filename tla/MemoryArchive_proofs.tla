------------------------ MODULE MemoryArchive_proofs ------------------------
(***************************************************************************)
(* Theorems about the archive, for every number of invocations, action     *)
(* log and number of seeded threads and rows.  The first part says at      *)
(* which places a command can be; each later part proves one property.     *)
(***************************************************************************)
EXTENDS MemoryArchive, FiniteSetTheorems, FunctionTheorems, TLAPS

-----------------------------------------------------------------------------
(* Where the commands are *)

CliCommands == Commands \ {"update"}

PlaceOf(place, command) ==
  /\ place \in {"tables", "trigger"} => command \in CliCommands
  /\ place = "line" => command = "import"
  /\ place = "rebuild" => command = "rebuild"
  /\ place \in {"read", "delete", "insert", "built"} => command = "build"
  /\ place \in {"upsert", "select", "next"} => command \in {"seed", "update"}
  /\ place = "demo" => command = "seed"

\* What an invocation has in hand: events that are there, and a thread to write.
Locals == [at : Nat, read : SUBSET Nat, todo : SUBSET Windows, rowid : Nat, name : Names, thread : Nat]
Threading(place, command) ==
  command = "seed" /\ place \in {"tables", "trigger", "upsert", "select", "next"}

InHand(place, command, has, rows) ==
  /\ place \in Places /\ command \in Commands \cup {"none"} /\ has \in Locals
  /\ PlaceOf(place, command)
  /\ has.read \subseteq rows
  /\ Threading(place, command) => has.at \in DOMAIN DemoThreads

PlaceInv ==
  /\ pc \in [Procs -> Places] /\ cmd \in [Procs -> Commands \cup {"none"}]
  /\ local \in [Procs -> Locals]
  /\ threads \in [Dbs -> Seq(Names)]
  /\ events \in Seq(WellFormed)
  /\ demo \in [1 .. DemoRows -> Nat]
  /\ \A p \in Procs : InHand(pc[p], cmd[p], local[p], DOMAIN events)

LEMMA Demo ==
  /\ DemoThreads \in Seq(Names) /\ Len(DemoThreads) \in Nat \ {0}
  /\ DOMAIN DemoThreads = 1 .. Len(DemoThreads) /\ 1 \in DOMAIN DemoThreads
  BY ArchiveAssumption

LEMMA InitPlace == Init => PlaceInv
<1> SUFFICES ASSUME Init PROVE PlaceInv
  OBVIOUS
<1>1. Nothing \in Locals
  BY DEF Nothing, Locals, Names
<1>2. /\ pc \in [Procs -> Places] /\ cmd \in [Procs -> Commands \cup {"none"}]
      /\ local \in [Procs -> Locals]
  BY <1>1 DEF Init, Places
<1>3. /\ threads \in [Dbs -> Seq(Names)] /\ events \in Seq(WellFormed)
      /\ demo \in [1 .. DemoRows -> Nat]
  BY DEF Init
<1>4. \A p \in Procs : InHand(pc[p], cmd[p], local[p], DOMAIN events)
  BY <1>1 DEF Init, InHand, Places, PlaceOf, Threading, Nothing
<1> QED BY <1>2, <1>3, <1>4 DEF PlaceInv

\* The table of events only grows.
LEMMA EventsStay ==
  ASSUME PlaceInv, [Next]_vars
  PROVE  /\ events' \in Seq(WellFormed)
         /\ \A i \in DOMAIN events : i \in DOMAIN events' /\ events'[i] = events[i]
<1>0. events \in Seq(WellFormed)
  BY DEF PlaceInv
<1>1. CASE events' = events
  BY <1>0, <1>1
<1>2. ASSUME NEW p \in Procs, ImportLine(p), events' # events
      PROVE  \E line \in WellFormed : events' = Append(events, line)
  BY <1>2 DEF ImportLine
<1>3. CASE events' # events
  <2>1. \E p \in Procs : ImportLine(p)
    BY <1>3 DEF Next, vars, shared, DesktopMigrates, Step, Start, CreateTables, CreateTrigger,
       ImportLineFails, ImportEnds, Rebuild, ReadEvents, DeleteSlices, BuildEnds, InsertSlice,
       InsertSliceFails, Upsert, StatementFails, Select, NextThread, SeedRow, Leave
  <2>2. PICK line \in WellFormed : events' = Append(events, line)
    BY <1>2, <1>3, <2>1
  <2> QED BY <1>0, <2>2
<1> QED BY <1>1, <1>3

\* A step of an invocation leaves the others where they are.
LEMMA OthersStay ==
  ASSUME PlaceInv, NEW p \in Procs, Step(p), NEW q \in Procs, q # p
  PROVE  pc'[q] = pc[q] /\ cmd'[q] = cmd[q] /\ local'[q] = local[q]
<1>0. /\ pc \in [Procs -> Places] /\ cmd \in [Procs -> Commands \cup {"none"}]
      /\ local \in [Procs -> Locals]
  BY DEF PlaceInv
<1>1. CASE \/ \E c \in Commands : Start(p, c)
           \/ CreateTables(p) \/ CreateTrigger(p) \/ ImportLine(p) \/ ImportLineFails(p)
           \/ ImportEnds(p) \/ Rebuild(p) \/ ReadEvents(p) \/ Leave(p)
  BY <1>0, <1>1 DEF Start, CreateTables, CreateTrigger, ImportLine, ImportLineFails, ImportEnds,
     Rebuild, ReadEvents, Leave, Goto
<1>2. CASE \/ DeleteSlices(p) \/ BuildEnds(p)
           \/ \E window \in Windows : InsertSlice(p, window) \/ InsertSliceFails(p, window)
  BY <1>0, <1>2 DEF DeleteSlices, BuildEnds, InsertSlice, InsertSliceFails, Goto
<1>3. CASE Upsert(p) \/ StatementFails(p) \/ Select(p) \/ NextThread(p) \/ SeedRow(p)
  BY <1>0, <1>3 DEF Upsert, StatementFails, Select, NextThread, SeedRow, Goto
<1> QED BY <1>1, <1>2, <1>3 DEF Step

LEMMA Moved ==
  ASSUME NEW has \in Locals, NEW n \in Nat
  PROVE  /\ has.at \in Nat /\ has.rowid \in Nat /\ has = [has EXCEPT !.rowid = has.rowid]
         /\ [has EXCEPT !.at = n] \in Locals
         /\ [has EXCEPT !.at = n].at = n /\ [has EXCEPT !.at = n].read = has.read
  BY DEF Locals

\* What an invocation's step leaves in its hand, and where it stands after it.
LEMMA InHandStep ==
  ASSUME PlaceInv, NEW p \in Procs, Step(p)
  PROVE  InHand(pc[p], cmd[p], local[p], DOMAIN events)'
<1>0. /\ pc \in [Procs -> Places] /\ cmd \in [Procs -> Commands \cup {"none"}]
      /\ local \in [Procs -> Locals] /\ events \in Seq(WellFormed)
      /\ InHand(pc[p], cmd[p], local[p], DOMAIN events)
  BY DEF PlaceInv
<1>00. /\ DOMAIN events \subseteq DOMAIN events' /\ DOMAIN events \subseteq Nat
       /\ local[p].read \subseteq DOMAIN events'
  BY <1>0, EventsStay DEF InHand, Next
<1>000. /\ local[p].at \in Nat /\ local[p].at + 1 \in Nat
        /\ \A n \in Nat : /\ [local[p] EXCEPT !.at = n] \in Locals
                          /\ [local[p] EXCEPT !.at = n].at = n
                          /\ [local[p] EXCEPT !.at = n].read = local[p].read
  <2>1. local[p] \in Locals
    BY <1>0
  <2>2. local[p].at \in Nat
    BY <2>1, Moved
  <2> QED BY <2>1, <2>2, Moved
<1> USE Demo DEF InHand
<1>1. ASSUME NEW c \in Commands, Start(p, c) PROVE InHand(pc[p], cmd[p], local[p], DOMAIN events)'
  <2>1. PICK name \in Names : local' = [local EXCEPT ![p] = [Nothing EXCEPT !.name = name]]
    BY <1>1 DEF Start, Names
  <2>2. local'[p] \in Locals /\ local'[p].read = {} /\ local'[p].at = 1
    BY <1>0, <2>1 DEF Locals, Nothing
  <2>3. /\ cmd'[p] = c /\ pc'[p] = IF c = "update" THEN "upsert" ELSE "tables"
    BY <1>0, <1>1 DEF Start, Goto
  <2> QED BY <2>2, <2>3 DEF Places, PlaceOf, Threading, CliCommands, Commands
<1>2. CASE CreateTables(p)
  <2>1. cmd'[p] = cmd[p] /\ pc'[p] = "trigger" /\ local'[p] = local[p] /\ pc[p] = "tables"
    BY <1>0, <1>2 DEF CreateTables, Goto
  <2> QED BY <1>0, <1>00, <2>1 DEF Places, PlaceOf, Threading
<1>3. CASE CreateTrigger(p)
  <2>1. cmd'[p] = cmd[p] /\ pc'[p] = FirstStep[cmd[p]] /\ local'[p] = local[p] /\ pc[p] = "trigger"
    BY <1>0, <1>3 DEF CreateTrigger, Goto
  <2>2. cmd[p] \in {"seed", "import", "build", "rebuild"}
    BY <1>0, <2>1 DEF PlaceOf, CliCommands, Commands
  <2>3. /\ cmd[p] = "seed" => pc'[p] = "upsert"
        /\ cmd[p] = "import" => pc'[p] = "line"
        /\ cmd[p] = "build" => pc'[p] = "read"
        /\ cmd[p] = "rebuild" => pc'[p] = "rebuild"
    BY <2>1 DEF FirstStep
  <2> QED BY <1>0, <1>00, <2>1, <2>2, <2>3 DEF Places, PlaceOf, Threading
<1>4. CASE ImportLine(p) \/ ImportLineFails(p)
  <2>1. /\ cmd'[p] = cmd[p] /\ pc'[p] = pc[p] /\ pc[p] = "line"
        /\ local'[p] = [local[p] EXCEPT !.at = local[p].at + 1]
    BY <1>0, <1>4 DEF ImportLine, ImportLineFails
  <2> QED BY <1>0, <1>00, <1>000, <2>1 DEF Places, PlaceOf, Threading
<1>5. CASE ImportEnds(p) \/ Rebuild(p) \/ BuildEnds(p) \/ StatementFails(p)
  <2>1. /\ cmd'[p] = cmd[p] /\ local'[p] = local[p]
        /\ (pc[p] = "insert" /\ pc'[p] = "built") \/ pc'[p] \in {"done", "failed"}
    BY <1>0, <1>5 DEF ImportEnds, Rebuild, BuildEnds, StatementFails, Goto
  <2> QED BY <1>0, <1>00, <2>1 DEF Places, PlaceOf, Threading
<1>6. CASE ReadEvents(p)
  <2>1. /\ cmd'[p] = cmd[p] /\ pc[p] = "read" /\ pc'[p] \in {"done", "delete"}
        /\ local'[p] = [local[p] EXCEPT !.read = DOMAIN events]
    BY <1>0, <1>6 DEF ReadEvents, Goto
  <2> QED BY <1>0, <1>00, <2>1 DEF Places, PlaceOf, Threading, Locals
<1>7. CASE DeleteSlices(p) \/ \E window \in Windows : InsertSlice(p, window) \/ InsertSliceFails(p, window)
  <2>1. {Log[events[i]] : i \in local[p].read} \subseteq Windows
    BY <1>0 DEF Windows
  <2>2. local[p].todo \subseteq Windows
    BY <1>0 DEF Locals
  <2>3. /\ cmd'[p] = cmd[p] /\ pc[p] \in {"delete", "insert"} /\ pc'[p] = "insert"
        /\ \E todo \in SUBSET Windows : local'[p] = [local[p] EXCEPT !.todo = todo]
    BY <1>0, <1>7, <2>1, <2>2 DEF DeleteSlices, InsertSlice, InsertSliceFails, Goto
  <2> QED BY <1>0, <1>00, <2>3 DEF Places, PlaceOf, Threading, Locals
<1>8. CASE Upsert(p)
  <2>1. Len(threads[DbOf(p)]) \in Nat
    BY DEF PlaceInv, DbOf, Dbs
  <2>2. /\ cmd'[p] = cmd[p] /\ pc[p] = "upsert" /\ pc'[p] = "select"
        /\ \E n \in Nat : local'[p] = [local[p] EXCEPT !.rowid = n]
    <3>1. local[p] = [local[p] EXCEPT !.rowid = local[p].rowid] /\ local[p].rowid \in Nat
      BY <1>0, Moved
    <3>2. local' = local \/ local' = [local EXCEPT ![p].rowid = Len(threads[DbOf(p)]) + 1]
      BY <1>8 DEF Upsert
    <3>3. cmd'[p] = cmd[p] /\ pc[p] = "upsert" /\ pc'[p] = "select"
      BY <1>0, <1>8 DEF Upsert, Goto
    <3>4. CASE local' = local
      BY <3>1, <3>3, <3>4
    <3>5. CASE local' = [local EXCEPT ![p].rowid = Len(threads[DbOf(p)]) + 1]
      <4>1. local'[p] = [local[p] EXCEPT !.rowid = Len(threads[DbOf(p)]) + 1]
        BY <1>0, <3>5
      <4>2. PICK n \in Nat : n = Len(threads[DbOf(p)]) + 1
        BY <2>1
      <4>3. local'[p] = [local[p] EXCEPT !.rowid = n]
        BY <4>1, <4>2
      <4> QED BY <3>3, <4>3
    <3> QED BY <3>2, <3>4, <3>5
  <2> QED BY <1>0, <1>00, <2>2 DEF Places, PlaceOf, Threading, Locals
<1>9. CASE Select(p)
  <2>1. RowFound(p) \in Nat
    BY <1>0 DEF RowFound, Locals
  <2>2. /\ cmd'[p] = cmd[p] /\ pc[p] = "select"
        /\ \/ pc'[p] = "panic" /\ local'[p] = local[p]
           \/ pc'[p] = "next" /\ local'[p] = [local[p] EXCEPT !.thread = RowFound(p)]
    BY <1>0, <1>9 DEF Select, Goto
  <2> QED BY <1>0, <1>00, <2>1, <2>2 DEF Places, PlaceOf, Threading, Locals
<1>10. CASE NextThread(p)
  <2>1. cmd'[p] = cmd[p] /\ pc[p] = "next"
    BY <1>0, <1>10 DEF NextThread
  <2>2. CASE cmd[p] = "seed" /\ local[p].at < Len(DemoThreads)
    <3>1. pc'[p] = "upsert" /\ local'[p] = [local[p] EXCEPT !.at = local[p].at + 1]
      BY <1>0, <1>10, <2>2 DEF NextThread, Goto
    <3>2. local'[p] \in Locals /\ local'[p].at = local[p].at + 1 /\ local'[p].read = local[p].read
      BY <1>000, <3>1
    <3>3. local'[p].at \in DOMAIN DemoThreads
      BY <1>000, <2>2, <3>2
    <3> QED BY <1>0, <1>00, <2>1, <2>2, <3>1, <3>2, <3>3 DEF Places, PlaceOf
  <2>3. CASE ~(cmd[p] = "seed" /\ local[p].at < Len(DemoThreads))
    <3>1. /\ pc'[p] = IF cmd[p] = "seed" THEN "demo" ELSE "done"
          /\ local'[p] = [local[p] EXCEPT !.at = 1]
      BY <1>0, <1>10, <2>3 DEF NextThread, Goto
    <3>2. local'[p] \in Locals /\ local'[p].read = local[p].read
      <4>1. PICK n \in Nat : n = 1
        OBVIOUS
      <4> QED BY <1>000, <3>1, <4>1
    <3> QED BY <1>0, <1>00, <2>1, <3>1, <3>2 DEF Places, PlaceOf, Threading
  <2> QED BY <2>2, <2>3
<1>11. CASE SeedRow(p)
  <2>1. /\ cmd'[p] = cmd[p] /\ pc[p] = "demo" /\ pc'[p] \in {"demo", "done"}
        /\ local'[p] = [local[p] EXCEPT !.at = local[p].at + 1]
    BY <1>0, <1>11 DEF SeedRow, Goto
  <2> QED BY <1>0, <1>00, <1>000, <2>1 DEF Places, PlaceOf, Threading
<1>12. CASE Leave(p)
  <2>1. cmd'[p] = "none" /\ pc'[p] = "idle" /\ local'[p] = Nothing
    BY <1>0, <1>12 DEF Leave, Goto
  <2> QED BY <2>1 DEF Places, PlaceOf, Threading, Locals, Nothing, Names
<1> QED BY <1>1, <1>2, <1>3, <1>4, <1>5, <1>6, <1>7, <1>8, <1>9, <1>10, <1>11, <1>12 DEF Step

LEMMA PlaceStep == ASSUME PlaceInv, [Next]_vars PROVE PlaceInv'
<1>0. /\ pc \in [Procs -> Places] /\ cmd \in [Procs -> Commands \cup {"none"}]
      /\ local \in [Procs -> Locals] /\ threads \in [Dbs -> Seq(Names)]
      /\ demo \in [1 .. DemoRows -> Nat] /\ events \in Seq(WellFormed)
      /\ \A p \in Procs : InHand(pc[p], cmd[p], local[p], DOMAIN events)
  BY DEF PlaceInv
<1>1. CASE DesktopMigrates \/ UNCHANGED vars
  <2>1. UNCHANGED <<events, threads, demo, pc, cmd, local>>
    BY <1>1 DEF DesktopMigrates, vars, shared
  <2> QED BY <1>0, <2>1 DEF PlaceInv
<1>2. ASSUME NEW p \in Procs, Step(p) PROVE PlaceInv'
  <2>1. /\ DOMAIN pc' = Procs /\ DOMAIN cmd' = Procs /\ DOMAIN local' = Procs
        /\ pc' = [q \in DOMAIN pc' |-> pc'[q]] /\ cmd' = [q \in DOMAIN cmd' |-> cmd'[q]]
        /\ local' = [q \in DOMAIN local' |-> local'[q]]
    BY <1>0, <1>2 DEF Step, Start, CreateTables, CreateTrigger, ImportLine,
       ImportLineFails, ImportEnds, Rebuild, ReadEvents, DeleteSlices, BuildEnds, InsertSlice,
       InsertSliceFails, Upsert, StatementFails, Select, NextThread, SeedRow, Leave, Goto
  <2>2. \A q \in Procs : InHand(pc'[q], cmd'[q], local'[q], DOMAIN events')
    <3> TAKE q \in Procs
    <3>1. CASE q = p
      BY <1>2, <3>1, InHandStep
    <3>2. CASE q # p
      <4>1. DOMAIN events \subseteq DOMAIN events'
        BY <1>2, EventsStay DEF Next
      <4> QED BY <1>0, <1>2, <3>2, <4>1, OthersStay DEF InHand
    <3> QED BY <3>1, <3>2
  <2>3. threads' \in [Dbs -> Seq(Names)]
    <3>1. CASE Upsert(p)
      <4>1. NameAt(p) \in Names
        BY <1>0, <3>1 DEF Upsert, NameAt, InHand, Threading, Names, Locals
      <4>2. DbOf(p) \in Dbs
        BY DEF DbOf, Dbs
      <4>3. \/ threads' = threads
            \/ threads' = [threads EXCEPT ![DbOf(p)] = Append(threads[DbOf(p)], NameAt(p))]
        BY <3>1 DEF Upsert
      <4>4. Append(threads[DbOf(p)], NameAt(p)) \in Seq(Names)
        BY <1>0, <4>1, <4>2
      <4> QED BY <1>0, <4>2, <4>3, <4>4
    <3>2. CASE ~Upsert(p)
      BY <1>0, <1>2, <3>2 DEF Step, Start, CreateTables, CreateTrigger, ImportLine, shared,
         ImportLineFails, ImportEnds, Rebuild, ReadEvents, DeleteSlices, BuildEnds, InsertSlice,
         InsertSliceFails, StatementFails, Select, NextThread, SeedRow, Leave
    <3> QED BY <3>1, <3>2
  <2>4. demo' \in [1 .. DemoRows -> Nat]
    BY <1>0, <1>2 DEF Step, Start, CreateTables, CreateTrigger, ImportLine, shared,
       ImportLineFails, ImportEnds, Rebuild, ReadEvents, DeleteSlices, BuildEnds, InsertSlice,
       InsertSliceFails, Upsert, StatementFails, Select, NextThread, SeedRow, Leave
  <2>5. events' \in Seq(WellFormed)
    BY <1>2, EventsStay DEF Next
  <2> QED BY <2>1, <2>2, <2>3, <2>4, <2>5 DEF PlaceInv, InHand
<1> QED BY <1>1, <1>2 DEF Next

-----------------------------------------------------------------------------
(* Search finds every event *)

\* No line is imported before the trigger is there.
IndexInv == /\ indexed = DOMAIN events
            /\ \A p \in Procs : pc[p] = "line" => Cli \in trigger

LEMMA InitIndex == Init => IndexInv
  BY DEF Init, IndexInv

LEMMA IndexStep == ASSUME PlaceInv, IndexInv, [Next]_vars PROVE IndexInv'
<1>0. /\ pc \in [Procs -> Places] /\ events \in Seq(WellFormed)
      /\ indexed = DOMAIN events /\ \A p \in Procs : pc[p] = "line" => Cli \in trigger
  BY DEF PlaceInv, IndexInv
<1>1. CASE DesktopMigrates \/ UNCHANGED vars
  BY <1>0, <1>1 DEF DesktopMigrates, vars, shared, IndexInv
<1>2. ASSUME NEW p \in Procs, Step(p) PROVE IndexInv'
  <2>1. trigger \subseteq trigger'
    BY <1>2 DEF Step, Start, CreateTables, CreateTrigger, ImportLine, shared,
       ImportLineFails, ImportEnds, Rebuild, ReadEvents, DeleteSlices, BuildEnds, InsertSlice,
       InsertSliceFails, Upsert, StatementFails, Select, NextThread, SeedRow, Leave
  <2>2. CASE ImportLine(p)
    <3>1. Cli \in trigger /\ pc' = pc
      BY <1>0, <2>2 DEF ImportLine
    <3>2. \/ events' = events /\ indexed' = indexed
          \/ /\ \E line \in WellFormed : events' = Append(events, line)
             /\ indexed' = indexed \cup {Len(events) + 1}
      BY <2>2, <3>1 DEF ImportLine
    <3>3. indexed' = DOMAIN events'
      BY <1>0, <3>2
    <3> QED BY <1>0, <2>1, <3>1, <3>3 DEF IndexInv
  <2>3. CASE Rebuild(p)
    BY <1>0, <2>3 DEF Rebuild, Goto, IndexInv
  <2>4. CASE CreateTrigger(p)
    BY <1>0, <2>4 DEF CreateTrigger, IndexInv
  <2>5. CASE ~(ImportLine(p) \/ Rebuild(p) \/ CreateTrigger(p))
    <3>1. UNCHANGED <<events, indexed>>
      BY <1>2, <2>5 DEF Step, Start, CreateTables, shared, ImportLineFails, ImportEnds, ReadEvents,
         DeleteSlices, BuildEnds, InsertSlice, InsertSliceFails, Upsert, StatementFails, Select,
         NextThread, SeedRow, Leave
    <3>2. \A q \in Procs : pc'[q] = "line" => pc[q] = "line"
      BY <1>0, <1>2, <2>5 DEF Step, Start, CreateTables, ImportLineFails, ImportEnds, ReadEvents,
         DeleteSlices, BuildEnds, InsertSlice, InsertSliceFails, Upsert, StatementFails, Select,
         NextThread, SeedRow, Leave, Goto
    <3> QED BY <1>0, <2>1, <3>1, <3>2 DEF IndexInv
  <2> QED BY <2>2, <2>3, <2>4, <2>5
<1> QED BY <1>1, <1>2 DEF Next

\* Every event can be found by search: an import inserts no row before its own
\* run_migrations of schema.rs has come to its last statement, the trigger.
THEOREM SearchIsComplete == Spec => []IndexIsComplete
<1>1. PlaceInv /\ IndexInv /\ [Next]_vars => (PlaceInv /\ IndexInv)'
  BY PlaceStep, IndexStep
<1>2. IndexInv => IndexIsComplete
  BY DEF IndexInv, IndexIsComplete
<1> QED BY InitPlace, InitIndex, <1>1, <1>2, PTL DEF Spec

-----------------------------------------------------------------------------
(* The seed *)

\* memory.db has the seed's threads, in their order.
SeededInOrder ==
  \A i \in DOMAIN threads[Cli] : i \in DOMAIN DemoThreads /\ threads[Cli][i] = DemoThreads[i]

\* The invocation that inserted the first thread, if it is still there.
Pioneer(p) == cmd[p] = "seed" /\ local[p].rowid # 0

OnePioneer == \A p, q \in Procs : Pioneer(p) /\ Pioneer(q) => p = q

Unseeded == \A i \in 1 .. DemoRows : demo[i] = 0
Rows == Len(threads[Cli])

\* The others get no further than their first thread.
Follower(p) ==
  cmd[p] = "seed" /\ local[p].rowid = 0 =>
    local[p].at = 1 /\ pc[p] \notin {"next", "demo"}

\* The pioneer is as far as the table is.
Leads(p) ==
  Pioneer(p) =>
    /\ Rows > 0 /\ pc[p] \notin {"tables", "trigger"}
    /\ pc[p] = "upsert" => local[p].at = Rows + 1 /\ local[p].at \in DOMAIN DemoThreads
    /\ pc[p] \in {"select", "next"} => local[p].at = Rows /\ local[p].rowid = Rows
    /\ pc[p] = "next" => local[p].thread = Rows
    /\ pc[p] \in {"upsert", "select", "next"} => Unseeded
    /\ pc[p] = "demo" => /\ local[p].at \in 1 .. DemoRows
                         /\ \A i \in local[p].at .. DemoRows : demo[i] = 0

\* A desktop call has one thread to write, and finds the row it has inserted.
IsRow(d, i, name) == i \in DOMAIN threads[d] /\ threads[d][i] = name
Updates(p) ==
  cmd[p] = "update" =>
    /\ pc[p] = "upsert" => local[p].rowid = 0
    /\ pc[p] = "select" /\ local[p].rowid # 0 => IsRow(Desktop, local[p].rowid, local[p].name)
    /\ pc[p] = "next" => IsRow(Desktop, local[p].thread, local[p].name)

DemoOnce == /\ \A i \in 1 .. DemoRows : demo[i] <= 1
            /\ Rows = 0 => Unseeded

Upserts(p) == Follower(p) /\ Leads(p) /\ Updates(p)

SeedInv == /\ SeededInOrder /\ OnePioneer /\ DemoOnce
           /\ \A p \in Procs : Upserts(p)

LEMMA InitSeed == Init => SeedInv
<1> SUFFICES ASSUME Init PROVE SeedInv
  OBVIOUS
<1>1. threads[Cli] = << >> /\ \A i \in 1 .. DemoRows : demo[i] = 0
  BY DEF Init, Dbs
<1>2. \A p \in Procs : cmd[p] = "none"
  BY DEF Init
<1>3. SeededInOrder /\ DemoOnce
  BY <1>1 DEF SeededInOrder, DemoOnce, Unseeded
<1>4. OnePioneer /\ \A p \in Procs : Upserts(p)
  BY <1>2 DEF OnePioneer, Pioneer, Upserts, Follower, Leads, Updates
<1> QED BY <1>3, <1>4 DEF SeedInv

LEMMA SeedTypes ==
  ASSUME PlaceInv
  PROVE  /\ pc \in [Procs -> Places] /\ cmd \in [Procs -> Commands \cup {"none"}]
         /\ local \in [Procs -> Locals] /\ threads \in [Dbs -> Seq(Names)]
         /\ threads[Cli] \in Seq(Names) /\ threads[Desktop] \in Seq(Names)
         /\ demo \in [1 .. DemoRows -> Nat] /\ Rows \in Nat /\ DOMAIN threads[Cli] = 1 .. Rows
         /\ Cli # Desktop /\ Dbs = {Cli, Desktop}
         /\ \A p \in Procs : /\ local[p].at \in Nat /\ local[p].rowid \in Nat
                              /\ PlaceOf(pc[p], cmd[p]) /\ local[p] \in Locals
<1>1. Cli # Desktop /\ Dbs = {Cli, Desktop}
  BY DEF Cli, Desktop, Dbs
<1>2. \A p \in Procs : local[p].at \in Nat /\ local[p].rowid \in Nat
  BY Moved DEF PlaceInv
<1> QED BY <1>1, <1>2 DEF PlaceInv, Rows, InHand

\* A step that leaves what one has to do with leaves one's place.
LEMMA OthersUpsert ==
  ASSUME PlaceInv, SeedInv, NEW p \in Procs, Step(p), NEW q \in Procs, q # p,
         Pioneer(q) => threads'[Cli] = threads[Cli] /\ demo' = demo,
         \A i, name : IsRow(Desktop, i, name) => IsRow(Desktop, i, name)'
  PROVE  Upserts(q)' /\ (Pioneer(q)' <=> Pioneer(q))
<1>1. pc'[q] = pc[q] /\ cmd'[q] = cmd[q] /\ local'[q] = local[q]
  BY OthersStay
<1>2. Follower(q) /\ Leads(q) /\ Updates(q)
  BY DEF SeedInv, Upserts
<1>3. Pioneer(q)' <=> Pioneer(q)
  BY <1>1 DEF Pioneer
<1>4. Follower(q)'
  BY <1>1, <1>2 DEF Follower
<1>5. Leads(q)'
  BY <1>1, <1>2, <1>3 DEF Leads, Rows, Unseeded
<1>6. Updates(q)'
  BY <1>1, <1>2 DEF Updates
<1> QED BY <1>3, <1>4, <1>5, <1>6 DEF Upserts

\* The steps that write neither a thread nor a row of the seed.
LEMMA SeedQuiet ==
  ASSUME PlaceInv, SeedInv, NEW p \in Procs, Step(p), threads' = threads, demo' = demo,
         Upserts(p)', Pioneer(p)' => Pioneer(p)
  PROVE  SeedInv'
<1>1. \A q \in Procs : q # p => Upserts(q)' /\ (Pioneer(q)' <=> Pioneer(q))
  <2>1. \A i, name : IsRow(Desktop, i, name) => IsRow(Desktop, i, name)'
    BY DEF IsRow
  <2> QED BY <2>1, OthersUpsert
<1>2. SeededInOrder' /\ DemoOnce'
  BY DEF SeedInv, SeededInOrder, DemoOnce, Rows, Unseeded
<1>3. OnePioneer'
  BY <1>1 DEF OnePioneer, SeedInv
<1> QED BY <1>1, <1>2, <1>3 DEF SeedInv

\* The steps of the other commands, and the beginning and the end of these.
LEMMA ElseSeedStep ==
  ASSUME PlaceInv, SeedInv, NEW p \in Procs, Step(p),
         ~(Upsert(p) \/ Select(p) \/ NextThread(p) \/ SeedRow(p))
  PROVE  SeedInv'
<1>0. threads' = threads /\ demo' = demo
  BY DEF Step, Start, CreateTables, CreateTrigger, ImportLine, shared, ImportLineFails, ImportEnds,
     Rebuild, ReadEvents, DeleteSlices, BuildEnds, InsertSlice, InsertSliceFails, StatementFails, Leave
<1>00. Follower(p) /\ Leads(p) /\ Updates(p)
  BY DEF SeedInv, Upserts
<1> USE SeedTypes
<1>1. ASSUME NEW c \in Commands, Start(p, c) PROVE Upserts(p)' /\ ~Pioneer(p)'
  <2>1. /\ local'[p].rowid = 0 /\ local'[p].at = 1
        /\ pc'[p] \in {"upsert", "tables"}
    BY <1>1 DEF Start, Nothing, Goto
  <2> QED BY <2>1 DEF Upserts, Follower, Leads, Updates, Pioneer
<1>2. CASE CreateTables(p) \/ CreateTrigger(p)
  <2>1. local'[p] = local[p] /\ cmd'[p] = cmd[p] /\ pc[p] \in {"tables", "trigger"}
    BY <1>2 DEF CreateTables, CreateTrigger
  <2>2. cmd'[p] # "update" /\ ~Pioneer(p)' /\ ~Pioneer(p)
    BY <1>00, <2>1 DEF PlaceOf, CliCommands, Leads, Pioneer
  <2>3. cmd[p] = "seed" => pc'[p] \in {"trigger", "upsert"}
    BY <1>2 DEF CreateTables, CreateTrigger, Goto, FirstStep
  <2>4. Follower(p)'
    BY <1>00, <2>1, <2>3 DEF Follower
  <2> QED BY <1>0, <2>2, <2>4, SeedQuiet DEF Upserts, Leads, Updates
<1>3. CASE StatementFails(p)
  <2>1. local'[p] = local[p] /\ cmd'[p] = cmd[p] /\ pc'[p] = "failed"
    BY <1>3 DEF StatementFails, Goto
  <2> QED BY <1>0, <1>00, <2>1, SeedQuiet DEF Upserts, Follower, Leads, Updates, Pioneer, Rows
<1>4. CASE Leave(p)
  <2>1. cmd'[p] = "none"
    BY <1>4 DEF Leave
  <2> QED BY <1>0, <2>1, SeedQuiet DEF Upserts, Follower, Leads, Updates, Pioneer
<1>5. CASE \/ ImportLine(p) \/ ImportLineFails(p) \/ ImportEnds(p) \/ Rebuild(p) \/ ReadEvents(p)
           \/ DeleteSlices(p) \/ BuildEnds(p)
           \/ \E window \in Windows : InsertSlice(p, window) \/ InsertSliceFails(p, window)
  <2>1. /\ cmd'[p] = cmd[p]
        /\ pc[p] \in {"line", "rebuild", "read", "delete", "insert"}
    BY <1>5 DEF ImportLine, ImportLineFails, ImportEnds, Rebuild, ReadEvents, DeleteSlices, BuildEnds,
       InsertSlice, InsertSliceFails
  <2>2. cmd'[p] \notin {"seed", "update"}
    BY <2>1 DEF PlaceOf
  <2> QED BY <1>0, <2>2, SeedQuiet DEF Upserts, Follower, Leads, Updates, Pioneer
<1> QED BY <1>0, <1>1, <1>2, <1>3, <1>4, <1>5, SeedQuiet DEF Step

\* The select finds the row that was inserted before, or none.
LEMMA SelectSeedStep == ASSUME PlaceInv, SeedInv, NEW p \in Procs, Select(p) PROVE SeedInv'
<1> USE SeedTypes
<1>0. Step(p) /\ threads' = threads /\ demo' = demo /\ Follower(p) /\ Leads(p) /\ Updates(p)
  BY DEF Step, Select, shared, SeedInv, Upserts
<1>1. cmd'[p] = cmd[p] /\ pc[p] = "select" /\ cmd[p] \in {"seed", "update"}
  BY DEF Select, PlaceOf
<1>2. local'[p].rowid = local[p].rowid /\ local'[p].at = local[p].at /\ local'[p].name = local[p].name
  BY DEF Select, Locals
<1>3. Pioneer(p)' <=> Pioneer(p)
  BY <1>1, <1>2 DEF Pioneer
<1>4. CASE RowFound(p) = 0
  <2>1. pc'[p] = "panic" /\ local'[p] = local[p]
    BY <1>4 DEF Select, Goto
  <2> QED BY <1>0, <1>1, <1>3, <2>1, SeedQuiet DEF Upserts, Follower, Leads, Updates, Rows
<1>5. CASE RowFound(p) # 0
  <2>1. pc'[p] = "next" /\ local'[p].thread = local[p].rowid /\ local[p].rowid # 0
    <3>1. RowFound(p) = local[p].rowid
      BY <1>5 DEF RowFound
    <3>2. pc'[p] = "next" /\ local'[p] = [local[p] EXCEPT !.thread = RowFound(p)]
      BY <1>5 DEF Select, Goto
    <3> QED BY <1>5, <3>1, <3>2 DEF Locals
  <2>2. Follower(p)' /\ Updates(p)'
    BY <1>0, <1>1, <1>2, <2>1 DEF Follower, Updates, IsRow
  <2>3. Leads(p)'
    BY <1>0, <1>1, <1>2, <1>3, <2>1 DEF Leads, Rows, Unseeded
  <2> QED BY <1>0, <1>3, <2>2, <2>3, SeedQuiet DEF Upserts
<1> QED BY <1>4, <1>5

LEMMA NextSeedStep == ASSUME PlaceInv, SeedInv, NEW p \in Procs, NextThread(p) PROVE SeedInv'
<1> USE SeedTypes
<1>0. Step(p) /\ threads' = threads /\ demo' = demo /\ Follower(p) /\ Leads(p) /\ Updates(p)
  BY DEF Step, NextThread, shared, SeedInv, Upserts
<1>1. cmd'[p] = cmd[p] /\ pc[p] = "next" /\ local'[p].rowid = local[p].rowid
  BY DEF NextThread, Locals
<1>2. Pioneer(p)' <=> Pioneer(p)
  BY <1>1 DEF Pioneer
<1>3. CASE cmd[p] = "seed" /\ local[p].at < Len(DemoThreads)
  <2>1. pc'[p] = "upsert" /\ local'[p].at = local[p].at + 1
    BY <1>3 DEF NextThread, Goto, Locals
  <2>2. Pioneer(p)
    BY <1>0, <1>1, <1>3 DEF Follower, Pioneer
  <2>3. local'[p].at \in DOMAIN DemoThreads
    BY <1>3, <2>1, Demo
  <2>4. Leads(p)'
    BY <1>0, <1>1, <1>2, <2>1, <2>2, <2>3 DEF Leads, Rows, Unseeded
  <2> QED BY <1>0, <1>1, <1>2, <1>3, <2>2, <2>4, SeedQuiet DEF Upserts, Follower, Updates, Pioneer
<1>4. CASE cmd[p] = "seed" /\ ~(local[p].at < Len(DemoThreads))
  <2>1. pc'[p] = "demo" /\ local'[p].at = 1
    BY <1>4 DEF NextThread, Goto, Locals
  <2>2. Pioneer(p)
    BY <1>0, <1>1, <1>4 DEF Follower, Pioneer
  <2>3. 1 \in 1 .. DemoRows
    BY ArchiveAssumption
  <2>4. Leads(p)'
    BY <1>0, <1>1, <1>2, <2>1, <2>2, <2>3 DEF Leads, Rows, Unseeded
  <2> QED BY <1>0, <1>1, <1>2, <1>4, <2>2, <2>4, SeedQuiet DEF Upserts, Follower, Updates, Pioneer
<1>5. CASE cmd[p] # "seed"
  <2>1. pc'[p] = "done"
    BY <1>5 DEF NextThread, Goto
  <2> QED BY <1>0, <1>1, <1>2, <1>5, <2>1, SeedQuiet DEF Upserts, Follower, Leads, Updates, Pioneer
<1> QED BY <1>3, <1>4, <1>5

LEMMA RowSeedStep == ASSUME PlaceInv, SeedInv, NEW p \in Procs, SeedRow(p) PROVE SeedInv'
<1> USE SeedTypes
<1>0. Step(p) /\ threads' = threads /\ Follower(p) /\ Leads(p) /\ SeededInOrder /\ OnePioneer /\ DemoOnce
  BY DEF Step, SeedRow, SeedInv, Upserts
<1>1. /\ cmd'[p] = "seed" /\ cmd[p] = "seed" /\ pc[p] = "demo" /\ Pioneer(p)
      /\ local'[p].rowid = local[p].rowid
  BY <1>0 DEF SeedRow, Follower, Pioneer, PlaceOf, Locals
<1>2. Rows > 0 /\ local[p].at \in 1 .. DemoRows /\ \A i \in local[p].at .. DemoRows : demo[i] = 0
  BY <1>0, <1>1 DEF Leads
<1>3. \A q \in Procs : q # p => ~Pioneer(q)
  BY <1>0, <1>1 DEF OnePioneer
<1>4. \A q \in Procs : q # p => Upserts(q)' /\ ~Pioneer(q)'
  <2>1. \A i, name : IsRow(Desktop, i, name) => IsRow(Desktop, i, name)'
    BY <1>0 DEF IsRow
  <2> QED BY <1>0, <1>3, <2>1, OthersUpsert
<1>5. /\ local'[p].at = local[p].at + 1 /\ demo' = [demo EXCEPT ![local[p].at] = 1]
      /\ pc'[p] = IF local[p].at = DemoRows THEN "done" ELSE "demo"
  <2>1. demo[local[p].at] = 0
    BY <1>2, ArchiveAssumption
  <2>2. demo' = [demo EXCEPT ![local[p].at] = demo[local[p].at] + 1] /\ 0 + 1 = 1
    BY DEF SeedRow
  <2>4. demo' = [demo EXCEPT ![local[p].at] = 1]
    BY <2>1, <2>2
  <2>5. pc'[p] = IF local[p].at = DemoRows THEN "done" ELSE "demo"
    BY DEF SeedRow, Goto
  <2>3. local'[p].at = local[p].at + 1
    BY DEF SeedRow, Locals
  <2> QED BY <2>3, <2>4, <2>5
<1>6. DemoOnce'
  <2>1. \A i \in 1 .. DemoRows : demo'[i] <= 1
    BY <1>0, <1>5 DEF DemoOnce
  <2>2. Rows' # 0
    BY <1>0, <1>2 DEF Rows
  <2> QED BY <2>1, <2>2 DEF DemoOnce
<1>7. Leads(p)'
  <2>1. CASE local[p].at = DemoRows
    BY <1>0, <1>2, <1>5, <2>1 DEF Leads, Rows
  <2>2. CASE local[p].at # DemoRows
    <3>1. pc'[p] = "demo" /\ local'[p].at \in 1 .. DemoRows
      BY <1>2, <1>5, <2>2, ArchiveAssumption
    <3>2. \A i \in local'[p].at .. DemoRows : demo'[i] = 0
      BY <1>2, <1>5, ArchiveAssumption
    <3> QED BY <1>0, <1>2, <3>1, <3>2 DEF Leads, Rows
  <2> QED BY <2>1, <2>2
<1>8. Upserts(p)'
  BY <1>1, <1>7 DEF Upserts, Follower, Updates, Pioneer
<1>9. OnePioneer' /\ SeededInOrder'
  BY <1>0, <1>4 DEF OnePioneer, SeededInOrder
<1> QED BY <1>4, <1>6, <1>8, <1>9 DEF SeedInv

\* Who inserts a thread of the seed is the pioneer, and the table is as far as
\* its place says: the first thread is inserted when the table is empty.
LEMMA InsertsInOrder ==
  ASSUME PlaceInv, SeedInv, NEW p \in Procs, pc[p] = "upsert", cmd[p] = "seed",
         ~HasName(Cli, DemoThreads[local[p].at])
  PROVE  /\ local[p].at = Rows + 1 /\ local[p].at \in DOMAIN DemoThreads /\ Unseeded
         /\ \A q \in Procs : q # p => ~Pioneer(q)
<1> USE SeedTypes
<1>0. Follower(p) /\ Leads(p) /\ SeededInOrder /\ OnePioneer /\ DemoOnce
      /\ \A q \in Procs : Leads(q)
  BY DEF SeedInv, Upserts
<1>1. CASE Pioneer(p)
  BY <1>0, <1>1 DEF OnePioneer, Leads
<1>2. CASE ~Pioneer(p)
  <2>1. local[p].at = 1
    BY <1>0, <1>2 DEF Follower, Pioneer
  <2>2. Rows = 0
    <3>1. SUFFICES ASSUME Rows # 0 PROVE FALSE
      OBVIOUS
    <3>2. 1 \in DOMAIN threads[Cli]
      BY <3>1
    <3>3. threads[Cli][1] = DemoThreads[1]
      BY <1>0, <3>2 DEF SeededInOrder
    <3> QED BY <2>1, <3>2, <3>3 DEF HasName
  <2>3. Unseeded /\ \A q \in Procs : ~Pioneer(q)
    BY <1>0, <2>2 DEF DemoOnce, Leads
  <2> QED BY <2>1, <2>2, <2>3, Demo
<1> QED BY <1>1, <1>2

LEMMA UpsertSeedStep == ASSUME PlaceInv, SeedInv, NEW p \in Procs, Upsert(p) PROVE SeedInv'
<1> USE SeedTypes
<1>0. /\ Step(p) /\ Follower(p) /\ Leads(p) /\ Updates(p) /\ demo' = demo
      /\ SeededInOrder /\ OnePioneer /\ DemoOnce
  BY DEF Step, Upsert, SeedInv, Upserts
<1>1. /\ cmd'[p] = cmd[p] /\ pc[p] = "upsert" /\ pc'[p] = "select" /\ cmd[p] \in {"seed", "update"}
  BY DEF Upsert, Goto, PlaceOf
<1>2. CASE HasName(DbOf(p), NameAt(p))
  <2>1. threads' = threads /\ local' = local
    BY <1>2 DEF Upsert
  <2>2. ~Pioneer(p)
    <3>1. SUFFICES ASSUME Pioneer(p) PROVE FALSE
      OBVIOUS
    <3>2. cmd[p] = "seed" /\ local[p].at = Rows + 1 /\ local[p].at \in DOMAIN DemoThreads
      BY <1>0, <1>1, <3>1 DEF Leads, Pioneer
    <3>3. PICK i \in DOMAIN threads[Cli] : threads[Cli][i] = DemoThreads[local[p].at]
      BY <1>2, <3>2 DEF HasName, DbOf, NameAt
    <3>4. i \in DOMAIN DemoThreads /\ DemoThreads[i] = DemoThreads[local[p].at]
      BY <1>0, <3>3 DEF SeededInOrder
    <3>5. i = local[p].at
      BY <3>2, <3>4, ArchiveAssumption
    <3> QED BY <3>2, <3>3, <3>5
  <2> QED BY <1>0, <1>1, <2>1, <2>2, SeedQuiet DEF Upserts, Follower, Leads, Updates, Pioneer
<1>3. CASE ~HasName(DbOf(p), NameAt(p)) /\ cmd[p] = "update"
  <2>1. DbOf(p) = Desktop /\ NameAt(p) = local[p].name
    BY <1>3 DEF DbOf, NameAt
  <2>2. /\ threads' = [threads EXCEPT ![Desktop] = Append(threads[Desktop], local[p].name)]
        /\ local' = [local EXCEPT ![p].rowid = Len(threads[Desktop]) + 1]
    BY <1>3, <2>1 DEF Upsert
  <2>3. /\ threads'[Cli] = threads[Cli]
        /\ threads'[Desktop] = Append(threads[Desktop], local[p].name)
    BY <2>2
  <2>4. \A i, name : IsRow(Desktop, i, name) => IsRow(Desktop, i, name)'
    BY <2>3 DEF IsRow
  <2>5. \A q \in Procs : q # p => Upserts(q)' /\ (Pioneer(q)' <=> Pioneer(q))
    BY <1>0, <2>3, <2>4, OthersUpsert
  <2>6. local'[p].rowid = Len(threads[Desktop]) + 1 /\ local'[p].name = local[p].name
    BY <2>2 DEF Locals
  <2>7. IsRow(Desktop, local[p].rowid, local[p].name)'
    BY <2>3, <2>6 DEF IsRow
  <2>8. Upserts(p)' /\ ~Pioneer(p)'
    BY <1>1, <1>3, <2>7 DEF Upserts, Follower, Leads, Updates, Pioneer
  <2>9. OnePioneer' /\ SeededInOrder' /\ DemoOnce'
    BY <1>0, <2>3, <2>5, <2>8 DEF OnePioneer, SeededInOrder, DemoOnce, Rows, Unseeded
  <2> QED BY <2>5, <2>8, <2>9 DEF SeedInv
<1>4. CASE ~HasName(DbOf(p), NameAt(p)) /\ cmd[p] = "seed"
  <2>1. DbOf(p) = Cli /\ NameAt(p) = DemoThreads[local[p].at]
    BY <1>4 DEF DbOf, NameAt
  <2>2. /\ local[p].at = Rows + 1 /\ local[p].at \in DOMAIN DemoThreads /\ Unseeded
        /\ \A q \in Procs : q # p => ~Pioneer(q)
    BY <1>1, <1>4, <2>1, InsertsInOrder
  <2>3. /\ threads' = [threads EXCEPT ![Cli] = Append(threads[Cli], DemoThreads[local[p].at])]
        /\ local' = [local EXCEPT ![p].rowid = Rows + 1]
    BY <1>4, <2>1 DEF Upsert, Rows
  <2>4. /\ threads'[Desktop] = threads[Desktop]
        /\ threads'[Cli] = Append(threads[Cli], DemoThreads[local[p].at])
    BY <2>3
  <2>5. Rows' = Rows + 1 /\ DOMAIN threads'[Cli] = 1 .. Rows + 1
    BY <2>4 DEF Rows
  <2>6. SeededInOrder'
    BY <1>0, <2>2, <2>4, <2>5 DEF SeededInOrder, Rows
  <2>7. \A i, name : IsRow(Desktop, i, name) => IsRow(Desktop, i, name)'
    BY <2>4 DEF IsRow
  <2>8. \A q \in Procs : q # p => Upserts(q)' /\ ~Pioneer(q)'
    BY <1>0, <2>2, <2>7, OthersUpsert
  <2>9. local'[p].rowid = Rows' /\ local'[p].at = Rows'
    BY <2>2, <2>3, <2>5 DEF Locals
  <2>10. Unseeded' /\ DemoOnce'
    BY <1>0, <2>2, <2>5 DEF DemoOnce, Unseeded
  <2>11. Leads(p)'
    BY <1>1, <2>5, <2>9, <2>10 DEF Leads
  <2>12. Upserts(p)'
    BY <1>1, <1>4, <2>5, <2>9, <2>11 DEF Upserts, Follower, Updates
  <2>13. OnePioneer'
    BY <2>8 DEF OnePioneer
  <2> QED BY <2>6, <2>8, <2>10, <2>12, <2>13 DEF SeedInv
<1> QED BY <1>1, <1>2, <1>3, <1>4

LEMMA SeedStep == ASSUME PlaceInv, SeedInv, [Next]_vars PROVE SeedInv'
<1>1. CASE DesktopMigrates \/ UNCHANGED vars
  <2>1. UNCHANGED <<threads, demo, pc, cmd, local>>
    BY <1>1 DEF DesktopMigrates, vars, shared
  <2> QED BY <2>1 DEF SeedInv, SeededInOrder, OnePioneer, DemoOnce, Upserts, Follower, Leads, Updates,
             Pioneer, Rows, Unseeded, IsRow
<1>2. ASSUME NEW p \in Procs, Step(p) PROVE SeedInv'
  BY <1>2, ElseSeedStep, SelectSeedStep, NextSeedStep, RowSeedStep, UpsertSeedStep
<1> QED BY <1>1, <1>2 DEF Next

\* However often the seed is run, overlaps and is killed, upsert returns the
\* row of the thread it was asked for and no other row of the seed is there
\* twice: only the invocation that inserted the first thread gets past it.
THEOREM SeedsAreSound == Spec => []SeedIsSound
<1>1. PlaceInv /\ SeedInv /\ [Next]_vars => (PlaceInv /\ SeedInv)'
  BY PlaceStep, SeedStep
<1>2. ASSUME PlaceInv, SeedInv PROVE SeedIsSound
  <2>1. ASSUME NEW p \in Procs, pc[p] = "next" PROVE threads[DbOf(p)][local[p].thread] = NameAt(p)
    <3>1. Follower(p) /\ Leads(p) /\ Updates(p) /\ SeededInOrder
      BY <1>2 DEF SeedInv, Upserts
    <3>2. cmd[p] \in {"seed", "update"}
      BY <1>2, <2>1, SeedTypes DEF PlaceOf
    <3>3. CASE cmd[p] = "update"
      BY <2>1, <3>1, <3>3 DEF Updates, IsRow, DbOf, NameAt
    <3>4. CASE cmd[p] = "seed"
      <4>1. Rows > 0 /\ local[p].thread = Rows /\ local[p].at = Rows
        BY <2>1, <3>1, <3>4 DEF Follower, Leads, Pioneer
      <4>2. threads[Cli][Rows] = DemoThreads[Rows]
        BY <1>2, <3>1, <4>1, SeedTypes DEF SeededInOrder
      <4> QED BY <3>4, <4>1, <4>2 DEF DbOf, NameAt
    <3> QED BY <3>2, <3>3, <3>4
  <2>2. \A i \in 1 .. DemoRows : demo[i] <= 1
    BY <1>2 DEF SeedInv, DemoOnce
  <2> QED BY <2>1, <2>2 DEF SeedIsSound, UpsertNeverLies
<1> QED BY InitPlace, InitSeed, <1>1, <1>2, PTL DEF Spec
-----------------------------------------------------------------------------
(* A build on its own *)

WindowsRead(p) == { Log[events[i]] : i \in local[p].read }
SliceIsExact(p, s) == s.refs = { i \in local[p].read : Log[events[i]] = s.window }

\* A build that met no other is the only one, and the slices are its own:
\* one for each window it has done.
Builds(p) ==
  /\ Building(p)
  /\ \A q \in Procs : Building(q) => q = p
  /\ pc[p] \in {"insert", "built"} =>
       /\ local[p].todo \subseteq WindowsRead(p)
       /\ { s.window : s \in slices } = WindowsRead(p) \ local[p].todo
       /\ \A s \in slices : SliceIsExact(p, s)
       /\ \A r, s \in slices : r.window = s.window => r = s
  /\ pc[p] = "built" => local[p].todo = {}

BuildInv == alone \subseteq Procs /\ IsFiniteSet(slices) /\ \A p \in alone : Builds(p)

LEMMA InitBuild == Init => BuildInv
<1> SUFFICES ASSUME Init PROVE BuildInv
  OBVIOUS
<1>1. alone = {} /\ slices = {}
  BY DEF Init
<1> QED BY <1>1, FS_EmptySet DEF BuildInv

\* What the build of q has read, and the slices it has written, stay as they are.
LEMMA OthersBuild ==
  ASSUME PlaceInv, BuildInv, NEW p \in Procs, Step(p), NEW q \in Procs, q # p, q \in alone, q \in alone'
  PROVE  Builds(q)'
<1>0. /\ pc \in [Procs -> Places] /\ cmd \in [Procs -> Commands \cup {"none"}]
      /\ local \in [Procs -> Locals] /\ Builds(q)
      /\ \A r \in Procs : PlaceOf(pc[r], cmd[r]) /\ local[r].read \subseteq DOMAIN events
  BY DEF PlaceInv, BuildInv, InHand
<1>1. ~Building(p) /\ Building(q)
  BY <1>0 DEF Builds
<1>2. ~ReadEvents(p)
  <2>1. SUFFICES ASSUME ReadEvents(p) PROVE FALSE
    OBVIOUS
  <2>2. alone' = { r \in alone : ~Building(r) }
    BY <1>1, <2>1 DEF ReadEvents
  <2> QED BY <1>1, <2>2
<1>3. pc[p] \notin {"delete", "insert", "built"}
  BY <1>0, <1>1 DEF PlaceOf, Building
<1>4. UNCHANGED slices
  BY <1>3 DEF Step, Start, CreateTables, CreateTrigger, ImportLine, shared,
     ImportLineFails, ImportEnds, Rebuild, ReadEvents, DeleteSlices, BuildEnds, InsertSlice,
     InsertSliceFails, Upsert, StatementFails, Select, NextThread, SeedRow, Leave
<1>5. pc'[p] \notin {"delete", "insert", "built"}
  <2>1. CASE CreateTrigger(p)
    <3>1. cmd[p] \in {"seed", "import", "build", "rebuild"}
      BY <1>0, <2>1 DEF CreateTrigger, PlaceOf, CliCommands, Commands
    <3> QED BY <1>0, <2>1, <3>1 DEF CreateTrigger, Goto, FirstStep
  <2>2. CASE ~CreateTrigger(p)
    BY <1>0, <1>2, <1>3, <2>2 DEF Step, Start, CreateTables, ImportLine, shared,
       ImportLineFails, ImportEnds, Rebuild, DeleteSlices, BuildEnds, InsertSlice,
       InsertSliceFails, Upsert, StatementFails, Select, NextThread, SeedRow, Leave, Goto
  <2> QED BY <2>1, <2>2
<1>6. \A r \in Procs : Building(r)' => Building(r)
  <2> TAKE r \in Procs
  <2>1. CASE r = p
    BY <1>5, <2>1 DEF Building
  <2>2. CASE r # p
    BY <2>2, OthersStay DEF Building
  <2> QED BY <2>1, <2>2
<1>7. pc'[q] = pc[q] /\ cmd'[q] = cmd[q] /\ local'[q] = local[q]
  BY OthersStay
<1>8. \A i \in local[q].read : events'[i] = events[i]
  BY <1>0, EventsStay DEF Next
<1>9. WindowsRead(q)' = WindowsRead(q) /\ \A s : SliceIsExact(q, s)' <=> SliceIsExact(q, s)
  BY <1>7, <1>8 DEF WindowsRead, SliceIsExact
<1> QED BY <1>0, <1>1, <1>4, <1>6, <1>7, <1>9 DEF Builds, Building

\* The build that is alone goes from its delete over its inserts to its end.
LEMMA OwnBuild ==
  ASSUME PlaceInv, BuildInv, NEW p \in Procs, Step(p), p \in alone'
  PROVE  Builds(p)'
<1>0. /\ pc \in [Procs -> Places] /\ cmd \in [Procs -> Commands \cup {"none"}]
      /\ local \in [Procs -> Locals] /\ alone \subseteq Procs
      /\ PlaceOf(pc[p], cmd[p])
      /\ p \in alone => Builds(p)
  BY DEF PlaceInv, BuildInv, InHand
<1>00. \A q \in Procs : q # p => (Building(q)' <=> Building(q))
  BY OthersStay DEF Building
<1>1. CASE ReadEvents(p)
  <2>1. ~Building(p) /\ pc[p] = "read" /\ cmd[p] = "build" /\ cmd'[p] = "build"
    BY <1>0, <1>1 DEF ReadEvents, Building, PlaceOf
  <2>2. p \notin alone
    BY <1>0, <2>1 DEF Builds
  <2>3. events # << >> /\ ~ \E q \in Procs : Building(q)
    BY <1>1, <2>2 DEF ReadEvents
  <2>4. pc'[p] = "delete"
    BY <1>0, <1>1, <2>3 DEF ReadEvents, Goto
  <2> QED BY <1>00, <2>1, <2>3, <2>4 DEF Builds, Building
<1>2. CASE DeleteSlices(p)
  <2>1. /\ pc[p] = "delete" /\ pc'[p] = "insert" /\ cmd' = cmd /\ slices' = {} /\ events' = events
        /\ alone' = alone /\ local'[p].read = local[p].read /\ local'[p].todo = WindowsRead(p)
    BY <1>0, <1>2 DEF DeleteSlices, Goto, Locals, WindowsRead
  <2>2. Builds(p)
    BY <1>0, <2>1
  <2>3. WindowsRead(p)' = WindowsRead(p)
    BY <2>1 DEF WindowsRead
  <2>4. Building(p)' /\ \A q \in Procs : Building(q)' => q = p
    BY <1>00, <2>1, <2>2 DEF Builds, Building
  <2> QED BY <2>1, <2>3, <2>4 DEF Builds
<1>3. ASSUME NEW window \in Windows, InsertSlice(p, window) PROVE Builds(p)'
  <2>1. /\ pc[p] = "insert" /\ pc' = pc /\ cmd' = cmd /\ events' = events /\ alone' = alone
        /\ slices' = slices \cup {SliceOf(p, window)} /\ window \in local[p].todo
        /\ local'[p].read = local[p].read /\ local'[p].todo = local[p].todo \ {window}
    BY <1>0, <1>3 DEF InsertSlice, Locals
  <2>2. /\ Builds(p) /\ local[p].todo \subseteq WindowsRead(p)
        /\ { s.window : s \in slices } = WindowsRead(p) \ local[p].todo
        /\ \A s \in slices : SliceIsExact(p, s)
        /\ \A r, s \in slices : r.window = s.window => r = s
    BY <1>0, <2>1 DEF Builds
  <2>3. WindowsRead(p)' = WindowsRead(p) /\ \A s : SliceIsExact(p, s)' <=> SliceIsExact(p, s)
    BY <2>1 DEF WindowsRead, SliceIsExact
  <2>4. SliceOf(p, window).window = window /\ SliceIsExact(p, SliceOf(p, window))
    BY DEF SliceOf, SliceIsExact
  <2>5. { s.window : s \in slices' } = WindowsRead(p) \ local'[p].todo
    BY <2>1, <2>2, <2>4
  <2>6. \A s \in slices' : SliceIsExact(p, s)
    BY <2>1, <2>2, <2>4
  <2>7. \A r, s \in slices' : r.window = s.window => r = s
    <3>1. \A s \in slices : s.window # window
      BY <2>1, <2>2
    <3> QED BY <2>1, <2>2, <2>4, <3>1
  <2>8. Building(p)' /\ \A q \in Procs : Building(q)' => q = p
    BY <1>00, <2>1, <2>2 DEF Builds, Building
  <2> QED BY <2>1, <2>2, <2>3, <2>5, <2>6, <2>7, <2>8 DEF Builds
<1>4. ASSUME NEW window \in Windows, InsertSliceFails(p, window) PROVE FALSE
  BY <1>4 DEF InsertSliceFails
<1>5. CASE BuildEnds(p)
  <2>1. /\ pc[p] = "insert" /\ pc'[p] = "built" /\ cmd' = cmd /\ local[p].todo = {}
        /\ UNCHANGED <<events, slices, local, alone>>
    BY <1>0, <1>5 DEF BuildEnds, Goto, shared
  <2>2. Builds(p)
    BY <1>0, <2>1
  <2>3. WindowsRead(p)' = WindowsRead(p) /\ \A s : SliceIsExact(p, s)' <=> SliceIsExact(p, s)
    BY <2>1 DEF WindowsRead, SliceIsExact
  <2>4. Building(p)' /\ \A q \in Procs : Building(q)' => q = p
    BY <1>00, <2>1, <2>2 DEF Builds, Building
  <2> QED BY <2>1, <2>2, <2>3, <2>4 DEF Builds
<1>6. CASE Leave(p)
  BY <1>6 DEF Leave
<1>7. CASE \/ \E c \in Commands : Start(p, c)
           \/ CreateTables(p) \/ CreateTrigger(p)
           \/ ImportLine(p) \/ ImportLineFails(p) \/ ImportEnds(p) \/ Rebuild(p)
           \/ Upsert(p) \/ StatementFails(p) \/ Select(p) \/ NextThread(p) \/ SeedRow(p)
  <2>1. alone' = alone /\ pc[p] \notin {"delete", "insert", "built"}
    BY <1>7 DEF Start, CreateTables, CreateTrigger, ImportLine, ImportLineFails, ImportEnds, Rebuild,
       Upsert, StatementFails, Select, NextThread, SeedRow
  <2> QED BY <1>0, <2>1 DEF Builds, Building
<1> QED BY <1>1, <1>2, <1>3, <1>4, <1>5, <1>6, <1>7 DEF Step

LEMMA BuildStep == ASSUME PlaceInv, BuildInv, [Next]_vars PROVE BuildInv'
<1>0. alone \subseteq Procs /\ IsFiniteSet(slices) /\ \A p \in alone : Builds(p)
  BY DEF BuildInv
<1>1. CASE DesktopMigrates \/ UNCHANGED vars
  <2>1. UNCHANGED <<alone, slices, pc, cmd, local, events>>
    BY <1>1 DEF DesktopMigrates, vars, shared
  <2> QED BY <1>0, <2>1 DEF BuildInv, Builds, Building, WindowsRead, SliceIsExact
<1>2. ASSUME NEW p \in Procs, Step(p) PROVE BuildInv'
  <2>1. alone' \subseteq alone \cup {p}
    BY <1>2 DEF Step, Start, CreateTables, CreateTrigger, ImportLine,
       ImportLineFails, ImportEnds, Rebuild, ReadEvents, DeleteSlices, BuildEnds, InsertSlice,
       InsertSliceFails, Upsert, StatementFails, Select, NextThread, SeedRow, Leave
  <2>2. slices' \in {slices, {}} \/ \E s : slices' = slices \cup {s}
    BY <1>2 DEF Step, Start, CreateTables, CreateTrigger, ImportLine, shared,
       ImportLineFails, ImportEnds, Rebuild, ReadEvents, DeleteSlices, BuildEnds, InsertSlice,
       InsertSliceFails, Upsert, StatementFails, Select, NextThread, SeedRow, Leave
  <2>3. IsFiniteSet(slices')
    <3>1. CASE slices' \in {slices, {}}
      BY <1>0, <3>1, FS_EmptySet
    <3>2. ASSUME NEW s, slices' = slices \cup {s} PROVE IsFiniteSet(slices')
      <4>1. IsFiniteSet(slices \cup {s})
        BY <1>0, FS_AddElement
      <4> QED BY <3>2, <4>1
    <3> QED BY <2>2, <3>1, <3>2
  <2>4. ASSUME NEW q \in alone' PROVE Builds(q)'
    BY <1>0, <1>2, <2>1, <2>4, OthersBuild, OwnBuild
  <2> QED BY <1>0, <2>1, <2>3, <2>4 DEF BuildInv
<1> QED BY <1>1, <1>2 DEF Next

\* A set has as many members as they have windows, when no two share one.
LEMMA OneForEach ==
  ASSUME NEW S, IsFiniteSet(S), \A r, s \in S : r.window = s.window => r = s
  PROVE  Cardinality(S) = Cardinality({ s.window : s \in S })
<1> DEFINE T == { s.window : s \in S }
           f == [s \in S |-> s.window]
<1>1. f \in [S -> T] /\ \A a, b \in S : f[a] = f[b] => a = b
  OBVIOUS
<1>2. \A t \in T : \E s \in S : f[s] = t
  OBVIOUS
<1>3. f \in Bijection(S, T)
  BY <1>1, <1>2, Fun_IsBij
<1>4. ExistsBijection(S, T)
  BY <1>3, Fun_ExistsBij
<1> QED BY <1>4, FS_Bijection

\* A build that met no other, no failing statement and no kill leaves one slice
\* for each window of the events it read, with exactly those events, whatever
\* earlier builds left: build_slices_from_events.
THEOREM BuildsAreExact == Spec => []BuildIsExact
<1>1. PlaceInv /\ BuildInv /\ [Next]_vars => (PlaceInv /\ BuildInv)'
  BY PlaceStep, BuildStep
<1>2. ASSUME BuildInv PROVE BuildIsExact
  <2> SUFFICES ASSUME NEW p \in alone, pc[p] = "built"
               PROVE  /\ { s.window : s \in slices } = WindowsRead(p)
                      /\ \A s \in slices : SliceIsExact(p, s)
                      /\ Cardinality(slices) = Cardinality({ s.window : s \in slices })
    BY DEF BuildIsExact, WindowsRead, SliceIsExact
  <2>1. Builds(p) /\ IsFiniteSet(slices)
    BY <1>2 DEF BuildInv
  <2>2. local[p].todo = {} /\ \A r, s \in slices : r.window = s.window => r = s
    BY <2>1 DEF Builds
  <2> QED BY <2>1, <2>2, OneForEach DEF Builds
<1> QED BY InitPlace, InitBuild, <1>1, <1>2, PTL DEF Spec
=============================================================================

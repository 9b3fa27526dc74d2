--------------------------- MODULE MCMemoryArchive ---------------------------
EXTENDS MemoryArchive, TLC

CONSTANTS p1, p2, t1, t2, other

TwoProcs == {p1, p2}
\* Two windows, one of them twice, and a line that does not parse.
FourLines == <<1, 0, 1, 2>>
TwoThreads == <<t1, t2>>
Interchange == Permutations(TwoProcs)

----------------------------------------------------------------------------
(* Reading a small archive with MemorySearch.  Algorithms_proofs has the    *)
(* same for archives of every size.                                         *)
Reading == INSTANCE MemorySearch
  WITH Aliases <- [error |-> {{"fail"}, {"model", "error"}, {"exe"}}], NoThread <- 0, NoRange <- {}

MCEvent(words, thread, time, embedded) ==
  [words |-> words, thread |-> thread, time |-> time, embedded |-> embedded, dated |-> TRUE,
   title |-> [words |-> words, marks |-> {"path"}], source |-> "imported"]
MCEvents == <<MCEvent({"fail", "disk"}, 1, 1, TRUE), MCEvent({"model", "error"}, 1, 2, FALSE),
              MCEvent({"cmd", "exe"}, 2, 3, TRUE)>>
MCText(words, marks) == [words |-> words, marks |-> marks]
MCFound(q, score, provider) ==
  { R \in SUBSET DOMAIN MCEvents : Reading!Search(R, MCEvents, q, score, score, provider) }

\* search.rs's aliases: one word stands for the texts of its row, with and without a filter
ASSUME AliasesWiden ==
  LET q == Reading!DesktopQuery(MCText({"error"}, {"quote"}), 1, 2)
  IN  /\ MCFound(q, <<-3, -2, -1>>, FALSE) = {{1, 2}}
      /\ MCFound([q EXCEPT !.thread = 2], <<-3, -2, -1>>, FALSE) = {{3}}
      /\ MCFound([q EXCEPT !.range = 2..3], <<-3, -2, -1>>, FALSE) = {{2}}
      /\ ~Reading!MayBeRefused(Reading!FtsQuery(q.text))
      /\ Reading!MayBeRefused(Reading!FtsQuery(MCText({"disk"}, {"quote"})))

\* of three matches the best one, whose bm25 is the smallest, is never shown alone
ASSUME BestIsLost ==
  /\ MCFound(Reading!DesktopQuery(MCText({"error"}, {}), 0, 1), <<-3, -2, -1>>, FALSE) = {{3}}
  /\ MCFound(Reading!CliQuery(MCText({"error"}, {})), <<-3, -2, -1>>, FALSE) = {{1, 2, 3}}

\* the limit falls before the range: what lies in it is not found
ASSUME RangeComesLate ==
  LET q == Reading!DesktopQuery(MCText({"error"}, {}), 0, 1)
  IN  MCFound([q EXCEPT !.range = {1}], <<-3, -2, -1>>, FALSE) = {{}}

\* a provider of embeddings adds what no word matches, above every keyword hit
ASSUME EmbeddingsComeFirst ==
  LET q == Reading!DesktopQuery(MCText({"model"}, {}), 0, 1)
  IN  { R \in SUBSET DOMAIN MCEvents :
          Reading!Search(R, MCEvents, q, <<-3, -2, -1>>, <<9, 8, 7>>, TRUE) } = {{1}}

MCDb ==
  [events |-> MCEvents,
   slices |-> <<[start |-> 1, source |-> "imported", words |-> {"disk"}],
                [start |-> 3, source |-> "imported", words |-> {"cmd"}]>>,
   decisions |-> [i \in 1..6 |-> [thread |-> IF i = 6 THEN 1 ELSE 2, source |-> "seed"]],
   skills |-> [i \in 1..4 |-> [used |-> IF i = 1 THEN 0 ELSE i, source |-> "seed"]]]

\* the two reminders of one title: memory-cli's reaches back to the slices, the
\* desktop's finds its imported evidence in the search or not at all
ASSUME DesktopSeesNoSlices ==
  LET cli == Reading!CliReplayNote(MCEvents[3], 4, 2)
      desktop == Reading!ReplayNote(MCEvents, 4, MCText({"untitled"}, {}))
      Found(note) == { found \in SUBSET (1..3) : Reading!MayFind(MCDb, note, found, <<-1, -1, -1>>) }
      Kinds(note, found) == { ref.kind : ref \in Reading!Evidence(MCDb, note, found) }
  IN  /\ Found(cli) = {{3}} /\ Found(desktop) = {{3}}
      /\ "context_slice" \in Kinds(cli, {3}) \ Kinds(desktop, {3})
      /\ Reading!HasImported(Reading!Evidence(MCDb, cli, {}))
      /\ Reading!HasImported(Reading!Evidence(MCDb, desktop, {3}))
      /\ ~Reading!HasImported(Reading!Evidence(MCDb, desktop, {}))

\* a seed is labelled when no decision of the thread is there, and not otherwise
ASSUME SeedsStandInLabelled ==
  /\ Reading!Labelled(MCDb.decisions, 3) = 1..5 /\ Reading!Labelled(MCDb.decisions, 0) = 1..5
  /\ Reading!CitedDecisions(MCDb.decisions, 1) = {6} /\ Reading!Labelled(MCDb.decisions, 1) = {}
  /\ Reading!DecisionMemory(MCDb.decisions, 0) = 1..6
  /\ Reading!CitedSkills(MCDb.skills) = 2..4
  /\ Reading!SearchSlices(MCDb.slices, "disk", 1) = {1}
=============================================================================

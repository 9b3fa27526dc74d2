---------------------------- MODULE MemorySearch ----------------------------
(***************************************************************************)
(* Reading the archive: the hybrid search of search.rs and the reminder    *)
(* context competition.rs builds with it.  The archive is a table of       *)
(* events by id.  A text is its set of words and the classes of FTS5's     *)
(* syntax marks in it; how well an event fits (bm25, cosine similarity) is *)
(* a number the caller gives.  What a search returns is a relation, since  *)
(* SQLite may order equals as it likes.                                    *)
(***************************************************************************)
EXTENDS Integers, FiniteSets

CONSTANTS
  Aliases,  \* expand_query's table: for a trigger, texts that are sets of words
  NoThread, \* no filter by thread
  NoRange   \* no filter by time

\* Marks: quotes; tildes; brackets and the operators - : * ^; the marks of a
\* path . + / \ ; and all others
SanitizeTerm(text) == [text EXCEPT !.marks = @ \ {"quote", "tilde", "bracket"}]
SanitizeTitle(text) == [text EXCEPT !.marks = @ \ {"bracket", "path"}]

Expansions(text) == UNION { Aliases[trigger] : trigger \in DOMAIN Aliases \cap text.words }

\* any of the texts, each with all its words; without an alias the text goes to
\* FTS5 as it is
FtsQuery(text) ==
  IF Expansions(text) = {}
    THEN [any |-> {text.words}, marks |-> text.marks]
    ELSE [any |-> ({text.words} \cup Expansions(text)) \ {{}},
          marks |-> SanitizeTerm(text).marks]

\* FTS5 refuses an empty query, and may refuse one with marks in it
MayBeRefused(query) == query.marks # {} \/ {} \in query.any

Matches(event, query) == \E all \in query.any : all # {} /\ all \subseteq event.words

InThread(event, thread) == thread = NoThread \/ event.thread = thread
InTime(event, range) == range = NoRange \/ event.time \in range

\* ORDER BY score DESC LIMIT n; sort_by and truncate
IsFirst(S, all, score, n) ==
  /\ S \subseteq all
  /\ Cardinality(S) = IF n < Cardinality(all) THEN n ELSE Cardinality(all)
  /\ \A i \in S, j \in all \ S : score[j] <= score[i]

KeywordMatches(events, q) ==
  { i \in DOMAIN events :
      InThread(events[i], q.thread) /\ Matches(events[i], FtsQuery(q.text)) }

\* bm25 is negative, and the better the match the smaller
SearchFts(S, events, q, bm25) == IsFirst(S, KeywordMatches(events, q), bm25, 2 * q.limit)

\* the in-memory store, when sqlite-vec is not built in
SearchVector(S, events, q, similarity) ==
  IsFirst(S, { i \in DOMAIN events : events[i].embedded /\ InThread(events[i], q.thread) },
          similarity, 2 * q.limit)

\* of an event that both find the keyword hit stays, with its score
Merged(keyword, vector, bm25, similarity) ==
  [i \in keyword \cup vector |-> IF i \in keyword THEN bm25[i] ELSE similarity[i]]

\* search: R may be its result; without a provider of embeddings no vector is
\* looked at
Search(R, events, q, bm25, similarity, provider) ==
  \E keyword, vector \in SUBSET DOMAIN events :
    /\ SearchFts(keyword, events, q, bm25)
    /\ IF provider THEN SearchVector(vector, events, q, similarity) ELSE vector = {}
    /\ IsFirst(R, { i \in keyword \cup vector : InTime(events[i], q.range) },
               Merged(keyword, vector, bm25, similarity), q.limit)

\* the first n ids, and the last
Lowest(ids, n) == { i \in ids : Cardinality({ j \in ids : j < i }) < n }
Highest(ids, n) == { i \in ids : Cardinality({ j \in ids : j > i }) < n }

\* search_slices: only the latest are looked at
SearchSlices(slices, word, limit) ==
  Highest({ i \in Highest(DOMAIN slices, 2 * limit) : word \in slices[i].words }, limit)

----------------------------------------------------------------------------
\* Callers of search: a command of the desktop, and memory-cli search and
\* replay.  None has a provider that is available.

DesktopQuery(text, thread, limit) ==
  [text |-> text, thread |-> thread, range |-> NoRange, limit |-> limit]
CliQuery(text) == DesktopQuery(text, NoThread, 20)
ReminderQuery(note) == DesktopQuery(SanitizeTitle(note.title), note.thread, 10)

\* build_activity_context and run_suggestion_replay speak of now; memory-cli
\* replay of two hours before the event, whose time may not parse
DesktopNote(title, thread, now) == [title |-> title, thread |-> thread, time |-> now]
CliReplayNote(event, now, twoHours) ==
  [title |-> event.title, thread |-> event.thread,
   time |-> (IF event.dated THEN event.time ELSE now) - twoHours]
ReplayNote(events, now, untitled) ==
  IF DOMAIN events = {} THEN DesktopNote(untitled, NoThread, now)
  ELSE DesktopNote(events[CHOOSE i \in Highest(DOMAIN events, 1) : TRUE].title, NoThread, now)

----------------------------------------------------------------------------
\* build_reminder_context: what it cites

Cite(kind, table, ids) == { [kind |-> kind, id |-> i, source |-> table[i].source] : i \in ids }

RecentSlices(slices, note) == { i \in DOMAIN slices : slices[i].start >= note.time }

DecisionsOf(decisions, thread) ==
  IF thread = NoThread THEN {} ELSE { i \in DOMAIN decisions : decisions[i].thread = thread }

\* what the desktop lists
DecisionMemory(decisions, thread) ==
  IF thread = NoThread THEN DOMAIN decisions ELSE DecisionsOf(decisions, thread)

CitedDecisions(decisions, thread) ==
  IF DecisionsOf(decisions, thread) # {} THEN DecisionsOf(decisions, thread)
  ELSE Lowest(DOMAIN decisions, 5)

\* a seed is labelled as such only where it stands in for a decision
Labelled(decisions, thread) ==
  { i \in CitedDecisions(decisions, thread) :
      DecisionsOf(decisions, thread) = {} /\ decisions[i].source = "seed" }

CitedSkills(skills) ==
  { i \in DOMAIN skills :
      Cardinality({ j \in DOMAIN skills :
        \/ skills[j].used > skills[i].used
        \/ skills[j].used = skills[i].used /\ j < i }) < 3 }

\* "found" is what the search returned; a search that failed, or a title
\* without a word, finds nothing
Evidence(db, note, found) ==
  UNION { Cite("context_slice", db.slices, RecentSlices(db.slices, note)),
          Cite("memory_event", db.events, found),
          Cite("decision", db.decisions, CitedDecisions(db.decisions, note.thread)),
          Cite("skill", db.skills, CitedSkills(db.skills)) }

MayFind(db, note, found, bm25) ==
  LET q == ReminderQuery(note)
  IN  \/ /\ note.title.words # {}
         /\ Search(found, db.events, q, bm25, bm25, FALSE)
      \/ /\ note.title.words = {} \/ MayBeRefused(FtsQuery(q.text))
         /\ found = {}

HasImported(evidence) == \E ref \in evidence : ref.source = "imported"
=============================================================================

---------------------------- MODULE PromptContext ----------------------------
(***************************************************************************)
(* The text that goes with a screenshot to the model and with a confirmed  *)
(* task to the relay: prompt_context.rs, and the recall of agent_memory.rs *)
(* it admits memories with.  A text is its length in characters, zero when *)
(* it is blank; for recall it is the set of its terms.  An ActionRecord    *)
(* has the lengths of its texts, its action and the terms a query takes    *)
(* from it.  Numbers are as long as they have digits.                      *)
(***************************************************************************)
EXTENDS Integers, Sequences, FiniteSets, Functions

MaxIncludedRecords == 6
MaxContextChars == 2400
MaxFieldChars == 180
MaxRecalledMemories == 4
MaxMemoryChars == 260
MaxRecentFeedbackFacts == 4
MaxHotContextChars == 360
MaxFeedbackBlockChars == 520
MaxMemoryBlockChars == 720

Clip(n, max) == IF n > max THEN max + 3 ELSE n

First(s, n) == SubSeq(s, 1, IF Len(s) < n THEN Len(s) ELSE n)

\* lines of the given lengths, each after a newline
Lines(lengths) == SumFunction(lengths) + Len(lengths)

\* a label and a text, when there is one
Part(label, text) == IF text = 0 THEN 0 ELSE label + Clip(text, MaxFieldChars)

----------------------------------------------------------------------------
\* What of the recent actions is a fact about feedback

FeedbackActions ==
  {"confirmed", "cancelled", "canceled", "dismissed", "expired",
   "awaiting-confirmation", "completed", "failed", "interrupted"}

FactReasons(r) ==
  { field \in {"feedback", "result", "error"} : r[field] # 0 }
    \cup { part \in {"action"} : r.action \in FeedbackActions }

FeedbackFact(r) == FactReasons(r) # {}
RecentFeedbackFacts(recent) == First(SelectSeq(recent, FeedbackFact), MaxRecentFeedbackFacts)

\* with their separators; "name" is the length of the action's name
FactText(r) ==
  Part(13, r.feedback) + Part(11, r.result) + Part(10, r.error)
    + (IF "action" \in FactReasons(r) THEN 9 + r.name ELSE 0) - 2

\* source_ref, event_kind, age, score and reasons are "ref" characters long
FeedbackSection(facts) ==
  22 + Lines([i \in DOMAIN facts |-> 130 + facts[i].ref + Clip(FactText(facts[i]), MaxFieldChars)])

----------------------------------------------------------------------------
\* Recall

Query(window, recent) ==
  window.terms \cup
    UNION { First(recent, 3)[i].terms : i \in DOMAIN First(recent, 3) }

MatchedTerms(m, query) == query \cap m.terms
RecallScore(m, query) == Cardinality(MatchedTerms(m, query))

\* memories by their id
Relevant(memories, query) ==
  { i \in DOMAIN memories :
      /\ memories[i].lifecycle = "active" /\ ~memories[i].expired
      /\ RecallScore(memories[i], query) > 0 }

Before(memories, query, i, j) ==
  LET score(k) == RecallScore(memories[k], query)
  IN  \/ score(i) > score(j)
      \/ /\ score(i) = score(j)
         /\ \/ memories[i].used > memories[j].used
            \/ memories[i].used = memories[j].used /\ i < j

\* recall_active_by_text: the first of the relevant memories
Recalled(memories, query, limit) ==
  { i \in Relevant(memories, query) :
      Cardinality({ j \in Relevant(memories, query) : Before(memories, query, j, i) }) < limit }

Admitted(memories, query) == Recalled(memories, query, MaxRecalledMemories)

\* admitted_memories shows all that were recalled; those in "marked" got their
\* mark from mark_used, and a mark that fails is only logged
MarkUsed(memories, marked) ==
  [i \in DOMAIN memories |->
     IF i \in marked THEN [memories[i] EXCEPT !.used = @ + 1] ELSE memories[i]]

\* id, layer, time, sources, score and terms are "ref" characters long
MemorySection(memories) ==
  18 + Lines([i \in DOMAIN memories |-> 123 + memories[i].ref + Clip(memories[i].body, MaxMemoryChars)])

----------------------------------------------------------------------------
\* The lines that come first

ProcessLine(f) ==
  133 + f.stay + f.switches + f.rapid + (IF f.foregroundChanged THEN 4 ELSE 5)

WindowLine(window) == 36 + Clip(window.title, 120) + Clip(window.process, 80)

\* "count" is the number of digits of the file's length
HotChannel(hot) ==
  IF hot.body = 0 THEN 0
  ELSE 171 + hot.count + Clip(Clip(hot.body, MaxHotContextChars), MaxHotContextChars)

Section(length, max) == IF length = 0 THEN 0 ELSE 1 + Clip(length, max)

\* the lengths of the two sections before they are clipped, zero for none
RecallBlock(facts, memories) ==
  IF facts = 0 /\ memories = 0 THEN 0
  ELSE 17 + 1 + 141 + Section(facts, MaxFeedbackBlockChars) + Section(memories, MaxMemoryBlockChars)

Line(length) == IF length = 0 THEN 0 ELSE 1 + length

ProtectedLines(f, window, hot, facts, memories) ==
  ProcessLine(f) + 1 + WindowLine(window) + Line(HotChannel(hot)) + Line(RecallBlock(facts, memories))

----------------------------------------------------------------------------
\* The log's last records take what room is left

TailHeader == 17

CompactRecord(r) ==
  68 + r.stamps + Clip(r.title, 80) + Clip(r.status, 40) + r.name
    + Part(13, r.feedback)
    + (IF r.content # 0 THEN Part(12, r.content) ELSE Part(19, r.model))
    + Part(11, r.result) + Part(10, r.error)

ActionLogTail(recent) ==
  LET shown == First(recent, MaxIncludedRecords)
  IN  16 + Lines([i \in DOMAIN shown |-> 2 + CompactRecord(shown[i])])

Remaining(protected) ==
  LET left == MaxContextChars - Clip(protected, MaxContextChars)
  IN  IF left > 1 THEN left - 1 ELSE 0

\* "tail" is the length of ActionLogTail, zero without recent records; zero
\* when nothing of it is shown
ShownTail(tail, max) ==
  IF tail = 0 \/ max = 0 THEN 0
  ELSE IF tail <= max THEN tail
  ELSE IF max <= TailHeader THEN 0
  ELSE TailHeader + Clip(tail - TailHeader, max - TailHeader)

PopupContext(protected, tail) ==
  Clip(Clip(protected, MaxContextChars) + Line(ShownTail(tail, Remaining(protected))),
       MaxContextChars)

\* what a confirmed task takes of it along (clip_relay_context)
RelayContext(length) == Clip(length, 2200)
=============================================================================

---------------------------- MODULE MCObservation ----------------------------
EXTENDS Observation

CONSTANTS a, b, own, untitled, loop, user

MCWindows == {a, b}
MCWriters == {loop, user}
AllAnswers == AnswerKinds
Quiet == {"empty", "text"}

----------------------------------------------------------------------------
(* The context of PromptContext around its limits.  Algorithms_proofs has    *)
(* the same for every length and any number of memories.                     *)
Prompt == INSTANCE PromptContext

MCFacts == [stay : {1, 10}, switches : {1, 10}, rapid : {1, 10}, foregroundChanged : BOOLEAN]
MCTitles == [title : {0, 120, 121}, process : {0, 80, 81}]
MCHotContexts == [count : {1, 20}, body : {0, 360, 361}]
MCSections == {0, 400, 520, 521, 720, 721}

ASSUME ProtectedLinesFit ==
  \A f \in MCFacts, w \in MCTitles, hot \in MCHotContexts, facts, memories \in MCSections :
    LET protected == Prompt!ProtectedLines(f, w, hot, facts, memories)
    IN  /\ protected <= 2374
        /\ \A tail \in {18, 25, 26, 3000} :
             Prompt!PopupContext(protected, tail) \in protected + 18 .. 2403

\* 2374 is reached, and then the relay is told less than the model
ASSUME RelayHearsLess ==
  LET protected == Prompt!ProtectedLines(
        [stay |-> 10, switches |-> 10, rapid |-> 10, foregroundChanged |-> FALSE],
        [title |-> 121, process |-> 81], [count |-> 20, body |-> 361], 521, 721)
  IN  protected = 2374 /\ Prompt!RelayContext(protected) < protected

\* A record as record() of prompt_context.rs's tests makes them
MCRecord(action, feedback, content) ==
  [action |-> action, name |-> 9, feedback |-> feedback, content |-> content, model |-> 20,
   result |-> 0, error |-> 0, title |-> 20, status |-> 8, stamps |-> 12, ref |-> 100,
   terms |-> {action}]

ASSUME FactsAreTheNewest ==
  LET old == MCRecord("failed", 0, 6)
      new == MCRecord("dismissed", 9, 0)
      other == MCRecord("model-error", 0, 0)
      recent == <<new, other, new, new, new, old>>
  IN  /\ Prompt!RecentFeedbackFacts(recent) = <<new, new, new, new>>
      /\ Prompt!FactReasons(new) = {"feedback", "action"}
      /\ Prompt!FeedbackSection(<<new>>) <= 520
      /\ Prompt!ActionLogTail(recent) = 16 + 4 * (3 + 68 + 12 + 28 + 9 + 22 + 39)
                                           + (3 + 68 + 12 + 28 + 9 + 39)
                                           + (3 + 68 + 12 + 28 + 9 + 18)
      /\ Prompt!Query([terms |-> {"title"}], recent) = {"title", "dismissed", "model-error"}

\* Three memories: what was recalled is recalled again, however many of the
\* marks succeed, and never more than the limit.
ASSUME RecallRepeats ==
  LET query == {"x", "y"}
      tables == [1 .. 3 -> [used : {0, 1}, lifecycle : {"active", "rejected"},
                            expired : {FALSE}, terms : {{}, {"x"}, {"x", "y"}}]]
  IN  \A memories \in tables :
        LET recalled == Prompt!Recalled(memories, query, 2)
        IN  /\ Prompt!Cardinality(recalled) <= 2
            /\ \A marked \in SUBSET recalled :
                 Prompt!Recalled(Prompt!MarkUsed(memories, marked), query, 2) = recalled
            /\ Prompt!MemorySection(<<[ref |-> 60, body |-> 300]>>) <= 720
=============================================================================

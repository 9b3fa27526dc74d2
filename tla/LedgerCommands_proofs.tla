----------------------- MODULE LedgerCommands_proofs -----------------------
(***************************************************************************)
(* Theorems about the commands over the event ledger, for every number of  *)
(* traces, events, faults, jobs and samples, every transcript and every    *)
(* backend.  One part says what the main thread is at; each of the others  *)
(* proves the property of one component: the ledger, the distillation and  *)
(* the evaluation.                                                         *)
(***************************************************************************)
EXTENDS LedgerCommands, FiniteSetTheorems, TLAPS

-----------------------------------------------------------------------------
(* What the main thread is at *)

Event == [trace : Traces, type : Types]

\* The commands share one thread: who is at work has it.
MainInv ==
  /\ main \in Commands /\ recording \in Statements /\ faults \in Nat
  /\ event \in Seq(Event) /\ line \in Nat \ {0}
  /\ recording # "none" => main \in {"record", "import"} /\ Current > 0
  /\ batch # {} \/ call # NoCall => main = "distill"
  /\ evaluating # NotEvaluating => main = "evaluate"
  /\ "at" \in DOMAIN call
  /\ call = NoCall \/ call.at \in {"feeding", "draining", "answered", "inserted"}


LEMMA InitMain == Init => MainInv
  BY DEF Init, LedgerInit, DistillInit, EvalInit, MainInv, Commands, Statements, NoCall, NotEvaluating

\* A recording or an import has the main thread: the other commands rest.
LEMMA LedgerMainStep ==
  ASSUME MainInv, LedgerStep, UNCHANGED <<distillVars, evalVars>>
  PROVE  /\ MainInv' /\ call = NoCall /\ batch = {}
<1>0. /\ main \in Commands /\ recording \in Statements /\ faults \in Nat
      /\ event \in Seq(Event) /\ line \in Nat \ {0}
      /\ recording # "none" => main \in {"record", "import"} /\ Current > 0
      /\ Current = Len(event) /\ Len(event) \in Nat
      /\ UNCHANGED <<batch, call, evaluating>>
  BY DEF MainInv, distillVars, evalVars, Current
<1>1. main \notin {"distill", "evaluate"}
  BY <1>0 DEF LedgerStep, RecordEvent, StoreContent, AppendText, AppendEnd, Ingest, RecordingFails,
     ImportTranscript, ImportLine, ImportEnds, RebuildProjection, Idle
<1>2. call = NoCall /\ batch = {} /\ evaluating = NotEvaluating /\ "at" \in DOMAIN call
  BY <1>1 DEF MainInv
<1>3. ASSUME NEW t \in Traces, NEW ty \in Types, RecordEvent(t, ty) PROVE MainInv'
  BY <1>0, <1>2, <1>3 DEF RecordEvent, Make, Event, MainInv, Commands, Statements, Current
<1>4. CASE StoreContent \/ AppendText \/ AppendEnd
  BY <1>0, <1>2, <1>4 DEF StoreContent, AppendText, AppendEnd, MainInv, Commands, Statements, Current
<1>5. CASE Ingest \/ RecordingFails
  BY <1>0, <1>2, <1>5 DEF Ingest, RecordingFails, MainInv, Commands, Statements, Current
<1>6. CASE ImportTranscript \/ ImportEnds \/ RebuildProjection
  BY <1>0, <1>2, <1>6 DEF ImportTranscript, ImportEnds, RebuildProjection, MainInv, Commands, Statements,
     Current, Idle
<1>7. CASE ImportLine
  <2>1. CASE UNCHANGED <<recording, event>>
    BY <1>0, <1>2, <1>7, <2>1 DEF ImportLine, MainInv, Current
  <2>2. CASE Make(Transcript[line], "imported") /\ recording' = "store" /\ Transcript[line] \in Traces
    BY <1>0, <1>2, <1>7, <2>2 DEF ImportLine, Make, Event, Types, MainInv, Commands, Statements, Current
  <2>3. Transcript[line] = Malformed \/ Transcript[line] \in Traces \/ line \notin DOMAIN Transcript
    BY LedgerAssumption
  <2>4. line \in DOMAIN Transcript \/ UNCHANGED <<recording, event>>
    BY <1>7, LedgerAssumption DEF ImportLine, MainInv
  <2> QED BY <1>7, <2>1, <2>2, <2>3, <2>4 DEF ImportLine
<1> QED BY <1>2, <1>3, <1>4, <1>5, <1>6, <1>7 DEF LedgerStep

\* What the other commands leave of the ledger, a failure apart.
KeepsLedger == /\ UNCHANGED <<recording, line, event, content, log, index>>
               /\ faults' = faults \/ faults' = faults + 1

LEMMA DistillKeepsLedger == ASSUME DistillStep PROVE KeepsLedger
<1>1. CASE ProgramStep \/ BackendStep
  BY <1>1 DEF ProgramStep, Feed, CloseInput, Drain, ReadAnswer, FinishWithout, InsertCandidate,
     FinishWithCandidate, BackendStep, BackendReads, BackendComplains, BackendAnswers, BackendExits,
     Unchanged, ledgerVars, KeepsLedger
<1>2. CASE ~(ProgramStep \/ BackendStep)
  BY <1>2 DEF DistillStep, DistillTrace, Distill, NextTrace, DistillDate, DistillEventRange, DistillEnds,
     JobBreaks, RejectCandidate, ledgerVars, KeepsLedger
<1> QED BY <1>1, <1>2

LEMMA EvalKeepsLedger == ASSUME EvalStep PROVE KeepsLedger
  BY DEF EvalStep, SaveEvaluationSample, GenerateArtifact, ArtifactBreaks, EvaluateSample, InferenceFails,
     Judge, StoreNote, EvaluationBreaks, MarkReviewed, KeepLedgerBut, ledgerVars, KeepsLedger

\* What a step of the call, of either side, makes of it.
LEMMA CallSteps ==
  ASSUME MainInv, call # NoCall,
         ProgramStep \/ BackendStep
  PROVE  /\ "at" \in DOMAIN call'
         /\ \/ call' = NoCall
            \/ /\ call.at \in {"feeding", "draining"} /\ call'.at \in {"feeding", "draining"}
               /\ Unchanged
            \/ \E r : Answered(r) /\ Unchanged /\ call.at \in {"feeding", "draining"}
                    /\ (r.kind = "artifact" => r.cites \subseteq job[Job].inputs)
            \/ InsertCandidate
<1>0. "at" \in DOMAIN call
  BY DEF MainInv
<1>1. CASE Feed
  <2>1. CASE /\ call.at = "feeding" /\ Unchanged
             /\ call' = [call EXCEPT !.left = call.left - 1, !.in = call.in + 1]
    BY <1>0, <2>1
  <2>2. CASE call.at = "feeding" /\ Unchanged /\ Answered(Refusal)
    <3>1. Refusal.kind # "artifact"
      BY DEF Refusal
    <3>2. "at" \in DOMAIN call'
      BY <2>2 DEF Answered
    <3> QED BY <2>2, <3>1, <3>2
  <2> QED BY <1>1, <2>1, <2>2 DEF Feed, Calls
<1>2. CASE CloseInput \/ Drain
  BY <1>0, <1>2 DEF CloseInput, Drain, Calls
<1>3. CASE ReadAnswer
  <2>1. call.at = "draining" /\ Unchanged
    BY <1>3 DEF ReadAnswer, AtEnd, Calls
  <2>2. \E r : Answered(r) /\ (r.kind = "artifact" => r.cites \subseteq job[Job].inputs)
    <3>1. /\ [kind |-> "abstention"].kind # "artifact" /\ Refusal.kind # "artifact"
          /\ \A cites : Validate(cites).kind = "artifact" =>
                            Validate(cites).cites \subseteq job[Job].inputs
      BY DEF Refusal, Validate
    <3> QED BY <1>3, <3>1 DEF ReadAnswer
  <2>3. "at" \in DOMAIN call'
    BY <2>2 DEF Answered
  <2> QED BY <2>1, <2>2, <2>3
<1>4. CASE FinishWithout \/ FinishWithCandidate
  BY <1>4 DEF FinishWithout, FinishWithCandidate, NoCall
<1>5. CASE InsertCandidate
  BY <1>5 DEF InsertCandidate
<1>6. CASE BackendStep
  BY <1>0, <1>6 DEF BackendStep, BackendReads, BackendComplains, BackendAnswers, BackendExits, MayAnswer
<1> QED BY <1>1, <1>2, <1>3, <1>4, <1>5, <1>6 DEF ProgramStep

\* Only the row that ends a job ends its call.
LEMMA CallStays ==
  ASSUME MainInv, ProgramStep \/ BackendStep, ~FinishWithout, ~FinishWithCandidate
  PROVE  call' # NoCall
<1>1. CASE ReadAnswer \/ InsertCandidate
  BY <1>1 DEF ReadAnswer, Answered, InsertCandidate, NoCall
<1>2. CASE Feed \/ CloseInput \/ Drain \/ BackendStep
  <2>1. "at" \in DOMAIN call /\ call # NoCall
    BY <1>2 DEF MainInv, Feed, CloseInput, Drain, Calls, BackendStep, BackendReads, BackendComplains,
       BackendAnswers, BackendExits, MayAnswer
  <2>2. call' = [at |-> "answered", reply |-> Refusal] \/ call'.at \in {"feeding", "draining"}
    BY <1>2, <2>1 DEF Feed, CloseInput, Drain, Calls, Answered, BackendStep, BackendReads,
       BackendComplains, BackendAnswers, BackendExits, MayAnswer
  <2> QED BY <2>2 DEF NoCall
<1> QED BY <1>1, <1>2 DEF ProgramStep

LEMMA DistillMainStep ==
  ASSUME MainInv, DistillStep, UNCHANGED evalVars
  PROVE  MainInv'
<1>0. /\ main \in Commands /\ recording \in Statements /\ faults \in Nat
      /\ event \in Seq(Event) /\ line \in Nat \ {0}
      /\ recording # "none" => main \in {"record", "import"} /\ Current > 0
      /\ batch # {} \/ call # NoCall => main = "distill"
      /\ evaluating # NotEvaluating => main = "evaluate"
      /\ "at" \in DOMAIN call
      /\ call = NoCall \/ call.at \in {"feeding", "draining", "answered", "inserted"}
  BY DEF MainInv
<1>1. KeepsLedger
  BY DistillKeepsLedger
<1>2. main \in {"none", "distill"}
  BY <1>0 DEF DistillStep, DistillTrace, Distill, NextTrace, DistillDate, DistillEventRange, DistillEnds,
     JobBreaks, RejectCandidate, ProgramStep, Feed, CloseInput, Drain, ReadAnswer, AtEnd, Calls,
     FinishWithout, InsertCandidate, FinishWithCandidate, BackendStep, BackendReads, BackendComplains,
     BackendAnswers, BackendExits, MayAnswer, Idle
<1>3. /\ recording = "none" /\ recording' = "none" /\ faults' \in Nat
      /\ event' \in Seq(Event) /\ line' \in Nat \ {0}
      /\ evaluating = NotEvaluating /\ evaluating' = NotEvaluating
  BY <1>0, <1>1, <1>2 DEF KeepsLedger, evalVars
<1>4. SUFFICES /\ main' \in Commands
               /\ batch' # {} \/ call' # NoCall => main' = "distill"
               /\ "at" \in DOMAIN call'
               /\ call' = NoCall \/ call'.at \in {"feeding", "draining", "answered", "inserted"}
  BY <1>3 DEF MainInv, Statements
<1>5. \A source, inputs : StartJob(source, inputs) =>
          "at" \in DOMAIN call' /\ call'.at \in {"feeding", "answered"}
  BY DEF StartJob, Answered
<1>6. CASE ProgramStep \/ BackendStep
  <2>1. call # NoCall
    BY <1>6 DEF ProgramStep, Feed, CloseInput, Drain, ReadAnswer, AtEnd, Calls,
       FinishWithout, InsertCandidate, FinishWithCandidate, BackendStep, BackendReads, BackendComplains,
       BackendAnswers, BackendExits, MayAnswer
  <2>2. main' = main
    BY <1>6 DEF ProgramStep, Feed, CloseInput, Drain, ReadAnswer, FinishWithout, InsertCandidate,
       FinishWithCandidate, BackendStep, BackendReads, BackendComplains, BackendAnswers, BackendExits,
       Unchanged, ledgerVars
  <2>3. /\ "at" \in DOMAIN call'
        /\ call' = NoCall \/ call'.at \in {"feeding", "draining", "answered", "inserted"}
    BY <1>6, <2>1, CallSteps DEF Answered, InsertCandidate
  <2> QED BY <1>0, <2>1, <2>2, <2>3
<1>7. CASE \E t \in Traces : NextTrace(t)
  <2>1. main = "distill" /\ main' = main
    BY <1>7 DEF NextTrace, ledgerVars
  <2>2. CASE call' = call
    BY <1>0, <2>1, <2>2
  <2>3. CASE "at" \in DOMAIN call' /\ call'.at \in {"feeding", "answered"}
    BY <1>0, <2>1, <2>3
  <2> QED BY <1>5, <1>7, <2>2, <2>3 DEF NextTrace
<1>8. CASE \E inputs \in SUBSET index : DistillEventRange(inputs)
  BY <1>0, <1>5, <1>8 DEF DistillEventRange, Commands
<1>9. CASE DistillDate \/ \E t \in Traces : DistillTrace(t)
  BY <1>0, <1>9 DEF DistillTrace, DistillDate, Distill, Commands, Idle
<1>10. CASE DistillEnds \/ JobBreaks \/ \E c \in DOMAIN candidate : RejectCandidate(c)
  <2>1. CASE DistillEnds
    BY <1>0, <2>1 DEF DistillEnds, distillVars, Commands
  <2>2. CASE JobBreaks
    <3>1. call' = NoCall /\ "at" \in DOMAIN call'
      BY <2>2 DEF JobBreaks, NoCall
    <3> QED BY <1>0, <2>2, <3>1 DEF JobBreaks, Commands
  <2>3. CASE \E c \in DOMAIN candidate : RejectCandidate(c)
    BY <1>0, <2>3 DEF RejectCandidate, ledgerVars
  <2> QED BY <1>10, <2>1, <2>2, <2>3
<1> QED BY <1>6, <1>7, <1>8, <1>9, <1>10 DEF DistillStep

LEMMA EvalMainStep ==
  ASSUME MainInv, EvalStep, UNCHANGED distillVars
  PROVE  MainInv'
<1>1. KeepsLedger
  BY EvalKeepsLedger
<1>2. /\ main \in Commands /\ recording \in Statements /\ faults \in Nat
      /\ event \in Seq(Event) /\ line \in Nat \ {0}
      /\ recording # "none" => main \in {"record", "import"} /\ Current > 0
      /\ batch # {} \/ call # NoCall => main = "distill"
      /\ evaluating # NotEvaluating => main = "evaluate"
      /\ "at" \in DOMAIN call
      /\ call = NoCall \/ call.at \in {"feeding", "draining", "answered", "inserted"}
  BY DEF MainInv
<1>3. /\ recording' = recording /\ faults' \in Nat /\ Current' = Current
      /\ event' \in Seq(Event) /\ line' \in Nat \ {0} /\ batch' = batch /\ call' = call
  BY <1>1, <1>2 DEF KeepsLedger, distillVars, Current
<1>4. \/ main' = main /\ evaluating' = evaluating
      \/ main = "none" /\ main' = "evaluate"
      \/ evaluating # NotEvaluating /\ main' = main
      \/ evaluating # NotEvaluating /\ main' = "none" /\ evaluating' = NotEvaluating
  <2>1. CASE Judge \/ InferenceFails \/ StoreNote
    <3>1. evaluating # NotEvaluating
      BY <2>1 DEF Judge, InferenceFails, StoreNote, NotEvaluating
    <3> QED BY <2>1, <3>1 DEF Judge, InferenceFails, StoreNote, ledgerVars
  <2>2. CASE ~(Judge \/ InferenceFails \/ StoreNote)
    BY <2>2 DEF EvalStep, SaveEvaluationSample, GenerateArtifact, ArtifactBreaks, EvaluateSample,
       EvaluationBreaks, MarkReviewed, ledgerVars, Idle
  <2> QED BY <2>1, <2>2
<1>5. /\ main' \in Commands /\ (recording # "none" => main' \in {"record", "import"})
      /\ batch' # {} \/ call' # NoCall => main' = "distill"
      /\ evaluating' # NotEvaluating => main' = "evaluate"
  BY <1>2, <1>3, <1>4 DEF Commands
<1> QED BY <1>2, <1>3, <1>5 DEF MainInv

LEMMA MainStep == ASSUME MainInv, [Next]_vars PROVE MainInv'
<1>1. CASE UNCHANGED vars
  BY <1>1 DEF vars, ledgerVars, distillVars, evalVars, MainInv, Current
<1> QED BY <1>1, LedgerMainStep, DistillMainStep, EvalMainStep DEF Next

-----------------------------------------------------------------------------
(* The ledger *)

EventInv ==
  /\ content \subseteq DOMAIN event /\ index \subseteq DOMAIN event
  /\ log \in Seq(Int) /\ \A k \in DOMAIN log : log[k] \in DOMAIN event \cup {NL, Torn}

Logged(i) == \E k \in DOMAIN log : log[k] = i

\* The event being recorded is stored before its text and its text is in the
\* log before its row.
RecordingInv ==
  /\ recording = "text" /\ HasContent(Current) => Current \in content
  /\ recording \in {"end", "row"} => Logged(Current)

\* While no write failed the log consists of lines, and its last one is being
\* written at most between the text and its end.
Ended == log = << >> \/ log[Len(log)] = NL
LinesInv ==
  faults = 0 =>
    /\ recording # "end" => Ended
    /\ recording \in {"end", "row"} => Current \in Readable(log)

LedgerInv == EventInv /\ RecordingInv /\ LinesInv /\ LedgerIsSound

\* Below an end, what a reader finds in a file that is written to: a text is
\* one line more, and an end changes nothing.
LEMMA ReadableText ==
  ASSUME NEW f \in Seq(Int), f = << >> \/ f[Len(f)] = NL,
         NEW x \in Int \ {NL, Torn}
  PROVE  Readable(Append(f, x)) = Readable(f) \cup {x}
<1> DEFINE g == Append(f, x)
<1>1. /\ Len(g) = Len(f) + 1 /\ DOMAIN g = 1..Len(f) + 1 /\ DOMAIN f = 1..Len(f) /\ Len(f) \in Nat
      /\ g[Len(f) + 1] = x /\ \A i \in 1..Len(f) : g[i] = f[i]
  OBVIOUS
<1> HIDE DEF g
<1>2. ASSUME NEW i \in 1..Len(f) PROVE i \in Parsed(g) <=> i \in Parsed(f)
  <2>1. g[i] = f[i] /\ (i > 1 => g[i - 1] = f[i - 1])
    BY <1>1
  <2>2. CASE i = Len(f)
    <3>1. f[i] = NL /\ g[i + 1] # NL /\ i < Len(g)
      BY <1>1, <2>2
    <3>2. i \notin Parsed(f)
      BY <3>1 DEF Parsed
    <3>3. i \notin Parsed(g)
      BY <3>1 DEF Parsed
    <3> QED BY <3>2, <3>3
  <2>3. CASE i < Len(f)
    <3>1. g[i + 1] = f[i + 1] /\ i < Len(g) /\ i \in DOMAIN f /\ i \in DOMAIN g
      BY <1>1, <2>3
    <3> QED BY <2>1, <2>3, <3>1 DEF Parsed
  <2>4. i = Len(f) \/ i < Len(f)
    <3>1. Len(f) \in Nat /\ i \in 1..Len(f)
      BY <1>1
    <3> QED BY <3>1
  <2> QED BY <2>2, <2>3, <2>4
<1>3. Len(f) + 1 \in Parsed(g)
  <2>1. Len(f) + 1 > 1 => g[Len(f)] = NL
    BY <1>1
  <2> QED BY <1>1, <2>1 DEF Parsed
<1>4. Parsed(g) \subseteq 1..Len(f) + 1 /\ Parsed(f) \subseteq 1..Len(f)
  BY <1>1 DEF Parsed
<1>5. Parsed(g) = Parsed(f) \cup {Len(f) + 1}
  BY <1>1, <1>2, <1>3, <1>4
<1>6. { g[i] : i \in Parsed(g) } = { f[i] : i \in Parsed(f) } \cup {x}
  BY <1>1, <1>4, <1>5
<1>7. Readable(g) = Readable(f) \cup {x}
  BY <1>6 DEF Readable
<1> QED BY <1>7 DEF g

LEMMA ReadableEnd ==
  ASSUME NEW f \in Seq(Int)
  PROVE  Readable(Append(f, NL)) = Readable(f)
<1> DEFINE g == Append(f, NL)
<1>1. /\ Len(g) = Len(f) + 1 /\ DOMAIN g = 1..Len(f) + 1 /\ DOMAIN f = 1..Len(f) /\ Len(f) \in Nat
      /\ g[Len(f) + 1] = NL /\ \A i \in 1..Len(f) : g[i] = f[i]
  OBVIOUS
<1> HIDE DEF g
<1>2. ASSUME NEW i \in 1..Len(f) PROVE i \in Parsed(g) <=> i \in Parsed(f)
  <2>1. i < Len(f) => g[i + 1] = f[i + 1]
    BY <1>1
  <2>2. i > 1 => g[i - 1] = f[i - 1]
    BY <1>1
  <2> QED BY <1>1, <2>1, <2>2 DEF Parsed
<1>3. Parsed(g) = Parsed(f)
  <2>1. Parsed(f) \subseteq 1..Len(f) /\ Parsed(g) \subseteq 1..Len(f) + 1
    BY <1>1 DEF Parsed
  <2>2. Len(f) + 1 \notin Parsed(g)
    BY <1>1 DEF Parsed
  <2>3. Parsed(g) \subseteq 1..Len(f)
    BY <1>1, <2>1, <2>2
  <2> QED BY <1>2, <2>1, <2>3
<1>4. { g[i] : i \in Parsed(g) } = { f[i] : i \in Parsed(f) }
  BY <1>1, <1>3 DEF Parsed
<1>5. Readable(g) = Readable(f)
  BY <1>4 DEF Readable
<1> QED BY <1>5 DEF g

\* What a reader finds is in the file.
LEMMA ReadableIsLogged == \A i \in Readable(log) : Logged(i) /\ i # NL /\ i # Torn
  BY DEF Readable, Parsed, Logged, NL, Torn

LEMMA InitLedger == Init => LedgerInv
<1>1. Init => Readable(log) = {}
  BY DEF Init, LedgerInit, Readable, Parsed
<1> QED BY <1>1 DEF Init, LedgerInit, LedgerInv, EventInv, RecordingInv, LinesInv, Ended, LedgerIsSound,
        RowsAreLogged, RowsAreRebuilt, ContentIsStored

LEMMA OthersKeepLedger ==
  ASSUME MainInv, LedgerInv, KeepsLedger
  PROVE  LedgerInv'
<1>1. /\ UNCHANGED <<recording, line, event, content, log, index>>
      /\ faults \in Nat /\ (faults' = faults \/ faults' = faults + 1)
  BY DEF KeepsLedger, MainInv
<1>2. /\ Current' = Current /\ (faults' = 0 => faults = 0)
      /\ \A i : HasContent(i)' = HasContent(i) /\ Resolves(i)' = Resolves(i)
  BY <1>1 DEF Current, HasContent, Resolves
<1>3. EventInv' /\ RecordingInv' /\ RowsAreLogged'
  BY <1>1, <1>2 DEF LedgerInv, EventInv, RecordingInv, Logged, LedgerIsSound, RowsAreLogged, HasContent
<1>4. LinesInv' /\ RowsAreRebuilt'
  BY <1>1, <1>2 DEF LedgerInv, LinesInv, Ended, LedgerIsSound, RowsAreRebuilt
<1>5. ContentIsStored'
  BY <1>1, <1>2 DEF LedgerInv, LedgerIsSound, ContentIsStored
<1> QED BY <1>3, <1>4, <1>5 DEF LedgerInv, LedgerIsSound

\* A new event has nothing anywhere yet.
LEMMA NewEvent ==
  ASSUME MainInv, LedgerInv, recording = "none",
         NEW t, NEW ty, Make(t, ty),
         recording' = "store" \/ (recording' = "text" /\ ty # "imported"),
         UNCHANGED <<content, log, index, faults>>
  PROVE  LedgerInv'
<1>1. /\ event' = Append(event, [trace |-> t, type |-> ty])
      /\ event \in Seq(Event) /\ Len(event) \in Nat /\ DOMAIN event = 1..Len(event)
      /\ Current' = Len(event) + 1 /\ Current = Len(event)
  BY DEF Make, MainInv, Current
<1>2. /\ DOMAIN event' = 1..Len(event) + 1 /\ event'[Len(event) + 1].type = ty
      /\ \A i \in DOMAIN event : event'[i] = event[i]
  BY <1>1
<1>3. \A i \in DOMAIN event : HasContent(i)' = HasContent(i) /\ Resolves(i)' = Resolves(i)
  BY <1>2 DEF HasContent, Resolves
<1>4. EventInv' /\ RowsAreLogged'
  BY <1>1, <1>2 DEF LedgerInv, EventInv, LedgerIsSound, RowsAreLogged
<1>5. RecordingInv'
  <2>1. recording' = "text" => event'[Current'].type # "imported"
    BY <1>1, <1>2
  <2>2. recording' \notin {"end", "row"}
    OBVIOUS
  <2> QED BY <2>1, <2>2 DEF RecordingInv, HasContent
<1>6. LinesInv' /\ RowsAreRebuilt'
  BY DEF LedgerInv, LinesInv, Ended, LedgerIsSound, RowsAreRebuilt, Readable
<1>7. ContentIsStored'
  <2>1. \A k \in DOMAIN log : log[k] > 0 => log[k] \in DOMAIN event
    BY DEF LedgerInv, EventInv, NL, Torn
  <2>2. \A i \in DOMAIN event : (HasContent(i) => Resolves(i)) => (HasContent(i) => Resolves(i))'
    BY <1>3
  <2> QED BY <2>1, <2>2 DEF LedgerInv, LedgerIsSound, ContentIsStored
<1> QED BY <1>4, <1>5, <1>6, <1>7 DEF LedgerInv, LedgerIsSound

\* The text is written behind lines, and after the content that it names.
LEMMA AppendTextStep ==
  ASSUME MainInv, LedgerInv, AppendText
  PROVE  LedgerInv'
<1>1. /\ log' = Append(log, Current) /\ recording = "text" /\ recording' = "end"
      /\ UNCHANGED <<event, content, index, faults>>
      /\ log \in Seq(Int) /\ Current \in DOMAIN event /\ Current \in Int \ {NL, Torn}
      /\ Current' = Current
  BY DEF AppendText, LedgerInv, EventInv, MainInv, Current, NL, Torn
<1>2. /\ Len(log') = Len(log) + 1 /\ DOMAIN log' = 1..Len(log) + 1 /\ Len(log) \in Nat
      /\ DOMAIN log = 1..Len(log) /\ log' \in Seq(Int)
      /\ log'[Len(log) + 1] = Current /\ \A k \in 1..Len(log) : log'[k] = log[k]
  BY <1>1
<1>3. \A i : HasContent(i)' = HasContent(i) /\ Resolves(i)' = Resolves(i)
  BY <1>1 DEF HasContent, Resolves
<1>4. EventInv' /\ RowsAreLogged'
  <2>1. EventInv'
    BY <1>1, <1>2 DEF LedgerInv, EventInv
  <2>2. RowsAreLogged'
    BY <1>1, <1>2 DEF LedgerInv, LedgerIsSound, RowsAreLogged
  <2> QED BY <2>1, <2>2
<1>5. RecordingInv'
  BY <1>1, <1>2 DEF RecordingInv, Logged
<1>6. faults = 0 => Readable(log)' = Readable(log) \cup {Current}
  BY <1>1, ReadableText DEF LedgerInv, LinesInv, Ended
<1>7. LinesInv' /\ RowsAreRebuilt'
  BY <1>1, <1>6 DEF LedgerInv, LinesInv, LedgerIsSound, RowsAreRebuilt
<1>8. ContentIsStored'
  <2>1. HasContent(Current) => Resolves(Current)
    BY <1>1 DEF LedgerInv, RecordingInv, Resolves
  <2> QED BY <1>2, <1>3, <2>1 DEF LedgerInv, LedgerIsSound, ContentIsStored
<1> QED BY <1>4, <1>5, <1>7, <1>8 DEF LedgerInv, LedgerIsSound

\* Whatever a write that failed has left, or an end, it is no event's text.
LEMMA AppendOther ==
  ASSUME MainInv, LedgerInv,
         NEW x \in {NL, Torn}, log' = Append(log, x),
         UNCHANGED <<event, content, index>>
  PROVE  EventInv' /\ RowsAreLogged' /\ ContentIsStored' /\ (\A i : Logged(i) => Logged(i)')
<1>1. log \in Seq(Int) /\ x \in Int /\ ~(x > 0)
  BY DEF LedgerInv, EventInv, NL, Torn
<1>2. /\ Len(log') = Len(log) + 1 /\ DOMAIN log' = 1..Len(log) + 1 /\ Len(log) \in Nat
      /\ DOMAIN log = 1..Len(log) /\ log' \in Seq(Int)
      /\ log'[Len(log) + 1] = x /\ \A k \in 1..Len(log) : log'[k] = log[k]
  BY <1>1
<1>3. \A i : HasContent(i)' = HasContent(i) /\ Resolves(i)' = Resolves(i)
  BY DEF HasContent, Resolves
<1>4. EventInv'
  BY <1>2 DEF LedgerInv, EventInv
<1>5. RowsAreLogged'
  BY <1>2 DEF LedgerInv, LedgerIsSound, RowsAreLogged
<1>6. ContentIsStored'
  BY <1>1, <1>2, <1>3 DEF LedgerInv, LedgerIsSound, ContentIsStored
<1>7. \A i : Logged(i) => Logged(i)'
  BY <1>2 DEF Logged
<1> QED BY <1>4, <1>5, <1>6, <1>7

LEMMA AppendEndStep ==
  ASSUME MainInv, LedgerInv, AppendEnd
  PROVE  LedgerInv'
<1>1. /\ log' = Append(log, NL) /\ recording = "end" /\ recording' = "row" /\ log \in Seq(Int)
      /\ UNCHANGED <<event, content, index, faults>> /\ Current' = Current
  BY DEF AppendEnd, LedgerInv, EventInv, Current
<1>2. EventInv' /\ RowsAreLogged' /\ ContentIsStored' /\ (\A i : Logged(i) => Logged(i)')
  BY <1>1, AppendOther
<1>3. RecordingInv'
  BY <1>1, <1>2 DEF LedgerInv, RecordingInv
<1>4. Readable(log)' = Readable(log)
  BY <1>1, ReadableEnd
<1>5. Ended'
  BY <1>1 DEF Ended
<1>6. LinesInv' /\ RowsAreRebuilt'
  BY <1>1, <1>4, <1>5 DEF LedgerInv, LinesInv, LedgerIsSound, RowsAreRebuilt
<1> QED BY <1>2, <1>3, <1>6 DEF LedgerInv, LedgerIsSound

LEMMA RecordingFailsStep ==
  ASSUME MainInv, LedgerInv, RecordingFails
  PROVE  LedgerInv'
<1>1. /\ UNCHANGED <<event, content, index>> /\ recording' = "none" /\ faults' # 0
      /\ log' = log \/ log' = Append(log, Torn)
  BY DEF RecordingFails, MainInv
<1>2. LinesInv' /\ RowsAreRebuilt' /\ RecordingInv'
  BY <1>1 DEF LinesInv, RowsAreRebuilt, RecordingInv
<1>3. EventInv' /\ RowsAreLogged' /\ ContentIsStored'
  <2>1. CASE log' = log
    BY <1>1, <2>1 DEF LedgerInv, EventInv, LedgerIsSound, RowsAreLogged, ContentIsStored, HasContent, Resolves
  <2>2. CASE log' = Append(log, Torn)
    BY <1>1, <2>2, AppendOther
  <2> QED BY <1>1, <2>1, <2>2
<1> QED BY <1>2, <1>3 DEF LedgerInv, LedgerIsSound

\* The rows follow the log, one by one or in a rebuild.
LEMMA RowsStep ==
  ASSUME MainInv, LedgerInv, Ingest \/ RebuildProjection
  PROVE  LedgerInv'
<1>1. /\ UNCHANGED <<event, content, log, faults>> /\ Current' = Current /\ log \in Seq(Int)
      /\ faults \in Nat
  BY DEF Ingest, RebuildProjection, Current, MainInv, LedgerInv, EventInv
<1>2. \A i : Logged(i)' = Logged(i) /\ HasContent(i)' = HasContent(i) /\ Resolves(i)' = Resolves(i)
  BY <1>1 DEF Logged, HasContent, Resolves
<1>3. Readable(log)' = Readable(log) /\ Ended' = Ended
  BY <1>1 DEF Ended
<1>4. ContentIsStored'
  BY <1>1, <1>2 DEF LedgerInv, LedgerIsSound, ContentIsStored
<1>5. CASE Ingest
  <2>1. recording = "row" /\ index' = index \cup {Current} /\ recording' = "none" /\ Logged(Current)
        /\ Current \in DOMAIN event
    BY <1>5 DEF Ingest, LedgerInv, RecordingInv, MainInv, Current
  <2>2. EventInv' /\ RecordingInv' /\ RowsAreLogged'
    BY <1>1, <1>2, <2>1 DEF LedgerInv, EventInv, RecordingInv, LedgerIsSound, RowsAreLogged, Logged
  <2>3. LinesInv' /\ RowsAreRebuilt'
    BY <1>1, <1>3, <2>1 DEF LedgerInv, LinesInv, LedgerIsSound, RowsAreRebuilt
  <2> QED BY <1>4, <2>2, <2>3 DEF LedgerInv, LedgerIsSound
<1>6. CASE RebuildProjection
  <2>1. /\ index' = index \cup Readable(log) /\ recording = "none" /\ recording' = "none"
    BY <1>6 DEF RebuildProjection, Idle, MainInv
  <2>2. Readable(log) \subseteq DOMAIN event
    BY ReadableIsLogged DEF LedgerInv, EventInv, Logged
  <2>3. EventInv' /\ RecordingInv' /\ RowsAreLogged'
    BY <1>1, <2>1, <2>2, ReadableIsLogged DEF LedgerInv, EventInv, RecordingInv, LedgerIsSound,
       RowsAreLogged, Logged
  <2>4. LinesInv' /\ RowsAreRebuilt'
    BY <1>1, <1>3, <2>1 DEF LedgerInv, LinesInv, LedgerIsSound, RowsAreRebuilt
  <2> QED BY <1>4, <2>3, <2>4 DEF LedgerInv, LedgerIsSound
<1> QED BY <1>5, <1>6

LEMMA LedgerLedgerStep ==
  ASSUME MainInv, LedgerInv, LedgerStep
  PROVE  LedgerInv'
<1>1. ASSUME NEW t \in Traces, NEW ty \in Types \ {"imported"}, RecordEvent(t, ty) PROVE LedgerInv'
  <2>1. recording = "none"
    BY <1>1 DEF RecordEvent, Idle, MainInv
  <2> QED BY <1>1, <2>1, NewEvent DEF RecordEvent
<1>2. CASE ImportLine
  <2>1. CASE UNCHANGED <<recording, event>>
    <3>1. KeepsLedger \/ UNCHANGED <<recording, event, content, log, index, faults>>
      BY <1>2, <2>1 DEF ImportLine
    <3>2. /\ Current' = Current
          /\ \A i : HasContent(i)' = HasContent(i) /\ Resolves(i)' = Resolves(i) /\ Logged(i)' = Logged(i)
      BY <1>2, <2>1 DEF ImportLine, Current, HasContent, Resolves, Logged
    <3> QED BY <1>2, <2>1, <3>2 DEF ImportLine, LedgerInv, EventInv, RecordingInv, LinesInv, Ended,
            LedgerIsSound, RowsAreLogged, RowsAreRebuilt, ContentIsStored
  <2>2. CASE Make(Transcript[line], "imported") /\ recording' = "store"
    <3>1. recording = "none" /\ UNCHANGED <<content, log, index, faults>>
      BY <1>2 DEF ImportLine
    <3> QED BY <2>2, <3>1, NewEvent
  <2> QED BY <1>2, <2>1, <2>2 DEF ImportLine
<1>3. CASE ImportTranscript \/ ImportEnds
  <2>1. UNCHANGED <<recording, event, content, log, index, faults>>
    BY <1>3 DEF ImportTranscript, ImportEnds
  <2>2. /\ Current' = Current
        /\ \A i : HasContent(i)' = HasContent(i) /\ Resolves(i)' = Resolves(i) /\ Logged(i)' = Logged(i)
    BY <2>1 DEF Current, HasContent, Resolves, Logged
  <2> QED BY <2>1, <2>2 DEF LedgerInv, EventInv, RecordingInv, LinesInv, Ended, LedgerIsSound,
          RowsAreLogged, RowsAreRebuilt, ContentIsStored
<1>4. CASE StoreContent
  <2>1. /\ recording = "store" /\ recording' = "text" /\ content' = content \cup {Current}
        /\ UNCHANGED <<event, log, index, faults>> /\ Current' = Current /\ Current \in DOMAIN event
    BY <1>4 DEF StoreContent, Current, MainInv
  <2>2. \A i : /\ HasContent(i)' = HasContent(i) /\ Logged(i)' = Logged(i)
               /\ Resolves(i) => Resolves(i)'
    BY <2>1 DEF HasContent, Resolves, Logged
  <2>3. EventInv' /\ RecordingInv' /\ RowsAreLogged'
    BY <2>1, <2>2 DEF LedgerInv, EventInv, RecordingInv, LedgerIsSound, RowsAreLogged, Logged
  <2>4. LinesInv' /\ RowsAreRebuilt'
    BY <2>1 DEF LedgerInv, LinesInv, Ended, LedgerIsSound, RowsAreRebuilt
  <2>5. ContentIsStored'
    BY <2>1, <2>2 DEF LedgerInv, LedgerIsSound, ContentIsStored
  <2> QED BY <2>3, <2>4, <2>5 DEF LedgerInv, LedgerIsSound
<1> QED BY <1>1, <1>2, <1>3, <1>4, AppendTextStep, AppendEndStep, RecordingFailsStep, RowsStep DEF LedgerStep

LEMMA LedgerInvStep ==
  ASSUME MainInv, LedgerInv, [Next]_vars
  PROVE  LedgerInv'
<1>1. CASE UNCHANGED vars
  <2>1. KeepsLedger
    BY <1>1 DEF vars, ledgerVars, KeepsLedger
  <2> QED BY <2>1, OthersKeepLedger
<1> QED BY <1>1, LedgerLedgerStep, DistillKeepsLedger, EvalKeepsLedger, OthersKeepLedger DEF Next

\* Whatever fails or stops the program in the middle of a record or an
\* import, a row has its text in the log, a text the content that it names,
\* and while no write failed the log alone gives the rows back.
THEOREM LedgerStaysSound == Spec => []LedgerIsSound
<1>1. MainInv /\ LedgerInv /\ [Next]_vars => (MainInv /\ LedgerInv)'
  BY MainStep, LedgerInvStep
<1>2. LedgerInv => LedgerIsSound
  BY DEF LedgerInv
<1> QED BY <1>1, <1>2, InitMain, InitLedger, PTL DEF Spec

-----------------------------------------------------------------------------
(* The distillation *)

Row == [source : Traces \cup {EventRange}, inputs : SUBSET Nat, resolved : SUBSET Nat,
        status : Statuses, output : Nat]
CandidateRow == [job : Nat, cites : SUBSET Nat, status : {"active", "rejected"}]

Made(j) == { c \in DOMAIN candidate : candidate[c].job = j }

JobRows == /\ job \in Seq(Row) /\ candidate \in Seq(CandidateRow)
           /\ \A c \in DOMAIN candidate : candidate[c].job \in DOMAIN job
           /\ broken \subseteq DOMAIN job

\* The call is about the last job, and what it has made so far is known.
CallInv ==
  call # NoCall =>
    /\ Job > 0 /\ job[Job].status = "started" /\ job[Job].output = NoCandidate
    /\ Job \notin broken
    /\ call.at # "inserted" => Made(Job) = {}
    /\ call.at = "inserted" => Candidate > 0 /\ Made(Job) = {Candidate}
    /\ call.at = "answered" /\ call.reply.kind = "artifact" =>
         call.reply.cites \subseteq job[Job].inputs

\* What the row of a job says, one job at a time.
Truth(j) ==
  /\ job[j].inputs \subseteq index
  /\ job[j].resolved = { i \in job[j].inputs : HasContent(i) }
  /\ \A c \in Made(j) : candidate[c].cites \subseteq job[j].inputs
  /\ job[j].status = "started" <=> Unfinished(j)
  /\ job[j].status = "succeeded" <=> job[j].output # NoCandidate
  /\ job[j].status = "succeeded" => Made(j) = {job[j].output}
  /\ Made(j) # {} => job[j].status = "succeeded" \/ InBetween(j)

DistillInv == JobRows /\ CallInv /\ \A j \in DOMAIN job : Truth(j)

LEMMA TruthIsTold == DistillInv => JobsTellTheTruth
  BY DEF DistillInv, Truth, Made, JobsTellTheTruth

LEMMA InitDistill == Init => DistillInv
  BY DEF Init, DistillInit, DistillInv, JobRows, CallInv, NoCall

\* The ledger only grows: no event changes and no row goes.
LedgerGrows == /\ index \subseteq index'
               /\ faults' = 0 => faults = 0
               /\ \A i \in DOMAIN event : HasContent(i)' = HasContent(i)

LEMMA LedgerStepGrows == ASSUME MainInv, LedgerStep PROVE LedgerGrows
<1>1. index \subseteq index' /\ (faults' = 0 => faults = 0)
  BY DEF LedgerStep, RecordEvent, StoreContent, AppendText, AppendEnd, Ingest, RecordingFails,
     ImportTranscript, ImportLine, ImportEnds, RebuildProjection, MainInv
<1>2. event' = event \/ \E r : event' = Append(event, r)
  BY DEF LedgerStep, RecordEvent, StoreContent, AppendText, AppendEnd, Ingest, RecordingFails,
     ImportTranscript, ImportLine, ImportEnds, RebuildProjection, Make
<1>3. \A i \in DOMAIN event : event'[i] = event[i]
  <2>1. event \in Seq(Event)
    BY DEF MainInv
  <2> QED BY <1>2, <2>1
<1> QED BY <1>1, <1>3 DEF LedgerGrows, HasContent

LEMMA KeptLedgerGrows == ASSUME MainInv, KeepsLedger PROVE LedgerGrows
  BY DEF MainInv, KeepsLedger, LedgerGrows, HasContent

\* Where no job and no candidate changes, the rows stay true as long as the
\* call stays, or the job that it is about is given up.
LEMMA RowsStayTrue ==
  ASSUME MainInv, LedgerInv, DistillInv, LedgerGrows,
         UNCHANGED <<job, candidate>>,
         broken' \subseteq DOMAIN job,
         \A j \in DOMAIN job : /\ Unfinished(j)' <=> Unfinished(j)
                               /\ Made(j) # {} /\ InBetween(j) => InBetween(j)'
  PROVE  JobRows' /\ (\A j \in DOMAIN job : Truth(j))'
<1>1. JobRows'
  BY DEF DistillInv, JobRows
<1>2. \A j : Made(j)' = Made(j)
  BY DEF Made
<1>3. ASSUME NEW j \in DOMAIN job PROVE Truth(j)'
  <2>1. Truth(j)
    BY <1>3 DEF DistillInv
  <2>2. job[j].inputs \subseteq DOMAIN event
    BY <2>1 DEF Truth, LedgerInv, EventInv
  <2>3. { i \in job[j].inputs : HasContent(i)' } = { i \in job[j].inputs : HasContent(i) }
    BY <2>2 DEF LedgerGrows
  <2>4. /\ job[j].status = "started" <=> Unfinished(j)'
        /\ Made(j) # {} => job[j].status = "succeeded" \/ InBetween(j)'
    BY <2>1 DEF Truth
  <2>5. job[j].inputs \subseteq index'
    BY <2>1 DEF LedgerGrows, Truth
  <2>6. job' = job /\ candidate' = candidate
    OBVIOUS
  <2> QED BY <1>2, <2>1, <2>3, <2>4, <2>5, <2>6 DEF Truth
<1> QED BY <1>1, <1>3

LEMMA OthersKeepJobs ==
  ASSUME MainInv, LedgerInv, DistillInv, LedgerGrows,
         UNCHANGED <<job, candidate, call, broken>>
  PROVE  DistillInv'
<1>0. /\ \A j \in DOMAIN job : Unfinished(j)' <=> Unfinished(j)
      /\ \A j \in DOMAIN job : InBetween(j)' <=> InBetween(j)
      /\ broken' \subseteq DOMAIN job
  BY DEF Unfinished, InBetween, Calls, Job, DistillInv, JobRows
<1>1. JobRows' /\ (\A j \in DOMAIN job : Truth(j))'
  BY <1>0, RowsStayTrue
<1>2. CallInv'
  BY DEF DistillInv, CallInv, Job, Candidate, Made
<1> QED BY <1>1, <1>2 DEF DistillInv

\* A job begins with all of its material: what the ledger names it has.
LEMMA StartStep ==
  ASSUME MainInv, LedgerInv, DistillInv, KeepsLedger, UNCHANGED <<candidate, broken>>,
         call = NoCall,
         NEW source \in Traces \cup {EventRange}, NEW inputs \in SUBSET index,
         StartJob(source, inputs)
  PROVE  DistillInv'
<1> DEFINE new == [source |-> source, inputs |-> inputs, resolved |-> Resolved(inputs),
                   status |-> "started", output |-> NoCandidate]
<1>1. /\ job' = Append(job, new) /\ job \in Seq(Row) /\ Job = Len(job) /\ Len(job) \in Nat
      /\ DOMAIN job = 1..Len(job)
  BY DEF StartJob, DistillInv, JobRows, Job
<1>0. PICK n \in Nat : n = Len(job) + 1
  BY <1>1
<1>2. Resolved(inputs) = { i \in inputs : HasContent(i) }
  <2>1. ASSUME NEW i \in index, HasContent(i) PROVE Resolves(i)
    <3>1. PICK k \in DOMAIN log : log[k] = i
      BY <2>1 DEF LedgerInv, LedgerIsSound, RowsAreLogged
    <3>2. i > 0
      BY <2>1 DEF LedgerInv, EventInv, MainInv
    <3> QED BY <2>1, <3>1, <3>2 DEF LedgerInv, LedgerIsSound, ContentIsStored
  <2> QED BY <2>1 DEF Resolved, Resolves
<1>3. index \subseteq Nat /\ inputs \subseteq Nat /\ Resolved(inputs) \subseteq Nat
  BY DEF LedgerInv, EventInv, MainInv, Resolved
<1>4. new \in Row
  BY <1>3 DEF Row, Statuses, NoCandidate
<1> HIDE DEF new
<1>5. /\ job' \in Seq(Row) /\ Job' = n /\ DOMAIN job' = DOMAIN job \cup {n}
      /\ job'[n] = new /\ \A j \in DOMAIN job : job'[j] = job[j]
  BY <1>1, <1>0, <1>4 DEF Job
<1>6. JobRows'
  BY <1>1, <1>5 DEF DistillInv, JobRows
<1>7. \A j : Made(j)' = Made(j)
  BY DEF Made
<1>8. Made(n) = {} /\ n > 0 /\ n \notin broken
  BY <1>1, <1>0 DEF Made, DistillInv, JobRows
<1>9. \A i : HasContent(i)' = HasContent(i)
  BY DEF KeepsLedger, HasContent
<1>10. /\ call' # NoCall /\ call'.at \in {"feeding", "answered"}
       /\ call'.at = "answered" => call'.reply.kind # "artifact"
  BY DEF StartJob, Answered, Refusal, NoCall
<1>11. new.status = "started" /\ new.output = NoCandidate /\ new.inputs = inputs
       /\ new.resolved = { i \in inputs : HasContent(i) }
  BY <1>2 DEF new
<1>12. CallInv'
  BY <1>1, <1>5, <1>7, <1>8, <1>10, <1>11 DEF CallInv
<1>13. Truth(n)'
  <2>1. index' = index
    BY DEF KeepsLedger
  <2>2. Made(n)' = {}
    BY <1>7, <1>8
  <2>3. Unfinished(n)'
    BY <1>5, <1>10 DEF Unfinished
  <2>4. job'[n] = new /\ new.status # "succeeded"
    BY <1>5, <1>11
  <2> QED BY <1>9, <1>11, <2>1, <2>2, <2>3, <2>4 DEF Truth
<1>14. ASSUME NEW j \in DOMAIN job PROVE Truth(j)'
  <2>1. Truth(j)
    BY <1>14 DEF DistillInv
  <2>2. index' = index /\ job'[j] = job[j]
    BY <1>5 DEF KeepsLedger
  <2>3. j # n
    BY <1>0, <1>1
  <2>4. (Unfinished(j)' <=> Unfinished(j)) /\ (InBetween(j) => InBetween(j)')
    BY <1>5, <2>3 DEF Unfinished, InBetween, Calls
  <2> QED BY <1>7, <1>9, <2>1, <2>2, <2>4 DEF Truth
<1> QED BY <1>1, <1>5, <1>6, <1>12, <1>13, <1>14 DEF DistillInv

\* A call that goes on changes no row; what it answers cites its material.
LEMMA CallGoesOn ==
  ASSUME MainInv, LedgerInv, DistillInv, KeepsLedger, Unchanged,
         call # NoCall, call.at \in {"feeding", "draining"},
         \/ call'.at \in {"feeding", "draining"}
         \/ \E r : Answered(r) /\ (r.kind = "artifact" => r.cites \subseteq job[Job].inputs)
  PROVE  DistillInv'
<1>1. UNCHANGED <<job, candidate>>
  BY DEF Unchanged
<1>2. call' # NoCall /\ call'.at \in {"feeding", "draining", "answered"}
  BY DEF Answered, NoCall
<1>3. JobRows' /\ (\A j \in DOMAIN job : Truth(j))'
  <2>1. broken' = broken /\ Job' = Job
    BY DEF Unchanged, Job
  <2>2. \A j \in DOMAIN job : Unfinished(j)' <=> Unfinished(j)
    BY <1>2, <2>1 DEF Unfinished
  <2>3. ~Calls("inserted")
    BY DEF Calls
  <2>4. \A j \in DOMAIN job : Made(j) # {} /\ InBetween(j) => InBetween(j)'
    BY <2>1, <2>3 DEF InBetween
  <2>5. broken' \subseteq DOMAIN job
    BY <2>1 DEF DistillInv, JobRows
  <2> QED BY <1>1, <2>2, <2>4, <2>5, RowsStayTrue, KeptLedgerGrows
<1>4. /\ Job > 0 /\ job[Job].status = "started" /\ job[Job].output = NoCandidate
      /\ Made(Job) = {} /\ Job \notin broken'
  BY DEF DistillInv, CallInv, Unchanged
<1>5. call'.at = "answered" /\ call'.reply.kind = "artifact" =>
        call'.reply.cites \subseteq job[Job].inputs
  BY DEF Answered
<1>6. Made(Job)' = {} /\ Job' = Job
  BY <1>1, <1>4 DEF Made, Job
<1>7. CallInv'
  BY <1>1, <1>2, <1>4, <1>5, <1>6 DEF CallInv
<1> QED BY <1>3, <1>7 DEF DistillInv

\* The row of the job is written last, and says what the call has made.
LEMMA FinishStep ==
  ASSUME MainInv, LedgerInv, DistillInv, KeepsLedger, UNCHANGED <<candidate, broken>>,
         call # NoCall, call' = NoCall,
         NEW status \in Statuses \ {"started"}, NEW output \in Nat,
         UpdateJobStatus(status, output),
         status = "succeeded" <=> output # NoCandidate,
         Made(Job) = IF status = "succeeded" THEN {output} ELSE {}
  PROVE  DistillInv'
<1>1. /\ job \in Seq(Row) /\ Job = Len(job) /\ Len(job) \in Nat /\ Job > 0
      /\ DOMAIN job = 1..Len(job) /\ \A j \in DOMAIN job : job[j] \in Row
  BY DEF DistillInv, JobRows, CallInv, Job
<1>2. PICK n \in DOMAIN job : n = Job
  BY <1>1
<1>3. job' = [job EXCEPT ![n] = [job[n] EXCEPT !.status = status, !.output = output]]
  BY <1>1, <1>2 DEF UpdateJobStatus, Row
<1>4. [job[n] EXCEPT !.status = status, !.output = output] \in Row
  BY <1>1, <1>2 DEF Row
<1>5. /\ job' \in Seq(Row) /\ DOMAIN job' = DOMAIN job /\ Len(job') = Len(job)
      /\ \A j \in DOMAIN job \ {n} : job'[j] = job[j]
  BY <1>1, <1>3, <1>4
<1>6. /\ job'[n].status = status /\ job'[n].output = output
      /\ job'[n].inputs = job[n].inputs /\ job'[n].resolved = job[n].resolved
  BY <1>1, <1>2, <1>3 DEF Row
<1>7. \A j : Made(j)' = Made(j)
  BY DEF Made
<1>8. index' = index /\ \A i : HasContent(i)' = HasContent(i)
  BY DEF KeepsLedger, HasContent
<1>9. JobRows' /\ CallInv'
  BY <1>5 DEF DistillInv, JobRows, CallInv
<1>10. Truth(n)'
  <2>1. Truth(n)
    BY DEF DistillInv
  <2>2. Made(n)' = IF status = "succeeded" THEN {output} ELSE {}
    BY <1>2, <1>7
  <2>3. status \in {"succeeded", "failed", "abstained"} /\ Made(n)' = Made(n) /\ candidate' = candidate
    BY <1>7 DEF Statuses
  <2>4. \A x \in Made(n)' : candidate'[x].cites \subseteq job'[n].inputs
    BY <1>6, <2>1, <2>3 DEF Truth
  <2>5. job'[n].resolved = { i \in job'[n].inputs : HasContent(i)' } /\ job'[n].inputs \subseteq index'
    BY <1>6, <1>8, <2>1 DEF Truth
  <2>6. ~Unfinished(n)'
    BY <1>2 DEF Unfinished, DistillInv, CallInv
  <2> QED BY <1>6, <2>2, <2>3, <2>4, <2>5, <2>6 DEF Truth
<1>11. ASSUME NEW j \in DOMAIN job \ {n} PROVE Truth(j)'
  <2>1. Truth(j) /\ j # Job
    BY <1>2 DEF DistillInv
  <2>2. job'[j] = job[j] /\ Job' = Job
    BY <1>5 DEF Job
  <2>3. (Unfinished(j)' <=> Unfinished(j)) /\ (InBetween(j) => InBetween(j)')
    BY <2>1, <2>2 DEF Unfinished, InBetween
  <2> QED BY <1>7, <1>8, <2>1, <2>2, <2>3 DEF Truth
<1> QED BY <1>5, <1>9, <1>10, <1>11 DEF DistillInv

\* The candidate is there before the row says so, and says what it cites.
LEMMA InsertStep ==
  ASSUME MainInv, LedgerInv, DistillInv, KeepsLedger, InsertCandidate
  PROVE  DistillInv'
<1>1. /\ call # NoCall /\ call.at = "answered" /\ call.reply.kind = "artifact"
      /\ candidate' = Append(candidate, NewCandidate(call.reply.cites))
      /\ job' = job /\ call' # NoCall /\ call'.at = "inserted" /\ broken' = broken
  BY DEF InsertCandidate, Calls, NoCall
<1>2. /\ candidate \in Seq(CandidateRow) /\ Candidate = Len(candidate) /\ Len(candidate) \in Nat
      /\ DOMAIN candidate = 1..Len(candidate)
      /\ job \in Seq(Row) /\ Job = Len(job) /\ Len(job) \in Nat /\ Job > 0 /\ DOMAIN job = 1..Len(job)
  BY <1>1 DEF DistillInv, JobRows, CallInv, Job, Candidate
<1>3. PICK n \in DOMAIN job : n = Job
  BY <1>2
<1>4. /\ job[n].status = "started" /\ job[n].output = NoCandidate /\ Made(n) = {}
      /\ call.reply.cites \subseteq job[n].inputs /\ job[n].inputs \subseteq Nat
      /\ n > 0 /\ n \notin broken
  <2>1. job[n] \in Row
    BY <1>2
  <2>2. job[n].inputs \subseteq Nat
    BY <2>1 DEF Row
  <2> QED BY <1>1, <1>2, <1>3, <2>2 DEF DistillInv, CallInv
<1>5. PICK m \in Nat : m = Len(candidate) + 1
  BY <1>2
<1>6. NewCandidate(call.reply.cites) \in CandidateRow
  BY <1>3, <1>4, <1>2 DEF NewCandidate, CandidateRow
<1>7. /\ candidate' \in Seq(CandidateRow) /\ Candidate' = m /\ m > 0
      /\ DOMAIN candidate' = DOMAIN candidate \cup {m} /\ m \notin DOMAIN candidate
      /\ candidate'[m] = NewCandidate(call.reply.cites)
      /\ \A c \in DOMAIN candidate : candidate'[c] = candidate[c]
  BY <1>1, <1>2, <1>5, <1>6 DEF Candidate
<1>8. candidate'[m].job = n /\ candidate'[m].cites \subseteq job[n].inputs
  BY <1>3, <1>4, <1>7 DEF NewCandidate
<1>9. Made(n)' = {m} /\ \A j : j # n => Made(j)' = Made(j)
  BY <1>4, <1>7, <1>8 DEF Made
<1>10. /\ index' = index /\ Job' = Job /\ \A i : HasContent(i)' = HasContent(i)
       /\ Unfinished(n)' /\ InBetween(n)'
  BY <1>1, <1>3 DEF KeepsLedger, HasContent, Job, Unfinished, InBetween, Calls
<1>11. JobRows'
  BY <1>1, <1>3, <1>7, <1>8 DEF DistillInv, JobRows
<1>12. CallInv'
  BY <1>1, <1>2, <1>3, <1>4, <1>7, <1>9, <1>10 DEF CallInv
<1>13. Truth(n)'
  <2>1. Truth(n) /\ n = Job'
    BY <1>3, <1>10 DEF DistillInv
  <2>2. Made(n)' = {m} /\ job'[n] = job[n]
    BY <1>1, <1>9
  <2> QED BY <1>1, <1>4, <1>8, <1>10, <2>1, <2>2 DEF Truth
<1>14. ASSUME NEW j \in DOMAIN job \ {n} PROVE Truth(j)'
  <2>1. Truth(j) /\ j # Job
    BY <1>3 DEF DistillInv
  <2>2. Made(j)' = Made(j) /\ job'[j] = job[j]
    BY <1>1, <1>9
  <2>3. \A c \in Made(j) : candidate'[c] = candidate[c]
    BY <1>7 DEF Made
  <2>4. (Unfinished(j)' <=> Unfinished(j)) /\ (InBetween(j) => InBetween(j)')
    BY <1>1, <1>10, <2>1 DEF Unfinished, InBetween
  <2> QED BY <1>10, <2>1, <2>2, <2>3, <2>4 DEF Truth
<1> QED BY <1>1, <1>11, <1>12, <1>13, <1>14 DEF DistillInv

\* A review of a candidate changes neither what it cites nor whose it is.
LEMMA RejectStep ==
  ASSUME MainInv, LedgerInv, DistillInv, KeepsLedger,
         NEW c \in DOMAIN candidate, RejectCandidate(c)
  PROVE  DistillInv'
<1>1. /\ candidate' = [candidate EXCEPT ![c].status = "rejected"] /\ UNCHANGED <<job, call, broken>>
      /\ candidate \in Seq(CandidateRow) /\ call = NoCall
  BY DEF RejectCandidate, DistillInv, JobRows, Idle, MainInv
<1>2. /\ DOMAIN candidate' = DOMAIN candidate /\ candidate' \in Seq(CandidateRow)
      /\ \A x \in DOMAIN candidate : /\ candidate'[x].job = candidate[x].job
                                     /\ candidate'[x].cites = candidate[x].cites
  <2>1. \A x \in DOMAIN candidate : candidate[x] \in CandidateRow
    BY <1>1
  <2>2. candidate' = [candidate EXCEPT ![c] = [candidate[c] EXCEPT !.status = "rejected"]]
    BY <1>1
  <2>3. [candidate[c] EXCEPT !.status = "rejected"] \in CandidateRow
    BY <2>1 DEF CandidateRow
  <2>4. /\ [candidate[c] EXCEPT !.status = "rejected"].job = candidate[c].job
        /\ [candidate[c] EXCEPT !.status = "rejected"].cites = candidate[c].cites
    BY <2>1 DEF CandidateRow
  <2> QED BY <1>1, <2>2, <2>3, <2>4
<1>3. \A j : Made(j)' = Made(j)
  BY <1>2 DEF Made
<1>4. JobRows' /\ CallInv'
  BY <1>1, <1>2 DEF DistillInv, JobRows, CallInv
<1>5. ASSUME NEW j \in DOMAIN job PROVE Truth(j)'
  <2>1. Truth(j) /\ \A x \in Made(j) : candidate'[x].cites = candidate[x].cites
    BY <1>2 DEF DistillInv, Made
  <2>2. index' = index /\ \A i : HasContent(i)' = HasContent(i)
    BY DEF KeepsLedger, HasContent
  <2>3. (Unfinished(j)' <=> Unfinished(j)) /\ (InBetween(j)' <=> InBetween(j))
    BY <1>1 DEF Unfinished, InBetween, Calls, Job
  <2> QED BY <1>1, <1>3, <2>1, <2>2, <2>3 DEF Truth
<1> QED BY <1>1, <1>4, <1>5 DEF DistillInv

LEMMA DistillDistillStep ==
  ASSUME MainInv, LedgerInv, DistillInv, DistillStep
  PROVE  DistillInv'
<1>1. KeepsLedger /\ LedgerGrows
  BY DistillKeepsLedger, KeptLedgerGrows
<1>2. CASE ProgramStep \/ BackendStep
  <2>1. call # NoCall
    BY <1>2 DEF ProgramStep, Feed, CloseInput, Drain, ReadAnswer, AtEnd, Calls,
       FinishWithout, InsertCandidate, FinishWithCandidate, BackendStep, BackendReads, BackendComplains,
       BackendAnswers, BackendExits, MayAnswer
  <2>2. CASE FinishWithout
    <3> DEFINE status == IF call.reply.kind = "abstention" THEN "abstained" ELSE "failed"
    <3>1. /\ UpdateJobStatus(status, NoCandidate) /\ call' = NoCall /\ candidate' = candidate
          /\ call.at = "answered" /\ broken' = broken
      BY <2>2 DEF FinishWithout, Calls
    <3>2. Made(Job) = {}
      BY <2>1, <3>1 DEF DistillInv, CallInv
    <3>3. status \in Statuses \ {"started", "succeeded"} /\ NoCandidate \in Nat
      BY DEF Statuses, NoCandidate
    <3> HIDE DEF status
    <3> QED BY <1>1, <2>1, <3>1, <3>2, <3>3, FinishStep
  <2>3. CASE FinishWithCandidate
    <3>1. /\ UpdateJobStatus("succeeded", Candidate) /\ call' = NoCall /\ candidate' = candidate
          /\ call.at = "inserted" /\ broken' = broken
      BY <2>3 DEF FinishWithCandidate, Calls
    <3>2. Made(Job) = {Candidate} /\ Candidate \in Nat /\ Candidate # NoCandidate
      BY <2>1, <3>1 DEF DistillInv, CallInv, JobRows, Candidate, NoCandidate
    <3>3. "succeeded" \in Statuses \ {"started"}
      BY DEF Statuses
    <3> QED BY <1>1, <2>1, <3>1, <3>2, <3>3, FinishStep
  <2>4. CASE InsertCandidate
    BY <1>1, <2>4, InsertStep
  <2>5. CASE ~FinishWithout /\ ~FinishWithCandidate /\ ~InsertCandidate
    <3>1. \/ call' = NoCall
          \/ call.at \in {"feeding", "draining"} /\ call'.at \in {"feeding", "draining"} /\ Unchanged
          \/ \E r : /\ Answered(r) /\ Unchanged /\ call.at \in {"feeding", "draining"}
                    /\ r.kind = "artifact" => r.cites \subseteq job[Job].inputs
      BY <1>2, <2>1, <2>5, CallSteps
    <3>2. call' # NoCall
      BY <1>2, <2>5, CallStays
    <3> QED BY <1>1, <2>1, <3>1, <3>2, CallGoesOn
  <2> QED BY <2>2, <2>3, <2>4, <2>5
<1>3. ASSUME NEW t \in Traces, NextTrace(t) PROVE DistillInv'
  <2>1. CASE UNCHANGED <<job, call>>
    BY <1>1, <1>3, <2>1, OthersKeepJobs DEF NextTrace
  <2>2. CASE StartJob(t, { i \in QueryTrace(t) : Execution(i) })
    <3>1. { i \in QueryTrace(t) : Execution(i) } \in SUBSET index
      BY DEF QueryTrace
    <3> QED BY <1>1, <1>3, <2>2, <3>1, StartStep DEF NextTrace
  <2> QED BY <1>3, <2>1, <2>2 DEF NextTrace
<1>4. ASSUME NEW inputs \in SUBSET index, DistillEventRange(inputs) PROVE DistillInv'
  <2>1. call = NoCall /\ UNCHANGED <<candidate, broken>> /\ StartJob(EventRange, inputs)
    BY <1>4 DEF DistillEventRange, Idle, MainInv
  <2> QED BY <1>1, <2>1, StartStep
<1>5. CASE DistillDate \/ DistillEnds \/ \E t \in Traces : DistillTrace(t)
  BY <1>1, <1>5, OthersKeepJobs DEF DistillDate, DistillTrace, Distill, DistillEnds, distillVars
<1>6. CASE JobBreaks
  <2>1. /\ UNCHANGED <<job, candidate>> /\ call # NoCall /\ call' = NoCall
        /\ broken' = broken \cup {Job}
    BY <1>6 DEF JobBreaks
  <2>2. CallInv'
    BY <2>1 DEF CallInv
  <2>3. \A j \in DOMAIN job : Unfinished(j)' <=> Unfinished(j)
    BY <2>1 DEF Unfinished
  <2>4. \A j \in DOMAIN job : Made(j) # {} /\ InBetween(j) => InBetween(j)'
    BY <2>1 DEF InBetween, Calls
  <2>5. broken' \subseteq DOMAIN job
    <3>1. job \in Seq(Row) /\ Job > 0 /\ Job = Len(job) /\ broken \subseteq DOMAIN job
      BY <2>1 DEF DistillInv, CallInv, JobRows, Job
    <3>2. Job \in DOMAIN job
      BY <3>1
    <3> QED BY <2>1, <3>1, <3>2
  <2> QED BY <1>1, <2>1, <2>2, <2>3, <2>4, <2>5, RowsStayTrue DEF DistillInv
<1>7. ASSUME NEW c \in DOMAIN candidate, RejectCandidate(c) PROVE DistillInv'
  BY <1>1, <1>7, RejectStep
<1> QED BY <1>2, <1>3, <1>4, <1>5, <1>6, <1>7 DEF DistillStep

LEMMA DistillInvStep ==
  ASSUME MainInv, LedgerInv, DistillInv, [Next]_vars
  PROVE  DistillInv'
<1>1. CASE UNCHANGED vars
  <2>1. LedgerGrows
    BY <1>1 DEF vars, ledgerVars, LedgerGrows, HasContent
  <2> QED BY <1>1, <2>1, OthersKeepJobs DEF vars, distillVars
<1>2. CASE LedgerStep /\ UNCHANGED <<distillVars, evalVars>>
  BY <1>2, LedgerStepGrows, OthersKeepJobs DEF distillVars
<1>3. CASE EvalStep /\ UNCHANGED distillVars
  BY <1>3, EvalKeepsLedger, KeptLedgerGrows, OthersKeepJobs DEF distillVars
<1> QED BY <1>1, <1>2, <1>3, DistillDistillStep DEF Next

\* The row of a job is true wherever a statement fails: one that succeeded
\* names its only candidate, one that failed or abstained has none, and one is
\* left "started" after its call exactly when a statement of it failed, which
\* is also the only way to a candidate that no job names.  The candidate cites
\* the job's events, which the ledger has.
THEOREM JobRowsAreTrue == Spec => []JobsTellTheTruth
<1>1. Init => MainInv /\ LedgerInv /\ DistillInv
  BY InitMain, InitLedger, InitDistill
<1>2. MainInv /\ LedgerInv /\ DistillInv /\ [Next]_vars => (MainInv /\ LedgerInv /\ DistillInv)'
  BY MainStep, LedgerInvStep, DistillInvStep
<1> QED BY <1>1, <1>2, TruthIsTold, PTL DEF Spec

-----------------------------------------------------------------------------
(* The evaluation *)

Note == [sample : Nat, by : {"artifact", "evaluation"}, status : {"pending", "reviewed"}]

SampleInv ==
  /\ sample \in Seq(Traces) /\ result \in Seq(Nat) /\ feedback \in Seq(Note)
  /\ \A r \in DOMAIN result : result[r] \in DOMAIN sample
  /\ \A f \in DOMAIN feedback : feedback[f].sample \in DOMAIN sample
  /\ artifact \subseteq DOMAIN sample
  /\ \/ evaluating = NotEvaluating
     \/ evaluating \in [sample : DOMAIN sample, at : {"infer", "feedback"}]

\* The note that the main thread is about to write on a sample.
Pending(s) == IF evaluating = [sample |-> s, at |-> "feedback"] THEN 1 ELSE 0

NoteInv ==
  \A s \in DOMAIN sample :
    /\ Notes(s, "evaluation") + Pending(s) <= Results(s)
    /\ faults = 0 => /\ Notes(s, "evaluation") + Pending(s) = Results(s)
                     /\ Notes(s, "artifact") = IF s \in artifact THEN 0 ELSE 1

EvalInv == SampleInv /\ NoteInv

NotesOf(s, by) == { f \in DOMAIN feedback : feedback[f].sample = s /\ feedback[f].by = by }
ResultsOf(s) == { r \in DOMAIN result : result[r] = s }

LEMMA NotesAreFinite ==
  ASSUME SampleInv
  PROVE  \A s, by : IsFiniteSet(NotesOf(s, by)) /\ Notes(s, by) = Cardinality(NotesOf(s, by))
                    /\ Notes(s, by) \in Nat
<1>1. IsFiniteSet(DOMAIN feedback)
  <2>1. DOMAIN feedback = 1..Len(feedback) /\ Len(feedback) \in Nat
    BY DEF SampleInv
  <2> QED BY <2>1, FS_Interval
<1>2. \A s, by : IsFiniteSet(NotesOf(s, by))
  BY <1>1, FS_Subset DEF NotesOf
<1>3. \A s, by : Notes(s, by) = Cardinality(NotesOf(s, by))
  BY DEF Notes, NotesOf
<1> QED BY <1>2, <1>3, FS_CardinalityType

LEMMA ResultsAreFinite ==
  ASSUME SampleInv
  PROVE  \A s : IsFiniteSet(ResultsOf(s)) /\ Results(s) = Cardinality(ResultsOf(s))
                /\ Results(s) \in Nat
<1>1. IsFiniteSet(DOMAIN result)
  <2>1. DOMAIN result = 1..Len(result) /\ Len(result) \in Nat
    BY DEF SampleInv
  <2> QED BY <2>1, FS_Interval
<1>2. \A s : IsFiniteSet(ResultsOf(s))
  BY <1>1, FS_Subset DEF ResultsOf
<1>3. \A s : Results(s) = Cardinality(ResultsOf(s))
  BY DEF Results, ResultsOf
<1> QED BY <1>2, <1>3, FS_CardinalityType

LEMMA ReviewableFromNotes == EvalInv => ResultsAreReviewable
<1> SUFFICES ASSUME EvalInv, NEW s \in DOMAIN sample
             PROVE  /\ Notes(s, "evaluation") <= Results(s)
                    /\ faults = 0 => /\ Results(s) - Notes(s, "evaluation") = Pending(s)
                                     /\ Notes(s, "artifact") = IF s \in artifact THEN 0 ELSE 1
  BY DEF ResultsAreReviewable, Pending
<1>1. Notes(s, "evaluation") \in Nat /\ Results(s) \in Nat /\ Pending(s) \in {0, 1}
  BY NotesAreFinite, ResultsAreFinite DEF EvalInv, Pending
<1> QED BY <1>1 DEF EvalInv, NoteInv

\* A note that is written counts for its sample and its writer alone.
LEMMA OneNoteMore ==
  ASSUME SampleInv, NEW x \in DOMAIN sample, NEW who \in {"artifact", "evaluation"},
         SaveFeedback(x, who), UNCHANGED sample
  PROVE  /\ feedback' \in Seq(Note)
         /\ \A f \in DOMAIN feedback' : feedback'[f].sample \in DOMAIN sample
         /\ Notes(x, who)' = Notes(x, who) + 1
         /\ \A s, by : s # x \/ by # who => Notes(s, by)' = Notes(s, by)
<1> DEFINE new == [sample |-> x, by |-> who, status |-> "pending"]
<1>1. /\ feedback' = Append(feedback, new) /\ feedback \in Seq(Note) /\ Len(feedback) \in Nat
      /\ DOMAIN feedback = 1..Len(feedback)
  BY DEF SaveFeedback, SampleInv
<1>2. new \in Note
  BY DEF Note, SampleInv
<1>3. new.sample = x /\ new.by = who
  OBVIOUS
<1> HIDE DEF new
<1>4. PICK n \in Nat : n = Len(feedback) + 1
  BY <1>1
<1>5. /\ feedback' \in Seq(Note) /\ DOMAIN feedback' = DOMAIN feedback \cup {n}
      /\ n \notin DOMAIN feedback /\ feedback'[n] = new
      /\ \A f \in DOMAIN feedback : feedback'[f] = feedback[f]
  BY <1>1, <1>2, <1>4
<1>6. \A f \in DOMAIN feedback' : feedback'[f].sample \in DOMAIN sample
  BY <1>3, <1>5 DEF SampleInv
<1>7. NotesOf(x, who)' = NotesOf(x, who) \cup {n} /\ n \notin NotesOf(x, who)
  BY <1>3, <1>5 DEF NotesOf
<1>8. Notes(x, who)' = Cardinality(NotesOf(x, who) \cup {n})
  BY <1>7 DEF Notes, NotesOf
<1>9. Notes(x, who)' = Notes(x, who) + 1
  BY <1>7, <1>8, NotesAreFinite, FS_AddElement
<1>10. ASSUME NEW s, NEW by, s # x \/ by # who PROVE Notes(s, by)' = Notes(s, by)
  <2>1. NotesOf(s, by)' = NotesOf(s, by)
    BY <1>3, <1>5, <1>10 DEF NotesOf
  <2> QED BY <2>1 DEF Notes, NotesOf
<1> QED BY <1>5, <1>6, <1>9, <1>10

LEMMA OneResultMore ==
  ASSUME SampleInv, NEW x \in DOMAIN sample, SaveResult(x), UNCHANGED sample
  PROVE  /\ result' \in Seq(Nat)
         /\ \A r \in DOMAIN result' : result'[r] \in DOMAIN sample
         /\ Results(x)' = Results(x) + 1
         /\ \A s : s # x => Results(s)' = Results(s)
<1>1. /\ result' = Append(result, x) /\ result \in Seq(Nat) /\ Len(result) \in Nat
      /\ DOMAIN result = 1..Len(result) /\ x \in Nat
  BY DEF SaveResult, SampleInv
<1>2. PICK n \in Nat : n = Len(result) + 1
  BY <1>1
<1>3. /\ result' \in Seq(Nat) /\ DOMAIN result' = DOMAIN result \cup {n}
      /\ n \notin DOMAIN result /\ result'[n] = x
      /\ \A r \in DOMAIN result : result'[r] = result[r]
  BY <1>1, <1>2
<1>4. \A r \in DOMAIN result' : result'[r] \in DOMAIN sample
  BY <1>3 DEF SampleInv
<1>5. ResultsOf(x)' = ResultsOf(x) \cup {n} /\ n \notin ResultsOf(x)
  BY <1>3 DEF ResultsOf
<1>6. Results(x)' = Cardinality(ResultsOf(x) \cup {n})
  BY <1>5 DEF Results, ResultsOf
<1>7. Results(x)' = Results(x) + 1
  BY <1>5, <1>6, ResultsAreFinite, FS_AddElement
<1>8. ASSUME NEW s, s # x PROVE Results(s)' = Results(s)
  <2>1. ResultsOf(s)' = ResultsOf(s)
    BY <1>3, <1>8 DEF ResultsOf
  <2> QED BY <2>1 DEF Results, ResultsOf
<1> QED BY <1>3, <1>4, <1>7, <1>8

LEMMA InitEval == Init => EvalInv
  BY DEF Init, EvalInit, EvalInv, SampleInv, NoteInv

LEMMA OthersKeepEval ==
  ASSUME EvalInv, UNCHANGED evalVars, faults' = 0 => faults = 0
  PROVE  EvalInv'
<1>1. SampleInv'
  BY DEF EvalInv, SampleInv, evalVars
<1>2. \A s, by : /\ Notes(s, by)' = Notes(s, by) /\ Results(s)' = Results(s)
                 /\ Pending(s)' = Pending(s)
  BY DEF Notes, Results, Pending, evalVars
<1>3. NoteInv'
  BY <1>2 DEF EvalInv, NoteInv, evalVars
<1> QED BY <1>1, <1>3 DEF EvalInv

\* A sample begins with no result, and with its note still to be written.
LEMMA SampleStep ==
  ASSUME EvalInv, NEW t \in Traces, SaveEvaluationSample(t)
  PROVE  EvalInv'
<1>1. /\ sample' = Append(sample, t) /\ sample \in Seq(Traces) /\ Len(sample) \in Nat
      /\ DOMAIN sample = 1..Len(sample) /\ UNCHANGED <<result, feedback, evaluating, faults>>
      /\ artifact' = artifact \cup {Len(sample) + 1}
  BY DEF SaveEvaluationSample, SaveSample, EvalInv, SampleInv, ledgerVars
<1>2. PICK n \in Nat : n = Len(sample) + 1
  BY <1>1
<1>3. /\ sample' \in Seq(Traces) /\ DOMAIN sample' = DOMAIN sample \cup {n} /\ n \notin DOMAIN sample
      /\ artifact' = artifact \cup {n}
  BY <1>1, <1>2
<1>4. SampleInv'
  BY <1>1, <1>3 DEF EvalInv, SampleInv
<1>5. \A s, by : /\ Notes(s, by)' = Notes(s, by) /\ Results(s)' = Results(s)
                 /\ Pending(s)' = Pending(s)
  BY <1>1 DEF Notes, Results, Pending
<1>6. NotesOf(n, "evaluation") = {} /\ NotesOf(n, "artifact") = {} /\ ResultsOf(n) = {}
  BY <1>3 DEF EvalInv, SampleInv, NotesOf, ResultsOf
<1>7. Notes(n, "evaluation") = 0 /\ Notes(n, "artifact") = 0 /\ Results(n) = 0
  BY <1>6, NotesAreFinite, ResultsAreFinite, FS_EmptySet DEF EvalInv
<1>8. Pending(n) = 0
  <2>1. evaluating # [sample |-> n, at |-> "feedback"]
    BY <1>3 DEF EvalInv, SampleInv, NotEvaluating
  <2> QED BY <2>1 DEF Pending
<1>9. NoteInv'
  <2>1. \A s \in DOMAIN sample : s \in artifact' <=> s \in artifact
    BY <1>3
  <2>2. n \in artifact'
    BY <1>3
  <2> QED BY <1>1, <1>3, <1>5, <1>7, <1>8, <2>1, <2>2 DEF EvalInv, NoteInv
<1> QED BY <1>4, <1>9 DEF EvalInv

\* The thread of a sample writes its note once, or fails.
LEMMA ArtifactStep ==
  ASSUME EvalInv, MainInv, NEW x \in artifact, GenerateArtifact(x) \/ ArtifactBreaks(x)
  PROVE  EvalInv'
<1>1. /\ artifact' = artifact \ {x} /\ UNCHANGED <<sample, result, evaluating>>
      /\ x \in DOMAIN sample /\ (faults' = 0 => faults = 0)
  BY DEF GenerateArtifact, ArtifactBreaks, EvalInv, SampleInv, MainInv, ledgerVars
<1>2. \A s : Results(s)' = Results(s) /\ Pending(s)' = Pending(s)
  BY <1>1 DEF Results, Pending
<1>3. CASE GenerateArtifact(x)
  <2>1. SaveFeedback(x, "artifact")
    BY <1>3 DEF GenerateArtifact
  <2>2. /\ feedback' \in Seq(Note)
        /\ \A f \in DOMAIN feedback' : feedback'[f].sample \in DOMAIN sample
        /\ Notes(x, "artifact")' = Notes(x, "artifact") + 1
        /\ \A s, by : s # x \/ by # "artifact" => Notes(s, by)' = Notes(s, by)
    BY <1>1, <2>1, OneNoteMore DEF EvalInv
  <2>3. SampleInv'
    BY <1>1, <2>2 DEF EvalInv, SampleInv
  <2>4. ASSUME NEW s \in DOMAIN sample
        PROVE  /\ (Notes(s, "evaluation") + Pending(s) <= Results(s))'
               /\ faults' = 0 => /\ (Notes(s, "evaluation") + Pending(s) = Results(s))'
                                 /\ Notes(s, "artifact")' = IF s \in artifact' THEN 0 ELSE 1
    BY <1>1, <1>2, <2>2 DEF EvalInv, NoteInv
  <2>5. NoteInv'
    BY <1>1, <2>4 DEF NoteInv
  <2> QED BY <2>3, <2>5 DEF EvalInv
<1>4. CASE ArtifactBreaks(x)
  <2>1. feedback' = feedback /\ faults' # 0
    BY <1>4 DEF ArtifactBreaks, MainInv
  <2>2. \A s, by : Notes(s, by)' = Notes(s, by)
    BY <2>1 DEF Notes
  <2>3. SampleInv'
    BY <1>1, <2>1 DEF EvalInv, SampleInv
  <2>4. NoteInv'
    BY <1>1, <1>2, <2>1, <2>2 DEF EvalInv, NoteInv
  <2> QED BY <2>3, <2>4 DEF EvalInv
<1> QED BY <1>3, <1>4

\* Of the evaluation itself, what is pending is what the results are ahead.
LEMMA JudgeStep ==
  ASSUME EvalInv, Judge
  PROVE  EvalInv'
<1>1. /\ evaluating.at = "infer" /\ SaveResult(evaluating.sample) /\ faults' = faults
      /\ evaluating' = [evaluating EXCEPT !.at = "feedback"]
      /\ UNCHANGED <<sample, feedback, artifact>>
  BY DEF Judge, ledgerVars
<1>2. PICK x \in DOMAIN sample : evaluating = [sample |-> x, at |-> "infer"]
  BY <1>1 DEF EvalInv, SampleInv, NotEvaluating
<1>3. SaveResult(x) /\ evaluating' = [sample |-> x, at |-> "feedback"]
  BY <1>1, <1>2
<1>4. /\ result' \in Seq(Nat) /\ \A r \in DOMAIN result' : result'[r] \in DOMAIN sample
      /\ Results(x)' = Results(x) + 1 /\ \A s : s # x => Results(s)' = Results(s)
  BY <1>1, <1>3, OneResultMore DEF EvalInv
<1>5. /\ Pending(x) = 0 /\ Pending(x)' = 1
      /\ \A s : s # x => Pending(s) = 0 /\ Pending(s)' = 0
  BY <1>2, <1>3 DEF Pending
<1>6. \A s, by : Notes(s, by)' = Notes(s, by)
  BY <1>1 DEF Notes
<1>7. SampleInv'
  <2>1. evaluating' \in [sample : DOMAIN sample', at : {"infer", "feedback"}]
    <3>1. sample' = sample /\ x \in DOMAIN sample
      BY <1>1, <1>2
    <3> QED BY <1>3, <3>1
  <2>2. /\ sample' \in Seq(Traces) /\ feedback' \in Seq(Note) /\ artifact' \subseteq DOMAIN sample'
        /\ \A f \in DOMAIN feedback' : feedback'[f].sample \in DOMAIN sample'
    BY <1>1 DEF EvalInv, SampleInv
  <2>3. /\ result' \in Seq(Nat) /\ \A r \in DOMAIN result' : result'[r] \in DOMAIN sample'
    BY <1>1, <1>4
  <2> QED BY <2>1, <2>2, <2>3 DEF SampleInv
<1>8. \A s : Notes(s, "evaluation") \in Nat /\ Results(s) \in Nat
  BY NotesAreFinite, ResultsAreFinite DEF EvalInv
<1>9. ASSUME NEW s \in DOMAIN sample
      PROVE  /\ (Notes(s, "evaluation") + Pending(s) <= Results(s))'
             /\ faults' = 0 => /\ (Notes(s, "evaluation") + Pending(s) = Results(s))'
                               /\ Notes(s, "artifact")' = IF s \in artifact' THEN 0 ELSE 1
  BY <1>1, <1>4, <1>5, <1>6, <1>8 DEF EvalInv, NoteInv
<1>10. NoteInv'
  BY <1>1, <1>9 DEF NoteInv
<1> QED BY <1>7, <1>10 DEF EvalInv

LEMMA StoreNoteStep ==
  ASSUME EvalInv, StoreNote
  PROVE  EvalInv'
<1>1. /\ evaluating.at = "feedback" /\ SaveFeedback(evaluating.sample, "evaluation")
      /\ faults' = faults /\ evaluating' = NotEvaluating
      /\ UNCHANGED <<sample, result, artifact>>
  BY DEF StoreNote
<1>2. PICK x \in DOMAIN sample : evaluating = [sample |-> x, at |-> "feedback"]
  BY <1>1 DEF EvalInv, SampleInv, NotEvaluating
<1>3. SaveFeedback(x, "evaluation")
  BY <1>1, <1>2
<1>4. /\ feedback' \in Seq(Note)
      /\ \A f \in DOMAIN feedback' : feedback'[f].sample \in DOMAIN sample
      /\ Notes(x, "evaluation")' = Notes(x, "evaluation") + 1
      /\ \A s, by : s # x \/ by # "evaluation" => Notes(s, by)' = Notes(s, by)
  BY <1>1, <1>3, OneNoteMore DEF EvalInv
<1>5. /\ Pending(x) = 1 /\ \A s : Pending(s)' = 0
      /\ \A s : s # x => Pending(s) = 0
  BY <1>1, <1>2 DEF Pending, NotEvaluating
<1>6. \A s : Results(s)' = Results(s)
  BY <1>1 DEF Results
<1>7. SampleInv'
  BY <1>1, <1>4 DEF EvalInv, SampleInv
<1>8. \A s : Notes(s, "evaluation") \in Nat /\ Results(s) \in Nat
  BY NotesAreFinite, ResultsAreFinite DEF EvalInv
<1>9. ASSUME NEW s \in DOMAIN sample
      PROVE  /\ (Notes(s, "evaluation") + Pending(s) <= Results(s))'
             /\ faults' = 0 => /\ (Notes(s, "evaluation") + Pending(s) = Results(s))'
                               /\ Notes(s, "artifact")' = IF s \in artifact' THEN 0 ELSE 1
  BY <1>1, <1>4, <1>5, <1>6, <1>8 DEF EvalInv, NoteInv
<1>10. NoteInv'
  BY <1>1, <1>9 DEF NoteInv
<1> QED BY <1>7, <1>10 DEF EvalInv

\* It begins with nothing pending, and what fails is made good by the fault.
LEMMA EvaluateStep ==
  ASSUME MainInv, EvalInv,
         InferenceFails \/ EvaluationBreaks \/ \E s \in DOMAIN sample : EvaluateSample(s)
  PROVE  EvalInv'
<1>1. UNCHANGED <<sample, result, feedback, artifact>> /\ (faults' = 0 => faults = 0)
  BY DEF InferenceFails, EvaluationBreaks, EvaluateSample, MainInv
<1>2. \A s, by : Notes(s, by)' = Notes(s, by) /\ Results(s)' = Results(s)
  BY <1>1 DEF Notes, Results
<1>3. \/ evaluating' = NotEvaluating
      \/ \E s \in DOMAIN sample : evaluating' = [sample |-> s, at |-> "infer"]
  BY DEF InferenceFails, EvaluationBreaks, EvaluateSample
<1>4. SampleInv'
  BY <1>1, <1>3 DEF EvalInv, SampleInv
<1>5. \A s : Pending(s)' = 0 /\ Pending(s) \in {0, 1}
  BY <1>3 DEF Pending, NotEvaluating
<1>6. faults' # 0 \/ \A s : Pending(s) = 0
  <2>1. CASE EvaluationBreaks
    BY <2>1 DEF EvaluationBreaks, MainInv
  <2>2. CASE InferenceFails
    BY <2>2 DEF InferenceFails, Pending
  <2>3. CASE \E s \in DOMAIN sample : EvaluateSample(s)
    <3>1. evaluating = NotEvaluating
      BY <2>3 DEF EvaluateSample, Idle, MainInv
    <3> QED BY <3>1 DEF Pending, NotEvaluating
  <2> QED BY <2>1, <2>2, <2>3
<1>7. \A s : Notes(s, "evaluation") \in Nat /\ Results(s) \in Nat
  BY NotesAreFinite, ResultsAreFinite DEF EvalInv
<1>8. ASSUME NEW s \in DOMAIN sample
      PROVE  /\ (Notes(s, "evaluation") + Pending(s) <= Results(s))'
             /\ faults' = 0 => /\ (Notes(s, "evaluation") + Pending(s) = Results(s))'
                               /\ Notes(s, "artifact")' = IF s \in artifact' THEN 0 ELSE 1
  BY <1>1, <1>2, <1>5, <1>6, <1>7 DEF EvalInv, NoteInv
<1>9. NoteInv'
  BY <1>1, <1>8 DEF NoteInv
<1> QED BY <1>4, <1>9 DEF EvalInv

\* A review marks a note and takes none away.
LEMMA MarkStep ==
  ASSUME EvalInv, NEW n \in DOMAIN feedback, MarkReviewed(n)
  PROVE  EvalInv'
<1>1. /\ feedback' = [feedback EXCEPT ![n].status = "reviewed"] /\ faults' = faults
      /\ UNCHANGED <<sample, result, artifact, evaluating>> /\ feedback \in Seq(Note)
  BY DEF MarkReviewed, EvalInv, SampleInv, ledgerVars
<1>2. /\ DOMAIN feedback' = DOMAIN feedback /\ feedback' \in Seq(Note)
      /\ \A f \in DOMAIN feedback : /\ feedback'[f].sample = feedback[f].sample
                                    /\ feedback'[f].by = feedback[f].by
  <2>1. \A f \in DOMAIN feedback : feedback[f] \in Note
    BY <1>1
  <2>2. feedback' = [feedback EXCEPT ![n] = [feedback[n] EXCEPT !.status = "reviewed"]]
    BY <1>1
  <2>3. [feedback[n] EXCEPT !.status = "reviewed"] \in Note
    BY <2>1 DEF Note
  <2>4. /\ [feedback[n] EXCEPT !.status = "reviewed"].sample = feedback[n].sample
        /\ [feedback[n] EXCEPT !.status = "reviewed"].by = feedback[n].by
    BY <2>1 DEF Note
  <2> QED BY <1>1, <2>2, <2>3, <2>4
<1>3. SampleInv'
  BY <1>1, <1>2 DEF EvalInv, SampleInv
<1>4. \A s, by : NotesOf(s, by)' = NotesOf(s, by)
  BY <1>2 DEF NotesOf
<1>5. \A s, by : /\ Notes(s, by)' = Notes(s, by) /\ Results(s)' = Results(s)
                 /\ Pending(s)' = Pending(s)
  <2>1. \A s, by : /\ Notes(s, by) = Cardinality(NotesOf(s, by))
                   /\ Notes(s, by)' = Cardinality(NotesOf(s, by)')
    BY DEF Notes, NotesOf
  <2>2. \A s, by : Notes(s, by)' = Notes(s, by)
    BY <1>4, <2>1
  <2>3. \A s : Results(s)' = Results(s) /\ Pending(s)' = Pending(s)
    BY <1>1 DEF Results, Pending
  <2> QED BY <2>2, <2>3
<1>6. NoteInv'
  BY <1>1, <1>5 DEF EvalInv, NoteInv
<1> QED BY <1>3, <1>6 DEF EvalInv

LEMMA EvalInvStep ==
  ASSUME MainInv, EvalInv, [Next]_vars
  PROVE  EvalInv'
<1>1. CASE UNCHANGED vars
  BY <1>1, OthersKeepEval DEF vars, ledgerVars
<1>2. CASE LedgerStep /\ UNCHANGED <<distillVars, evalVars>>
  BY <1>2, LedgerStepGrows, OthersKeepEval DEF LedgerGrows
<1>3. CASE DistillStep /\ UNCHANGED evalVars
  BY <1>3, DistillKeepsLedger, KeptLedgerGrows, OthersKeepEval DEF LedgerGrows
<1>4. CASE EvalStep
  BY <1>4, SampleStep, ArtifactStep, JudgeStep, StoreNoteStep, EvaluateStep, MarkStep DEF EvalStep
<1> QED BY <1>1, <1>2, <1>3, <1>4 DEF Next

\* Between its two statements an evaluation is ahead of its note by one, and
\* never otherwise unless something failed; the thread of a sample writes one
\* note, however its work and the commands are interleaved.
THEOREM ReviewersSeeEveryResult == Spec => []ResultsAreReviewable
<1>1. MainInv /\ EvalInv /\ [Next]_vars => (MainInv /\ EvalInv)'
  BY MainStep, EvalInvStep
<1> QED BY <1>1, InitMain, InitEval, ReviewableFromNotes, PTL DEF Spec
=============================================================================

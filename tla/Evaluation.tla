----------------------------- MODULE Evaluation -----------------------------
(***************************************************************************)
(* Evaluation samples, src-tauri/src/eval_commands.rs over the stores of   *)
(* evaluation.rs: a trace is kept as a sample, a thread of its own writes  *)
(* a note on it for review, and an evaluation stores a result and a second *)
(* note as two statements.                                                 *)
(***************************************************************************)
EXTENDS EventLedger

CONSTANTS MaxSamples,  \* samples saved
          MaxResults   \* evaluations begun

ASSUME EvaluationAssumption == MaxSamples \in Nat /\ MaxResults \in Nat

VARIABLES sample,      \* the trace of each sample
          result,      \* the sample of each result
          feedback,    \* the sample, the writer and the status of each note
          artifact,    \* the samples whose thread has still to write its note
          evaluating   \* the evaluation that the main thread is at

evalVars == <<sample, result, feedback, artifact, evaluating>>

NotEvaluating == [sample |-> 0, at |-> "none"]

EvalInit == /\ sample = << >> /\ result = << >> /\ feedback = << >>
            /\ artifact = {} /\ evaluating = NotEvaluating

\* The stores: each an INSERT of a new id.
SaveSample(t) == sample' = Append(sample, t)
SaveResult(s) == result' = Append(result, s)
SaveFeedback(s, by) ==
  feedback' = Append(feedback, [sample |-> s, by |-> by, status |-> "pending"])

KeepLedgerBut == UNCHANGED <<recording, line, event, content, log, index>>

\* save_evaluation_sample: of a trace with events, however often.
SaveEvaluationSample(t) ==
  /\ Idle /\ QueryTrace(t) # {} /\ Len(sample) < MaxSamples
  /\ SaveSample(t)
  /\ artifact' = artifact \cup {Len(sample) + 1}
  /\ UNCHANGED <<ledgerVars, result, feedback, evaluating>>

\* generate_evaluation_artifact, on its thread, beside any command.
GenerateArtifact(s) ==
  /\ s \in artifact
  /\ artifact' = artifact \ {s}
  /\ SaveFeedback(s, "artifact")
  /\ UNCHANGED <<ledgerVars, sample, result, evaluating>>

\* evaluate_sample: the call may fail as a whole; an answer that names an
\* error is a judgment like another.
EvaluateSample(s) ==
  /\ Idle /\ Len(result) < MaxResults
  /\ main' = "evaluate"
  /\ evaluating' = [sample |-> s, at |-> "infer"]
  /\ KeepLedgerBut /\ UNCHANGED <<faults, sample, result, feedback, artifact>>

InferenceFails ==
  /\ evaluating.at = "infer"
  /\ main' = "none" /\ evaluating' = NotEvaluating
  /\ KeepLedgerBut /\ UNCHANGED <<faults, sample, result, feedback, artifact>>

Judge ==
  /\ evaluating.at = "infer"
  /\ SaveResult(evaluating.sample)
  /\ evaluating' = [evaluating EXCEPT !.at = "feedback"]
  /\ UNCHANGED <<ledgerVars, sample, feedback, artifact>>

\* Mutant: the note is left to the thread that wrote one with the sample.
NoteForgotten ==
  /\ evaluating.at = "feedback"
  /\ main' = "none" /\ evaluating' = NotEvaluating
  /\ KeepLedgerBut /\ UNCHANGED <<faults, sample, result, feedback, artifact>>

StoreNote ==
  /\ evaluating.at = "feedback"
  /\ SaveFeedback(evaluating.sample, "evaluation")
  /\ main' = "none" /\ evaluating' = NotEvaluating
  /\ KeepLedgerBut /\ UNCHANGED <<faults, sample, result, artifact>>

\* A statement fails: of the evaluation, which ends, or of a thread.
EvaluationBreaks ==
  /\ evaluating # NotEvaluating /\ faults < MaxFaults
  /\ faults' = faults + 1
  /\ main' = "none" /\ evaluating' = NotEvaluating
  /\ KeepLedgerBut /\ UNCHANGED <<sample, result, feedback, artifact>>

ArtifactBreaks(s) ==
  /\ s \in artifact /\ faults < MaxFaults
  /\ faults' = faults + 1
  /\ artifact' = artifact \ {s}
  /\ KeepLedgerBut /\ UNCHANGED <<main, sample, result, feedback, evaluating>>

MarkReviewed(f) ==
  /\ Idle /\ feedback[f].status = "pending"
  /\ feedback' = [feedback EXCEPT ![f].status = "reviewed"]
  /\ UNCHANGED <<ledgerVars, sample, result, artifact, evaluating>>

EvalStep ==
  \/ \E t \in Traces : SaveEvaluationSample(t)
  \/ \E s \in artifact : GenerateArtifact(s) \/ ArtifactBreaks(s)
  \/ \E s \in DOMAIN sample : EvaluateSample(s)
  \/ InferenceFails \/ Judge \/ StoreNote \/ EvaluationBreaks
  \/ \E f \in DOMAIN feedback : MarkReviewed(f)

----------------------------------------------------------------------------
EvalTypeOK ==
  /\ sample \in Seq(Traces)
  /\ result \in Seq(DOMAIN sample)
  /\ feedback \in Seq([sample : DOMAIN sample, by : {"artifact", "evaluation"},
                       status : {"pending", "reviewed"}])
  /\ artifact \subseteq DOMAIN sample
  /\ evaluating.at \in {"none", "infer", "feedback"}

Notes(s, by) == Cardinality({ f \in DOMAIN feedback :
                                feedback[f].sample = s /\ feedback[f].by = by })
Results(s) == Cardinality({ r \in DOMAIN result : result[r] = s })

\* Every result has a note that a reviewer sees, but for the one being
\* written or lost to a failure, and no note is about a result that is not
\* there; the thread of a sample writes one note and no more.
ResultsAreReviewable ==
  \A s \in DOMAIN sample :
    /\ Notes(s, "evaluation") <= Results(s)
    /\ faults = 0 =>
         /\ Results(s) - Notes(s, "evaluation") =
              (IF evaluating = [sample |-> s, at |-> "feedback"] THEN 1 ELSE 0)
         /\ Notes(s, "artifact") = (IF s \in artifact THEN 0 ELSE 1)
=============================================================================

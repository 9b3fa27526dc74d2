--------------------------- MODULE LedgerCommands ---------------------------
(* The commands over the ledger together: recording and import, distilling *)
(* and evaluating, one at a time on the main thread, beside the backend's  *)
(* process and the threads that write notes on samples.                    *)
EXTENDS Distillation, Evaluation

CONSTANT MaxRows       \* rows of jobs, samples and results together

ASSUME CommandsAssumption == MaxRows \in Nat

vars == <<ledgerVars, distillVars, evalVars>>

Init == LedgerInit /\ DistillInit /\ EvalInit

Within == Job + Len(sample) + Len(result) <= MaxRows

Next == \/ LedgerStep /\ UNCHANGED <<distillVars, evalVars>>
        \/ DistillStep /\ UNCHANGED evalVars /\ Within'
        \/ EvalStep /\ UNCHANGED distillVars /\ Within'

\* The backend runs, and so does the thread that waits for it.
Spec == Init /\ [][Next]_vars /\ BackendFairness

TypeOK == LedgerTypeOK /\ DistillTypeOK /\ EvalTypeOK
=============================================================================

--------------------------- MODULE MCConsolidation ---------------------------
\* Instances of Consolidation for TLC.
EXTENDS Consolidation, TLC

CONSTANTS t1, t2, e1, a, label

TwoThreads == {t1, t2}
OneEvent == {e1}
OneContent == {a}
OneReason == {label}
JobsOfEach == t1 :> {"live", "reject"} @@ t2 :> {"manual", "apply", "record"}
=============================================================================

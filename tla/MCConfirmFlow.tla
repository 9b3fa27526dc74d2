---------------------------- MODULE MCConfirmFlow ----------------------------
\* Instances of ConfirmFlow for TLC.
EXTENDS ConfirmFlow, TLC

CONSTANTS c1, c2

NoClick == {}
OneClick == {c1}
TwoClicks == {c1, c2}
Interchange == Permutations(Clicks)

Answers == {"start", "confirm", "decline"}
Demos == {"start", "confirm", "demo"}
AllAnswers == {"start", "confirm", "decline", "interrupt"}
MiniWindow == {"start", "stop", "confirm"}
=============================================================================

----------------------------- MODULE MCSettings -----------------------------
\* Instances of Settings for TLC.
EXTENDS Settings

CONSTANTS own, defaults, v1, v2

TwoChoices == {own, defaults}
TwoVersions == {v1, v2}
TwoChecks == {"startup", "manual"}
=============================================================================

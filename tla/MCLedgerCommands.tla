-------------------------- MODULE MCLedgerCommands --------------------------
EXTENDS LedgerCommands, TLC

CONSTANTS t1, t2, bad

TwoTraces == {t1, t2}
TwoLines == <<bad, t1>>
B(manner, out, err) == [manner |-> manner, out |-> out, err |-> err]
\* A long answer after a complaint that fits its pipe, a complaint that does
\* not, a short and a long answer without reading, and a long one before.
FiveBackends == { B("waits", 2, 1), B("waits", 1, 2), B("answers", 1, 0),
                  B("answers", 2, 0), B("streams", 2, 0) }
=============================================================================

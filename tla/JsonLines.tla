------------------------------ MODULE JsonLines ------------------------------
(* What a file of JSON lines holds: the numbers of the texts written to it *)
(* and, between them, the ends of lines, which writeln! writes apart.      *)
EXTENDS Integers, Sequences

NL == 0                \* a line end, among the texts
Torn == -1             \* a text that was cut short

\* The readers take a line for a record when it is one text; a line that
\* holds two, a part of one, or none is skipped.  The last line needs no end.
Parsed(f) == { i \in DOMAIN f : /\ f[i] \notin {NL, Torn}
                                /\ i > 1 => f[i - 1] = NL
                                /\ i < Len(f) => f[i + 1] = NL }
=============================================================================

------------------------------ MODULE ActionLog ------------------------------
(***************************************************************************)
(* The desktop's action log, src-tauri/src/logging.rs: a JSONL file that   *)
(* every thread opens for appending on its own.  writeln! on a File is two *)
(* writes, the record's text and then the line's end, and nothing locks    *)
(* the file, so the texts of two threads can share a line.  Either write   *)
(* can fail, and log() then gives up where it is.  Records are numbered; a *)
(* text is RecordWidth bytes wide; a line's end is one byte, and so is     *)
(* what a failed write leaves of a text.  The readers' limits (18 records  *)
(* of a tail, 100 for the history) are taken as not reached, which makes   *)
(* their order immaterial.                                                 *)
(***************************************************************************)
EXTENDS JsonLines, Integers, Sequences, FiniteSets

CONSTANTS Writers,      \* the threads that log
          RecordWidth,  \* the bytes of a record's text
          TailWidth     \* ACTION_LOG_TAIL_BYTES

ASSUME LogAssumption == /\ RecordWidth \in Nat \ {0}
                        /\ TailWidth \in Nat \ {0}

VARIABLES file,      \* what the file holds: texts and line ends, in order
          unended,   \* the text a thread has written without its line end
          written    \* how many texts have been written, or begun

logVars == <<file, unended, written>>

Pieces == Nat \cup {Torn}

LogInit == /\ file = << >>
           /\ unended = [w \in Writers |-> NL]
           /\ written = 0

----------------------------------------------------------------------------
(* log(): the two writes of writeln!.                                      *)

WriteText(w) ==
  /\ unended[w] = NL
  /\ written' = written + 1
  /\ file' = Append(file, written + 1)
  /\ unended' = [unended EXCEPT ![w] = written + 1]

\* Mutant: write! in place of writeln!.
WriteEndForgotten(w) ==
  /\ unended[w] # NL
  /\ unended' = [unended EXCEPT ![w] = NL]
  /\ UNCHANGED <<file, written>>

WriteEnd(w) ==
  /\ unended[w] # NL
  /\ file' = Append(file, NL)
  /\ unended' = [unended EXCEPT ![w] = NL]
  /\ UNCHANGED written

\* A write fails: of the text when a part of it is in the file, or of the
\* line's end after the text.
TextFails(w) ==
  /\ unended[w] = NL
  /\ written' = written + 1
  /\ file' = Append(file, Torn)
  /\ UNCHANGED unended

EndFails(w) ==
  /\ unended[w] # NL
  /\ unended' = [unended EXCEPT ![w] = NL]
  /\ UNCHANGED <<file, written>>

\* clear(): the file is truncated under whoever is writing.
Truncate == /\ file' = << >>
            /\ UNCHANGED <<unended, written>>

----------------------------------------------------------------------------
(* The readers; malformed lines are skipped.                               *)

\* The bytes before position i, and where the tail begins.
Offset(f, i) ==
  (i - 1) + (RecordWidth - 1) * Cardinality({ j \in 1..(i - 1) : f[j] \notin {NL, Torn} })
Cut(f) == Offset(f, Len(f) + 1) - TailWidth

\* Mutant: the first line is left out of a short file too.
InTailButFirst(f, i) == \E j \in 1..(i - 1) : f[j] = NL /\ Offset(f, j) >= Cut(f)

\* Of a file longer than the tail the first line is left out, whether the
\* tail begins inside it or exactly with it.
InTail(f, i) == \/ Cut(f) <= 0
                \/ \E j \in 1..(i - 1) : f[j] = NL /\ Offset(f, j) >= Cut(f)

\* The tail begins inside a text.  When that is inside a character of it,
\* read_to_string fails, and the reader makes do with no records.
CutsText(f) ==
  \E i \in DOMAIN f : Offset(f, i) < Cut(f) /\ Cut(f) < Offset(f, i + 1)

GetRecentTail(f) ==
  { { f[i] : i \in { i \in Parsed(f) : InTail(f, i) } } }
    \cup (IF CutsText(f) THEN {{}} ELSE {})
=============================================================================

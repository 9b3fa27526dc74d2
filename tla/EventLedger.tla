----------------------------- MODULE EventLedger -----------------------------
(***************************************************************************)
(* The event ledger, src-tauri/src/ledger.rs, and the import that fills it *)
(* (transcript_import.rs).  An event goes to three places, one statement   *)
(* after the other: its content to a file of its own, its text to the      *)
(* JSONL file of its day and then the row of the SQLite projection.        *)
(* The commands are synchronous, so the main thread runs them one at a     *)
(* time, and what goes wrong is a statement that fails or a program that   *)
(* stops between two: for what is stored the two are the same.             *)
(* Events are numbered in the order they are made, all on one day.         *)
(***************************************************************************)
EXTENDS JsonLines, Integers, Sequences, FiniteSets

CONSTANTS Traces,
          Transcript,   \* a transcript's lines: the session each names
          Malformed,    \* a line that is no JSON
          MaxEvents,    \* events made
          MaxFaults     \* statements that fail

ASSUME LedgerAssumption == /\ Transcript \in Seq(Traces \cup {Malformed})
                           /\ MaxEvents \in Nat
                           /\ MaxFaults \in Nat

VARIABLES main,       \* the command that the main thread runs
          recording,  \* the next statement of the event being recorded
          line,       \* the next line of the transcript being imported
          event,      \* the events made so far
          content,    \* the events whose content file is whole
          log,        \* the JSONL file
          index,      \* the events that have a row
          faults

ledgerVars == <<main, recording, line, event, content, log, index, faults>>

\* What the distillation tells apart: a transcript's line, the user's
\* confirmation, and the result or error that ends an execution.
Types == {"imported", "confirmed", "result"}
Commands == {"none", "record", "import", "distill", "evaluate"}
Statements == {"none", "store", "text", "end", "row"}

LedgerInit == /\ main = "none" /\ recording = "none" /\ line = 1
              /\ event = << >> /\ content = {} /\ log = << >> /\ index = {}
              /\ faults = 0

Current == Len(event)
Idle == main = "none"

----------------------------------------------------------------------------
(* record_event and record_event_with_content.                             *)

Make(t, ty) == event' = Append(event, [trace |-> t, type |-> ty])
HasContent(i) == event[i].type = "imported"

RecordEvent(t, ty) ==
  /\ Idle /\ Current < MaxEvents
  /\ main' = "record"
  /\ Make(t, ty)
  /\ recording' = "text"
  /\ UNCHANGED <<line, content, log, index, faults>>

StoreContent ==
  /\ recording = "store"
  /\ content' = content \cup {Current}
  /\ recording' = "text"
  /\ UNCHANGED <<main, line, event, log, index, faults>>

AppendText ==
  /\ recording = "text"
  /\ log' = Append(log, Current)
  /\ recording' = "end"
  /\ UNCHANGED <<main, line, event, content, index, faults>>

\* Mutant: write! in place of writeln!.
AppendNoEnd ==
  /\ recording = "end"
  /\ recording' = "row"
  /\ UNCHANGED <<main, line, event, content, log, index, faults>>

AppendEnd ==
  /\ recording = "end"
  /\ log' = Append(log, NL)
  /\ recording' = "row"
  /\ UNCHANGED <<main, line, event, content, index, faults>>

\* record_event returns after the row; an import goes on with its file.
Ingest ==
  /\ recording = "row"
  /\ index' = index \cup {Current}
  /\ recording' = "none"
  /\ main' = IF main = "record" THEN "none" ELSE main
  /\ UNCHANGED <<line, event, content, log, faults>>

\* An error goes up by `?`: the event is given up where it is, and with it
\* the rest of the file.  A write may have left a part of the text.
RecordingFails ==
  /\ recording # "none" /\ faults < MaxFaults
  /\ \/ log' = log
     \/ recording = "text" /\ log' = Append(log, Torn)
  /\ main' = "none" /\ recording' = "none" /\ line' = 1
  /\ faults' = faults + 1
  /\ UNCHANGED <<event, content, index>>

----------------------------------------------------------------------------
(* import_claude_transcripts: a file, line by line, every line a new event *)
(* whatever was imported before.                                           *)

ImportTranscript ==
  /\ Idle /\ Current + Len(Transcript) <= MaxEvents
  /\ main' = "import"
  /\ UNCHANGED <<recording, line, event, content, log, index, faults>>

ImportLine ==
  /\ main = "import" /\ recording = "none" /\ line <= Len(Transcript)
  /\ line' = line + 1
  /\ IF Transcript[line] = Malformed
     THEN UNCHANGED <<recording, event>>
     ELSE Make(Transcript[line], "imported") /\ recording' = "store"
  /\ UNCHANGED <<main, content, log, index, faults>>

ImportEnds ==
  /\ main = "import" /\ recording = "none" /\ line > Len(Transcript)
  /\ main' = "none" /\ line' = 1
  /\ UNCHANGED <<recording, event, content, log, index, faults>>

----------------------------------------------------------------------------
(* The readers.                                                            *)

\* rebuild_from_jsonl: a line is one event's text, or it is skipped.
Readable(f) == { f[i] : i \in Parsed(f) }

\* rebuild_projection: rows are inserted or replaced, never removed.
RebuildProjection ==
  /\ Idle
  /\ index' = index \cup Readable(log)
  /\ UNCHANGED <<main, recording, line, event, content, log, faults>>

QueryTrace(t) == { i \in index : event[i].trace = t }

\* ContentResolver::resolve: the file is there and has the content's hash.
Resolves(i) == HasContent(i) /\ i \in content

LedgerStep ==
  \/ \E t \in Traces, ty \in Types \ {"imported"} : RecordEvent(t, ty)
  \/ StoreContent \/ AppendText \/ AppendEnd \/ Ingest \/ RecordingFails
  \/ ImportTranscript \/ ImportLine \/ ImportEnds
  \/ RebuildProjection

----------------------------------------------------------------------------
LedgerTypeOK ==
  /\ main \in Commands /\ recording \in Statements
  /\ line \in 1..(Len(Transcript) + 1)
  /\ event \in Seq([trace : Traces, type : Types]) /\ Len(event) <= MaxEvents
  /\ content \subseteq DOMAIN event /\ index \subseteq DOMAIN event
  /\ log \in Seq(DOMAIN event \cup {NL, Torn})
  /\ faults \in 0..MaxFaults

\* A row has its event's text in the file before it.
RowsAreLogged == \A i \in index : \E k \in DOMAIN log : log[k] = i

\* The projection can be rebuilt: while no write failed, the text of every
\* row is a line that the rebuild reads, and what was logged and has no row
\* is the event being recorded.
RowsAreRebuilt ==
  faults = 0 => /\ index \subseteq Readable(log)
                /\ Readable(log) \ index \subseteq
                     { i \in {Current} : recording \in {"end", "row"} }

\* An event that names a content file was logged after it was written whole.
ContentIsStored ==
  \A k \in DOMAIN log : log[k] > 0 /\ HasContent(log[k]) => Resolves(log[k])

\* What the ledger holds of an event is in the order content, log, row, at
\* every moment and whatever fails: the log is the source the rows can be
\* rebuilt from, and the content a row names can be resolved.
LedgerIsSound == RowsAreLogged /\ RowsAreRebuilt /\ ContentIsStored
=============================================================================

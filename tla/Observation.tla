----------------------------- MODULE Observation -----------------------------
(***************************************************************************)
(* The desktop's observation loop, src-tauri/src/main_loop.rs with         *)
(* window_monitor.rs, and the action log it shares with the threads that   *)
(* answer the user (ActionLog).  A round captures the window in front,     *)
(* skips it when its title is the last one judged, computes what the       *)
(* monitor's buffer says about the user's switching, reads the tail of the *)
(* action log, and asks the model.  What an answer leads to afterwards is  *)
(* ConfirmFlow's subject; here it only makes the loop wait.                *)
(***************************************************************************)
EXTENDS ActionLog

CONSTANTS Windows,       \* titles of the windows the user works in
          OwnWindow,     \* a window of cozmio itself, which is skipped
          NoTitle,       \* the empty last_window_title of a new monitor
          Loop, User,    \* the two threads that log
          Answers,       \* kinds of model answer, a subset of AnswerKinds
          WindowChangeDetection,   \* of the configuration, TRUE by default
          LastMinute,    \* the 60 of compute_context, "last 60s": milliseconds
          Rapid,         \* its 5, "under 5s": milliseconds
          Capacity,      \* of the monitor's ring buffer
          MaxTime, MaxMoves, MaxRecords   \* bounds of the model

\* An answer is empty, or text; text whose 200th byte is inside a character
\* is "split".
AnswerKinds == {"empty", "text", "split"}
Titles == Windows \cup {OwnWindow}

ASSUME ObservationAssumption ==
  /\ Loop # User /\ Writers = {Loop, User}
  /\ OwnWindow \notin Windows /\ NoTitle \notin Titles
  /\ Answers \subseteq AnswerKinds /\ WindowChangeDetection \in BOOLEAN
  /\ {LastMinute, Rapid, MaxTime, MaxMoves, MaxRecords} \subseteq Nat
  /\ Capacity \in Nat \ {0}

VARIABLES front,      \* the title of the window in front
          now,        \* the clock, in milliseconds
          running,    \* the user's pause switch (app_running)
          waiting,    \* a suggestion is pending or a task active
          lastTitle,  \* monitor.last_window_title
          buffer,     \* monitor.buffer
          lastError,  \* last_error_signature
          pc,         \* where the loop's thread is
          round,      \* the round under way: its snapshot and what it found
          moves,      \* history: when each change of the front window was
          judged,     \* history: the last title the model answered about
          disturbed   \* history: texts whose writing met another's, an exit or
                      \* a failed write, which the next text meets too

envVars == <<front, now, running, waiting, moves>>
monitorVars == <<lastTitle, buffer>>
vars == <<front, now, running, waiting, lastTitle, buffer, lastError, pc,
          round, moves, judged, disturbed, file, unended, written>>

NoError == [kind |-> "none", title |-> NoTitle]
Errors == [kind : {"CAPTURE_ERROR"}, title : {NoTitle}]
            \cup [kind : {"MODEL_ERROR"}, title : Windows]
NoContext == [stay |-> 0, switches |-> 0, rapid |-> 0, changed |-> FALSE]
NoRound == [title |-> NoTitle, at |-> 0, context |-> NoContext, tail |-> {},
            entry |-> NoError]

Init == /\ LogInit
        /\ front \in Titles
        /\ now = 0
        /\ running = FALSE
        /\ waiting = FALSE
        /\ lastTitle = NoTitle
        /\ buffer = << >>
        /\ lastError = NoError
        /\ pc = "top"
        /\ round = NoRound
        /\ moves = << >>
        /\ judged = NoTitle
        /\ disturbed = {}

----------------------------------------------------------------------------
(* window_monitor.rs.  capture_all stamps a snapshot in milliseconds, and  *)
(* compute_context applies its 60 and its 5, seconds to its comments, to   *)
(* the stamps as they are: its last minute is 60 milliseconds long.        *)

\* Mutant: the whole buffer counts.
WholeBuffer(time) == DOMAIN buffer

LastMinuteOf(time) == { i \in DOMAIN buffer : buffer[i].at >= time - LastMinute }

\* Of the entries in S, i comes next after j.
Follows(S, j, i) == j < i /\ \A k \in S : k <= j \/ i <= k

\* The entries whose title differs from the one before.
Switches(S) == { i \in S : \E j \in S : /\ Follows(S, j, i)
                                       /\ buffer[i].title # buffer[j].title }

\* compute_context, on the buffer as it was before this snapshot.
ComputeContext(title, time) ==
  LET same == { i \in DOMAIN buffer : buffer[i].title = title }
      switches == Switches(LastMinuteOf(time))
      last == buffer[Len(buffer)]
  IN  [stay |-> IF same = {} THEN 0
                ELSE time - buffer[CHOOSE i \in same : \A j \in same : j <= i].at,
       switches |-> Cardinality(switches),
       rapid |-> Cardinality({ i \in switches : \E j \in switches :
                                 /\ Follows(switches, j, i)
                                 /\ buffer[i].at - buffer[j].at < Rapid }),
       changed |-> buffer # << >> /\ last.title # title /\ time - last.at < Rapid]

\* ProcessBuffer::push
Push(entry) == Append(IF Len(buffer) >= Capacity THEN Tail(buffer) ELSE buffer, entry)

----------------------------------------------------------------------------
(* The log as the two threads use it.                                      *)

InFlight == { unended[w] : w \in { w \in Writers : unended[w] # NL } }
Meeting(texts) == IF InFlight = {} THEN disturbed
                  ELSE disturbed \cup InFlight \cup texts

Write(w) == /\ written < MaxRecords
            /\ WriteText(w)
            /\ disturbed' = Meeting({written + 1})

\* The next text may land on the line of what a failed write left.
FailText(w) == /\ written < MaxRecords
               /\ TextFails(w)
               /\ disturbed' = disturbed \cup InFlight \cup {Torn, written + 2}
FailEnd(w) == /\ EndFails(w)
              /\ disturbed' = disturbed \cup InFlight \cup {written + 1}

----------------------------------------------------------------------------
(* The loop.                                                               *)

Ready == pc = "top" /\ running /\ ~waiting

\* The round has an entry for the log; what it told the model is done with.
Entering(entry) ==
  [round EXCEPT !.entry = entry, !.context = NoContext, !.tail = {}]

\* Mutant: the title counts as seen although the call failed.
FailAsSeen(error) ==
  /\ IF lastError = error
       THEN pc' = "top" /\ round' = NoRound /\ UNCHANGED lastError
       ELSE lastError' = error /\ pc' = "log" /\ round' = Entering(error)
  /\ lastTitle' = error.title
  /\ UNCHANGED <<buffer, judged>>

\* store_error_judgment: an error is reported unless it is the last one again.
Fail(error) ==
  /\ IF lastError = error
       THEN pc' = "top" /\ round' = NoRound /\ UNCHANGED lastError
       ELSE /\ lastError' = error
            /\ pc' = "log"
            /\ round' = Entering(error)
  /\ UNCHANGED <<monitorVars, judged>>

CaptureFails == /\ Ready
                /\ Fail([kind |-> "CAPTURE_ERROR", title |-> NoTitle])
                /\ UNCHANGED <<envVars, logVars, disturbed>>

Ask ==
  /\ Ready
  /\ front # OwnWindow
  /\ WindowChangeDetection => front # lastTitle
  /\ \E tail \in GetRecentTail(file) :
       round' = [title |-> front, at |-> now,
                 context |-> ComputeContext(front, now),
                 tail |-> tail, entry |-> NoError]
  /\ pc' = "ask"
  /\ UNCHANGED <<envVars, logVars, monitorVars, lastError, judged, disturbed>>

ModelFails == /\ pc = "ask"
              /\ Fail([kind |-> "MODEL_ERROR", title |-> round.title])
              /\ UNCHANGED <<envVars, logVars, disturbed>>

\* An answer is first printed to the application's log, its first 200 bytes:
\* where that cuts a character in two, the thread panics and is gone.
ModelAnswers(answer) ==
  /\ pc = "ask"
  /\ lastError' = NoError
  /\ lastTitle' = round.title
  /\ judged' = round.title
  /\ pc' = IF answer = "split" THEN "dead" ELSE "log"
  /\ round' = Entering([kind |-> answer, title |-> round.title])
  /\ UNCHANGED <<envVars, logVars, buffer, disturbed>>

AfterLog == IF round.entry \in Errors THEN "top" ELSE "finish"

LogText == /\ pc = "log"
           /\ Write(Loop)
           /\ pc' = "end"
           /\ UNCHANGED <<envVars, monitorVars, lastError, round, judged>>

\* The file cannot be opened, or a write fails: the error is printed and the
\* round goes on.
LogFails == /\ \/ pc = "log" /\ UNCHANGED <<logVars, disturbed>>
               \/ pc = "log" /\ FailText(Loop)
               \/ pc = "end" /\ FailEnd(Loop)
            /\ pc' = AfterLog
            /\ UNCHANGED <<envVars, monitorVars, lastError, round, judged>>

LogEnd == /\ pc = "end"
          /\ WriteEnd(Loop)
          /\ pc' = AfterLog
          /\ UNCHANGED <<envVars, monitorVars, lastError, round, judged, disturbed>>

\* A suggestion is stored for text, and the snapshot goes to the buffer.
Finish ==
  /\ pc = "finish"
  /\ waiting' = (waiting \/ round.entry.kind = "text")
  /\ buffer' = Push([title |-> round.title, at |-> round.at])
  /\ pc' = "top"
  /\ round' = NoRound
  /\ UNCHANGED <<logVars, front, now, running, moves, lastTitle, lastError,
                 judged, disturbed>>

----------------------------------------------------------------------------
(* The user, the clock, and the threads that answer the user.              *)

loopVars == <<monitorVars, lastError, pc, round, judged>>

MoveTo(title) ==
  /\ title # front
  /\ Len(moves) < MaxMoves
  /\ front' = title
  /\ moves' = Append(moves, now)
  /\ UNCHANGED <<loopVars, logVars, now, running, waiting, disturbed>>

Tick == /\ now < MaxTime
        /\ now' = now + 1
        /\ UNCHANGED <<loopVars, logVars, front, running, waiting, moves, disturbed>>

Toggle == /\ running' = ~running
          /\ UNCHANGED <<loopVars, logVars, front, now, waiting, moves, disturbed>>

\* log_task_action, on a thread of a command or of the relay bridge.
UserText == Write(User) /\ UNCHANGED <<loopVars, envVars>>
UserEnd == WriteEnd(User) /\ UNCHANGED <<loopVars, envVars, disturbed>>
UserFails == (FailText(User) \/ FailEnd(User)) /\ UNCHANGED <<loopVars, envVars>>

\* The suggestion, and the task it became, are over.
Settle == /\ waiting
          /\ waiting' = FALSE
          /\ UNCHANGED <<loopVars, logVars, front, now, running, moves, disturbed>>

ClearHistory == /\ Truncate
                /\ disturbed' = disturbed \cap InFlight
                /\ UNCHANGED <<loopVars, envVars>>

\* The application is closed and started again: only the file stays.  Texts
\* without a line end are left so, and the next text lands on their line.
Restart ==
  /\ unended' = [w \in Writers |-> NL]
  /\ waiting' = FALSE
  /\ running' = FALSE
  /\ lastTitle' = NoTitle
  /\ buffer' = << >>
  /\ lastError' = NoError
  /\ pc' = "top"
  /\ round' = NoRound
  /\ judged' = NoTitle
  /\ disturbed' = Meeting({written + 1})
  /\ UNCHANGED <<file, written, front, now, moves>>

----------------------------------------------------------------------------
LoopStep == \/ Ask \/ ModelFails
            \/ \E answer \in Answers : ModelAnswers(answer)
            \/ LogText \/ LogFails \/ LogEnd \/ Finish

Next == \/ LoopStep \/ CaptureFails
        \/ \E title \in Titles : MoveTo(title)
        \/ Tick \/ Toggle \/ UserText \/ UserEnd \/ UserFails \/ Settle \/ ClearHistory \/ Restart

\* The loop's thread keeps running as long as it lives: a round's capture may
\* fail, and need not; what it starts comes to an end, the model's call at
\* its timeout.
Spec == Init /\ [][Next]_vars /\ WF_vars(LoopStep)

----------------------------------------------------------------------------
Rounds == [title : Titles \cup {NoTitle}, at : 0..MaxTime,
           context : [stay : 0..MaxTime, switches : 0..Capacity,
                      rapid : 0..Capacity, changed : BOOLEAN],
           tail : SUBSET Pieces, entry : Errors \cup {NoError}
                                   \cup [kind : AnswerKinds, title : Windows]]

TypeOK ==
  /\ front \in Titles /\ now \in 0..MaxTime
  /\ running \in BOOLEAN /\ waiting \in BOOLEAN
  /\ {lastTitle, judged} \subseteq Windows \cup {NoTitle}
  /\ buffer \in Seq([title : Windows, at : 0..MaxTime]) /\ Len(buffer) <= Capacity
  /\ lastError \in Errors \cup {NoError}
  /\ pc \in {"top", "ask", "log", "end", "finish", "dead"}
  /\ round \in Rounds
  /\ file \in Seq(Pieces) /\ unended \in [Writers -> Nat]

\* Of the texts in the file, a reader skips only those whose writing met
\* another thread's, the application's exit, or a write that failed: log() of
\* logging.rs, which has no lock and repairs nothing, against the line by line
\* parsing of get_recent.
LostOnlyIfDisturbed ==
  \A i \in DOMAIN file \ Parsed(file) : file[i] # NL => file[i] \in disturbed

\* What the model is told of the user's switching did happen: no more
\* switches than the window in front changed in the time compute_context
\* counts, LastMinute milliseconds, and a change only after one less than
\* Rapid milliseconds ago; though the buffer holds only the rounds that came
\* to their end.
ContextIsTrue ==
  pc = "ask" =>
    /\ round.context.switches <=
         Cardinality({ i \in DOMAIN moves : moves[i] >= round.at - LastMinute })
    /\ round.context.changed =>
         \E i \in DOMAIN moves : round.at - moves[i] < Rapid

\* The bytes of a file from position i on.
Remaining(i) == Offset(file, Len(file) + 1) - Offset(file, i)

\* Every record whose line, with the line end before it, lies in the tail is
\* told to the model: get_recent_tail, which leaves out the first line of a
\* file longer than its tail.  Only a tail that begins inside a text can be
\* unreadable, and then nothing is told.
TailIsTold ==
  [][pc = "top" /\ pc' = "ask" =>
       \/ CutsText(file) /\ round'.tail = {}
       \/ \A i \in Parsed(file) :
            Remaining(IF i = 1 THEN 1 ELSE i - 1) <= TailWidth => file[i] \in round'.tail]_vars

\* A window that stays in front of a loop that may work is answered about,
\* or asked about for ever: a failed call leaves last_window_title alone, so
\* that the next round asks again.
WindowIsJudged ==
  \A w \in Windows :
    <>[](front = w /\ running /\ ~waiting /\ pc # "dead")
      => \/ <>(judged = w)
         \/ []<>(pc = "ask" /\ round.title = w)
         \/ []<>(lastError.kind = "CAPTURE_ERROR")

\* start_main_loop "runs indefinitely", main_loop.rs:19.
LoopRunsIndefinitely == pc # "dead"
=============================================================================

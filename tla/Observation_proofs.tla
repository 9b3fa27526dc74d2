------------------------- MODULE Observation_proofs -------------------------
(***************************************************************************)
(* Theorems about the observation loop and the action log, for any windows,*)
(* any records and any length of the buffer, the tail and the log.  The    *)
(* first part is about the file that two threads write, the second about   *)
(* what the monitor's buffer says of the windows the user moved between.   *)
(***************************************************************************)
EXTENDS Observation, FiniteSetTheorems, TLAPS

-----------------------------------------------------------------------------
(* The action log *)

FileInv == file \in Seq(Int) /\ unended \in [Writers -> Nat] /\ written \in Nat

\* A last line without its end belongs to a thread still writing it, unless
\* an exit left it: then it is known as disturbed, and so is what comes next.
LastInv ==
  file # << >> /\ file[Len(file)] # NL =>
    \/ file[Len(file)] \in InFlight
    \/ {file[Len(file)], written + 1} \subseteq disturbed

LostInv == FileInv /\ LastInv /\ LostOnlyIfDisturbed

LEMMA InitLost == Init => LostInv
  BY DEF Init, LogInit, LostInv, FileInv, LastInv, LostOnlyIfDisturbed, Parsed, NL

\* A text at the end of the file takes with it only the one it meets there.
LEMMA TextKeepsLost ==
  ASSUME LostInv, NEW x \in Int \ {NL}, file' = Append(file, x),
         disturbed \subseteq disturbed', x = Torn => x \in disturbed',
         file # << >> /\ file[Len(file)] # NL => {file[Len(file)], x} \subseteq disturbed'
  PROVE  LostOnlyIfDisturbed'
<1>0. file \in Seq(Int)
  BY DEF LostInv, FileInv
<1>1. SUFFICES ASSUME NEW i \in DOMAIN file', file'[i] # NL, i \notin Parsed(file')
               PROVE  file'[i] \in disturbed'
  BY DEF LostOnlyIfDisturbed
<1>2. /\ Len(file) \in Nat /\ Len(file') = Len(file) + 1 /\ i \in 1..(Len(file) + 1)
      /\ \A j \in 1..Len(file) : file'[j] = file[j]
      /\ file'[Len(file) + 1] = x
      /\ DOMAIN file = 1..Len(file)
  BY <1>0, <1>1
<1>3. CASE i = Len(file) + 1
  <2>1. x = Torn \/ (i > 1 /\ file'[i - 1] # NL)
    <3>1. file'[i] = x /\ ~(i < Len(file'))
      BY <1>2, <1>3
    <3>2. file'[i] \in {NL, Torn} \/ ~(i > 1 => file'[i - 1] = NL)
      BY <1>1, <3>1 DEF Parsed
    <3> QED BY <3>1, <3>2
  <2>2. CASE i > 1 /\ file'[i - 1] # NL
    <3>0. i > 1
      BY <2>2
    <3>1. Len(file) \in 1..Len(file) /\ i - 1 = Len(file)
      BY <1>2, <1>3, <3>0
    <3>2. file # << >> /\ file[Len(file)] # NL
      BY <1>2, <2>2, <3>1
    <3> QED BY <1>2, <1>3, <3>2
  <2> QED BY <1>2, <1>3, <2>1, <2>2
<1>4. CASE i = Len(file)
  <2>1. file # << >> /\ file[Len(file)] # NL /\ file'[i] = file[Len(file)]
    BY <1>1, <1>2, <1>4
  <2> QED BY <2>1
<1>5. CASE i < Len(file)
  <2>1. i \in 1..Len(file) /\ i + 1 \in 1..Len(file) /\ (i > 1 => i - 1 \in 1..Len(file))
    BY <1>2, <1>5
  <2>2. /\ file'[i] = file[i] /\ file'[i + 1] = file[i + 1]
        /\ i > 1 => file'[i - 1] = file[i - 1]
    BY <1>2, <2>1
  <2>3. i \notin Parsed(file) /\ file[i] # NL
    BY <1>1, <1>2, <1>5, <2>1, <2>2 DEF Parsed
  <2>4. file[i] \in disturbed
    BY <1>2, <2>1, <2>3 DEF LostInv, LostOnlyIfDisturbed
  <2> QED BY <2>2, <2>4
<1> QED BY <1>2, <1>3, <1>4, <1>5

\* A text that follows an unended one is disturbed, and so is the other.
LEMMA WriteKeepsLost ==
  ASSUME LostInv, NEW w \in Writers, Write(w)
  PROVE  LostInv'
<1>0. /\ file \in Seq(Int) /\ unended \in [Writers -> Nat] /\ written \in Nat
      /\ file' = Append(file, written + 1)
      /\ unended' = [unended EXCEPT ![w] = written + 1]
      /\ written' = written + 1
      /\ disturbed' = Meeting({written + 1})
  BY DEF LostInv, FileInv, Write, WriteText
<1>1. FileInv'
  BY <1>0 DEF FileInv
<1>2. disturbed \subseteq disturbed'
  BY <1>0 DEF Meeting
<1>3. file'[Len(file')] \in InFlight'
  <2>1. file'[Len(file')] = written + 1
    BY <1>0
  <2>2. unended'[w] = written + 1 /\ written + 1 # NL
    BY <1>0 DEF NL
  <2> QED BY <2>1, <2>2 DEF InFlight
<1>4. file # << >> /\ file[Len(file)] # NL => {file[Len(file)], written + 1} \subseteq disturbed'
  <2>1. SUFFICES ASSUME file # << >>, file[Len(file)] # NL
                 PROVE  {file[Len(file)], written + 1} \subseteq disturbed'
    OBVIOUS
  <2>2. CASE file[Len(file)] \in InFlight
    BY <1>0, <2>2 DEF Meeting
  <2>3. CASE {file[Len(file)], written + 1} \subseteq disturbed
    BY <1>2, <2>3
  <2> QED BY <2>1, <2>2, <2>3 DEF LostInv, LastInv
<1>5. written + 1 \in Int \ {NL} /\ written + 1 # Torn
  BY <1>0 DEF NL, Torn
<1>6. LostOnlyIfDisturbed'
  BY <1>0, <1>2, <1>4, <1>5, TextKeepsLost
<1> QED BY <1>1, <1>3, <1>6 DEF LostInv, LastInv

\* So it is with what a failed write leaves of a text, and with the next text,
LEMMA FailTextKeepsLost ==
  ASSUME LostInv, NEW w \in Writers, FailText(w)
  PROVE  LostInv'
<1>0. /\ file \in Seq(Int) /\ unended \in [Writers -> Nat] /\ written \in Nat
      /\ file' = Append(file, Torn)
      /\ written' = written + 1 /\ UNCHANGED unended
      /\ disturbed' = disturbed \cup InFlight \cup {Torn, written + 2}
  BY DEF LostInv, FileInv, FailText, TextFails
<1>1. Torn \in Int \ {NL}
  BY DEF NL, Torn
<1>2. FileInv' /\ file'[Len(file')] = Torn
  BY <1>0, <1>1 DEF FileInv
<1>3. LastInv'
  <2>1. written' + 1 = written + 2
    BY <1>0
  <2> QED BY <1>0, <1>2, <2>1 DEF LastInv
<1>4. file # << >> /\ file[Len(file)] # NL => {file[Len(file)], Torn} \subseteq disturbed'
  BY <1>0 DEF LostInv, LastInv
<1>5. LostOnlyIfDisturbed'
  BY <1>0, <1>1, <1>4, TextKeepsLost
<1> QED BY <1>2, <1>3, <1>5 DEF LostInv

\* and with a text whose line could not be ended.
LEMMA FailEndKeepsLost ==
  ASSUME LostInv, NEW w \in Writers, FailEnd(w)
  PROVE  LostInv'
<1>0. /\ unended' = [unended EXCEPT ![w] = NL] /\ UNCHANGED <<file, written>>
      /\ disturbed' = disturbed \cup InFlight \cup {written + 1}
  BY DEF FailEnd, EndFails
<1>1. FileInv'
  BY <1>0 DEF LostInv, FileInv, NL
<1>2. LastInv'
  BY <1>0 DEF LostInv, LastInv
<1>3. LostOnlyIfDisturbed'
  BY <1>0 DEF LostInv, LostOnlyIfDisturbed
<1> QED BY <1>1, <1>2, <1>3 DEF LostInv

\* The end of a line leaves every record of the file as it was.
LEMMA EndKeepsLost ==
  ASSUME LostInv, NEW w \in Writers, WriteEnd(w), UNCHANGED disturbed
  PROVE  LostInv'
<1>0. /\ file \in Seq(Int) /\ unended \in [Writers -> Nat] /\ written \in Nat
      /\ file' = Append(file, NL)
      /\ unended' = [unended EXCEPT ![w] = NL]
      /\ UNCHANGED <<written, disturbed>>
  BY DEF LostInv, FileInv, WriteEnd
<1>1. FileInv' /\ file'[Len(file')] = NL
  BY <1>0 DEF FileInv, NL
<1>2. ASSUME NEW i \in DOMAIN file', file'[i] # NL, i \notin Parsed(file')
      PROVE  file'[i] \in disturbed'
  <2>0. /\ Len(file) \in Nat /\ Len(file') = Len(file) + 1 /\ i \in 1..(Len(file) + 1)
        /\ \A j \in 1..Len(file) : file'[j] = file[j]
        /\ file'[Len(file) + 1] = NL
        /\ DOMAIN file = 1..Len(file)
    BY <1>0, <1>2
  <2>1. i \in 1..Len(file) /\ (i > 1 => i - 1 \in 1..Len(file))
    BY <1>2, <2>0
  <2>2. i < Len(file) => i + 1 \in 1..Len(file)
    BY <2>0, <2>1
  <2>3. file[i] # NL /\ i \notin Parsed(file)
    BY <1>2, <2>0, <2>1, <2>2 DEF Parsed
  <2> QED BY <1>0, <2>0, <2>1, <2>3 DEF LostInv, LostOnlyIfDisturbed
<1> QED BY <1>1, <1>2 DEF LostInv, LastInv, LostOnlyIfDisturbed

LEMMA LostFrame ==
  ASSUME LostInv, UNCHANGED <<file, unended, written, disturbed>>
  PROVE  LostInv'
  BY DEF LostInv, FileInv, LastInv, LostOnlyIfDisturbed, InFlight

LEMMA LostStep ==
  ASSUME LostInv, [Next]_vars
  PROVE  LostInv'
<1>0. Loop \in Writers /\ User \in Writers
  BY ObservationAssumption
<1>1. CASE LogText
  BY <1>0, <1>1, WriteKeepsLost DEF LogText
<1>2. CASE UserText
  BY <1>0, <1>2, WriteKeepsLost DEF UserText
<1>3. CASE LogEnd
  BY <1>0, <1>3, EndKeepsLost DEF LogEnd
<1>4. CASE UserEnd
  BY <1>0, <1>4, EndKeepsLost DEF UserEnd
<1>5. CASE ClearHistory
  BY <1>5 DEF ClearHistory, Truncate, LostInv, FileInv, LastInv, LostOnlyIfDisturbed
<1>6. CASE Restart
  <2>1. /\ UNCHANGED <<file, written>> /\ disturbed' = Meeting({written + 1})
        /\ unended' = [w \in Writers |-> NL]
    BY <1>6 DEF Restart
  <2>2. disturbed \subseteq disturbed' /\ FileInv'
    BY <2>1 DEF LostInv, FileInv, Meeting, NL
  <2>3. InFlight # {} => InFlight \cup {written + 1} \subseteq disturbed'
    BY <2>1 DEF Meeting
  <2>4. LastInv'
    BY <2>1, <2>2, <2>3 DEF LostInv, LastInv
  <2> QED BY <2>1, <2>2, <2>4 DEF LostInv, LostOnlyIfDisturbed
<1>7. CASE \/ CaptureFails \/ Ask \/ ModelFails \/ Finish
           \/ \E answer \in Answers : ModelAnswers(answer)
  BY <1>7, LostFrame DEF CaptureFails, Ask, ModelFails, ModelAnswers, Finish, logVars
<1>8. CASE \/ \E title \in Titles : MoveTo(title)
           \/ Tick \/ Toggle \/ Settle \/ UNCHANGED vars
  BY <1>8, LostFrame DEF MoveTo, Tick, Toggle, Settle, logVars, vars
<1>9. CASE LogFails \/ UserFails
  <2>1. \/ UNCHANGED <<file, unended, written, disturbed>>
        \/ \E w \in Writers : FailText(w) \/ FailEnd(w)
    BY <1>0, <1>9 DEF LogFails, UserFails, logVars
  <2> QED BY <2>1, LostFrame, FailTextKeepsLost, FailEndKeepsLost
<1> QED BY <1>1, <1>2, <1>3, <1>4, <1>5, <1>6, <1>7, <1>8, <1>9 DEF Next, LoopStep

\* log() of logging.rs has no lock and repairs nothing, and yet a record is
\* lost to the readers only when its writing met another thread's, the
\* application's exit or a write that failed.
THEOREM RecordsAreLostOnlyIfDisturbed == Spec => []LostOnlyIfDisturbed
<1>1. Init => LostInv
  BY InitLost
<1>2. LostInv /\ [Next]_vars => LostInv'
  BY LostStep
<1>3. LostInv => LostOnlyIfDisturbed
  BY DEF LostInv
<1> QED BY <1>1, <1>2, <1>3, PTL DEF Spec

\* The places of a file's bytes are numbers.
LEMMA OffsetType ==
  ASSUME NEW f \in Seq(Int), NEW i \in Nat \ {0}
  PROVE  Offset(f, i) \in Nat /\ Offset(f, 1) = 0
<1>1. ASSUME NEW k \in Nat \ {0}
      PROVE  Cardinality({ j \in 1..(k - 1) : f[j] \notin {NL, Torn} }) \in Nat
  <2>1. IsFiniteSet(1..(k - 1))
    BY <1>1, FS_Interval
  <2>2. IsFiniteSet({ j \in 1..(k - 1) : f[j] \notin {NL, Torn} })
    BY <2>1, FS_Subset
  <2> QED BY <2>2, FS_CardinalityType
<1>2. { j \in 1..(1 - 1) : f[j] \notin {NL, Torn} } = {}
  OBVIOUS
<1>3. Cardinality({ j \in 1..(1 - 1) : f[j] \notin {NL, Torn} }) = 0
  BY <1>2, FS_EmptySet
<1>4. PICK c \in Nat : c = Cardinality({ j \in 1..(i - 1) : f[j] \notin {NL, Torn} })
  BY <1>1
<1>5. RecordWidth - 1 \in Nat /\ i - 1 \in Nat
  BY LogAssumption
<1>6. (RecordWidth - 1) * c \in Nat /\ (RecordWidth - 1) * 0 = 0
  BY <1>4, <1>5
<1>7. Offset(f, i) = (i - 1) + (RecordWidth - 1) * c
  BY <1>4 DEF Offset
<1>8. Offset(f, 1) = (1 - 1) + (RecordWidth - 1) * 0
  BY <1>3 DEF Offset
<1> QED BY <1>5, <1>6, <1>7, <1>8

\* A record whose line, with the line end before it, lies in the tail is in
\* the tail as the reader takes it.
LEMMA TailReaches ==
  ASSUME NEW f \in Seq(Int), NEW i \in Parsed(f),
         Offset(f, Len(f) + 1) - Offset(f, IF i = 1 THEN 1 ELSE i - 1) <= TailWidth
  PROVE  InTail(f, i)
<1>1. Len(f) \in Nat /\ i \in 1..Len(f)
  BY DEF Parsed
<1>2. TailWidth \in Nat /\ Offset(f, Len(f) + 1) \in Nat
  BY <1>1, LogAssumption, OffsetType
<1>3. CASE i = 1
  <2>1. Offset(f, 1) = 0
    BY <1>1, OffsetType
  <2> QED BY <1>2, <1>3, <2>1 DEF InTail, Cut
<1>4. CASE i # 1
  <2>1. i - 1 \in Nat \ {0} /\ i - 1 \in 1..(i - 1) /\ i > 1
    BY <1>1, <1>4
  <2>2. f[i - 1] = NL
    BY <2>1 DEF Parsed
  <2>3. Offset(f, i - 1) \in Nat
    BY <2>1, OffsetType
  <2>4. Offset(f, i - 1) >= Cut(f)
    BY <1>2, <1>4, <2>3 DEF Cut
  <2> QED BY <2>1, <2>2, <2>4 DEF InTail
<1> QED BY <1>3, <1>4

\* get_recent_tail: what the model is told of the log leaves out no record
\* whose line lies in the tail; a tail that begins inside a text gives as much
\* or, when it cannot be read, nothing.
TellsTail ==
  pc = "top" /\ pc' = "ask" =>
    \/ CutsText(file) /\ round'.tail = {}
    \/ \A i \in Parsed(file) :
         Remaining(IF i = 1 THEN 1 ELSE i - 1) <= TailWidth => file[i] \in round'.tail

LEMMA TailStep == ASSUME LostInv, [Next]_vars PROVE TellsTail
<1>1. SUFFICES ASSUME pc = "top", pc' = "ask", ~(CutsText(file) /\ round'.tail = {}),
                      NEW i \in Parsed(file),
                      Remaining(IF i = 1 THEN 1 ELSE i - 1) <= TailWidth
               PROVE  file[i] \in round'.tail
  BY DEF TellsTail
<1>2. Ask
  BY <1>1 DEF Next, LoopStep, ModelFails, ModelAnswers, LogText, LogFails, LogEnd, Finish, CaptureFails,
     Fail, AfterLog, MoveTo, Tick, Toggle, UserText, UserEnd, UserFails, Settle, ClearHistory, Restart,
     loopVars, vars
<1>3. PICK tail \in GetRecentTail(file) : round'.tail = tail
  BY <1>2 DEF Ask
<1>4. tail = { file[j] : j \in { j \in Parsed(file) : InTail(file, j) } }
  BY <1>1, <1>3 DEF GetRecentTail
<1>5. InTail(file, i)
  BY <1>1, TailReaches DEF LostInv, FileInv, Remaining
<1> QED BY <1>3, <1>4, <1>5

THEOREM TheTailIsTold == Spec => TailIsTold
<1>1. Init => LostInv
  BY InitLost
<1>2. LostInv /\ [Next]_vars => LostInv'
  BY LostStep
<1>3. LostInv /\ [Next]_vars => [TellsTail]_vars
  BY TailStep
<1>4. Spec => [][TellsTail]_vars
  BY <1>1, <1>2, <1>3, PTL DEF Spec
<1> QED BY <1>4 DEF TailIsTold, TellsTail

-----------------------------------------------------------------------------
(* What the buffer says of the windows in front *)

\* The round saw a window of the user, and its answer is on the way to the
\* buffer; a round that failed only has its error to log.
Pending == pc \in {"ask", "finish"} \/ (pc \in {"log", "end"} /\ round.entry \notin Errors)

RoundInv ==
  /\ front \in Titles /\ now \in Nat
  /\ moves \in Seq(Nat) /\ buffer \in Seq([title : Windows, at : Nat])
  /\ {"title", "at", "context", "tail", "entry"} \subseteq DOMAIN round
  /\ Pending => round.title \in Windows /\ round.at \in Nat

\* What the monitor has seen: its buffer, and the pending round.
Seen == IF Pending THEN Append(buffer, [title |-> round.title, at |-> round.at])
                   ELSE buffer

\* Of each sighting in q, m says how many of the moves came before it: the
\* later moves are no earlier, the window changes only with a move between
\* two sightings, and after the last move the window seen is in front.
Places(q, m) ==
  /\ \A k \in DOMAIN q : \A i \in DOMAIN moves : m[k] < i => q[k].at <= moves[i]
  /\ \A k, l \in DOMAIN q :
       k < l => m[k] <= m[l] /\ (q[k].title # q[l].title => m[k] < m[l])
  /\ \A k \in DOMAIN q : q[k].at <= now /\ (m[k] = Len(moves) => q[k].title = front)

Sighted(q) == \E m \in [DOMAIN q -> 0..Len(moves)] : Places(q, m)

\* The number of switches is one: it can be compared with later moves.
TruthInv == ContextIsTrue /\ (pc = "ask" => round.context.switches \in Nat)

SightInv == RoundInv /\ Sighted(Seen) /\ TruthInv

Sightings == Seq([title : Windows, at : Nat])

LEMMA InitSight == Init => SightInv
<1> SUFFICES ASSUME Init PROVE SightInv
  OBVIOUS
<1>1. RoundInv /\ ~Pending /\ TruthInv
  BY ObservationAssumption DEF Init, RoundInv, Pending, NoRound, ContextIsTrue, TruthInv
<1>2. [k \in {} |-> 0] \in [DOMAIN buffer -> 0..Len(moves)]
      /\ Places(buffer, [k \in {} |-> 0])
  BY DEF Init, Places
<1> QED BY <1>1, <1>2 DEF SightInv, Seen, Sighted

\* What is forgotten takes nothing away from the rest: the oldest entry,
\* when the buffer is full,
LEMMA ForgetFirst ==
  ASSUME RoundInv, NEW q \in Sightings, NEW s \in [title : Windows, at : Nat],
         q # << >>, Sighted(Append(q, s))
  PROVE  Sighted(Append(Tail(q), s))
<1>1. PICK m \in [DOMAIN Append(q, s) -> 0..Len(moves)] : Places(Append(q, s), m)
  BY DEF Sighted
<1>2. PICK long : long = Append(q, s)
  OBVIOUS
<1>3. PICK short : short = Append(Tail(q), s)
  OBVIOUS
<1>4. PICK n \in Nat \ {0} : n = Len(q)
  BY DEF Sightings
<1>5. /\ DOMAIN long = 1..(n + 1) /\ DOMAIN short = 1..n
      /\ \A k \in 1..n : short[k] = long[k + 1]
  BY <1>2, <1>3, <1>4 DEF Sightings
<1>6. PICK r : r = [k \in 1..n |-> m[k + 1]]
  OBVIOUS
<1>7. r \in [DOMAIN short -> 0..Len(moves)]
  BY <1>1, <1>2, <1>5, <1>6
<1>8. \A k \in 1..n : k + 1 \in 1..(n + 1) /\ r[k] = m[k + 1]
  BY <1>4, <1>6
<1>9. Places(short, r)
  <2>1. \A k \in 1..n : \A i \in DOMAIN moves : r[k] < i => short[k].at <= moves[i]
    BY <1>1, <1>2, <1>5, <1>8 DEF Places
  <2>2. ASSUME NEW k \in 1..n, NEW l \in 1..n, k < l
        PROVE  r[k] <= r[l] /\ (short[k].title # short[l].title => r[k] < r[l])
    <3>1. k + 1 \in DOMAIN long /\ l + 1 \in DOMAIN long /\ k + 1 < l + 1
      BY <1>4, <1>5, <2>2
    <3>2. m[k + 1] <= m[l + 1] /\ (long[k + 1].title # long[l + 1].title => m[k + 1] < m[l + 1])
      BY <1>1, <1>2, <3>1 DEF Places
    <3>3. r[k] = m[k + 1] /\ r[l] = m[l + 1] /\ short[k] = long[k + 1] /\ short[l] = long[l + 1]
      BY <1>5, <1>8
    <3> QED BY <3>2, <3>3
  <2>3. ASSUME NEW k \in 1..n
        PROVE  short[k].at <= now /\ (r[k] = Len(moves) => short[k].title = front)
    <3>1. k + 1 \in DOMAIN long /\ r[k] = m[k + 1] /\ short[k] = long[k + 1]
      BY <1>5, <1>8
    <3>2. long[k + 1].at <= now /\ (m[k + 1] = Len(moves) => long[k + 1].title = front)
      BY <1>1, <1>2, <3>1 DEF Places
    <3> QED BY <3>1, <3>2
  <2> QED BY <1>5, <2>1, <2>2, <2>3 DEF Places
<1> QED BY <1>3, <1>7, <1>9 DEF Sighted

\* or the round, when it fails.
LEMMA ForgetLast ==
  ASSUME RoundInv, NEW q \in Sightings, NEW s \in [title : Windows, at : Nat],
         Sighted(Append(q, s))
  PROVE  Sighted(q)
<1>1. PICK m \in [DOMAIN Append(q, s) -> 0..Len(moves)] : Places(Append(q, s), m)
  BY DEF Sighted
<1>2. PICK long : long = Append(q, s)
  OBVIOUS
<1>4. PICK n \in Nat : n = Len(q)
  BY DEF Sightings
<1>5. /\ DOMAIN long = 1..(n + 1) /\ DOMAIN q = 1..n
      /\ \A k \in 1..n : q[k] = long[k] /\ k \in 1..(n + 1)
  BY <1>2, <1>4 DEF Sightings
<1>6. PICK r : r = [k \in 1..n |-> m[k]]
  OBVIOUS
<1>7. r \in [DOMAIN q -> 0..Len(moves)]
  BY <1>1, <1>2, <1>5, <1>6
<1>8. \A k \in 1..n : r[k] = m[k]
  BY <1>6
<1>9. Places(q, r)
  BY <1>1, <1>2, <1>5, <1>8 DEF Places
<1> QED BY <1>7, <1>9 DEF Sighted

\* The window in front, seen now, comes after every move.
LEMMA SeeFront ==
  ASSUME RoundInv, NEW q \in Sightings, Sighted(q), front \in Windows
  PROVE  Sighted(Append(q, [title |-> front, at |-> now]))
<1>1. PICK m \in [DOMAIN q -> 0..Len(moves)] : Places(q, m)
  BY DEF Sighted
<1>2. PICK long : long = Append(q, [title |-> front, at |-> now])
  OBVIOUS
<1>4. PICK n \in Nat : n = Len(q)
  BY DEF Sightings
<1>5. /\ DOMAIN long = 1..(n + 1) /\ DOMAIN q = 1..n
      /\ \A k \in 1..n : q[k] = long[k]
      /\ long[n + 1].title = front /\ long[n + 1].at = now
  BY <1>2, <1>4 DEF Sightings
<1>6. PICK len \in Nat : len = Len(moves)
  BY DEF RoundInv
<1>7. PICK r : r = [k \in 1..(n + 1) |-> IF k = n + 1 THEN len ELSE m[k]]
  OBVIOUS
<1>8. r[n + 1] = len /\ \A k \in 1..n : r[k] = m[k] /\ m[k] \in 0..len
  BY <1>1, <1>4, <1>5, <1>6, <1>7
<1>9. r \in [DOMAIN long -> 0..Len(moves)]
  <2>1. \A k \in 1..(n + 1) : k = n + 1 \/ k \in 1..n
    BY <1>4
  <2> QED BY <1>5, <1>6, <1>7, <1>8, <2>1
<1>10. now \in Nat /\ DOMAIN moves = 1..len
  BY <1>6 DEF RoundInv
<1>11. Places(long, r)
  <2>0. \A k \in 1..(n + 1) : k = n + 1 \/ (k \in 1..n /\ k < n + 1)
    BY <1>4
  <2>1. \A k \in DOMAIN long : \A i \in DOMAIN moves : r[k] < i => long[k].at <= moves[i]
    BY <1>1, <1>5, <1>8, <1>10, <2>0 DEF Places
  <2>2. ASSUME NEW k \in DOMAIN long, NEW l \in DOMAIN long, k < l
        PROVE  r[k] <= r[l] /\ (long[k].title # long[l].title => r[k] < r[l])
    <3>1. k \in 1..n
      BY <1>4, <1>5, <2>0, <2>2
    <3>2. CASE l = n + 1
      BY <1>1, <1>5, <1>6, <1>8, <3>1, <3>2 DEF Places
    <3>3. CASE l \in 1..n
      BY <1>1, <1>5, <1>8, <2>2, <3>1, <3>3 DEF Places
    <3> QED BY <1>5, <2>0, <2>2, <3>2, <3>3
  <2>3. \A k \in DOMAIN long : long[k].at <= now /\ (r[k] = Len(moves) => long[k].title = front)
    BY <1>1, <1>5, <1>6, <1>8, <1>10, <2>0 DEF Places
  <2> QED BY <2>1, <2>2, <2>3 DEF Places
<1> QED BY <1>2, <1>9, <1>11 DEF Sighted

\* A move to another window is later than every sighting.
LEMMA MoveKeepsSighted ==
  ASSUME RoundInv, NEW q, q \in Sightings, Sighted(q), NEW title \in Titles, MoveTo(title)
  PROVE  Sighted(q)'
<1>1. PICK m \in [DOMAIN q -> 0..Len(moves)] : Places(q, m)
  BY DEF Sighted
<1>2. PICK len \in Nat : len = Len(moves)
  BY DEF RoundInv
<1>3. /\ DOMAIN moves = 1..len /\ DOMAIN moves' = 1..(len + 1) /\ Len(moves') = len + 1
      /\ \A i \in 1..len : moves'[i] = moves[i]
      /\ moves'[len + 1] = now /\ now' = now /\ now \in Nat
  BY <1>2 DEF RoundInv, MoveTo
<1>4. m \in [DOMAIN q -> 0..Len(moves')] /\ \A k \in DOMAIN q : m[k] \in 0..len
  BY <1>1, <1>2, <1>3
<1>5. \A k \in DOMAIN q : \A i \in 1..(len + 1) : m[k] < i => q[k].at <= moves'[i]
  <2>1. \A i \in 1..(len + 1) : i = len + 1 \/ i \in 1..len
    BY <1>2
  <2> QED BY <1>1, <1>3, <2>1 DEF Places
<1>6. \A k \in DOMAIN q : q[k].at <= now' /\ (m[k] = Len(moves') => q[k].title = front')
  BY <1>1, <1>3, <1>4 DEF Places
<1>7. \A k, l \in DOMAIN q : k < l => m[k] <= m[l] /\ (q[k].title # q[l].title => m[k] < m[l])
  BY <1>1 DEF Places
<1> QED BY <1>3, <1>4, <1>5, <1>6, <1>7 DEF Sighted, Places

\* Nor does time put a sighting elsewhere among the moves.
LEMMA TimeKeepsSighted ==
  ASSUME RoundInv, NEW q, q \in Sightings, Sighted(q), UNCHANGED <<moves, front>>,
         now' \in {now, now + 1}
  PROVE  Sighted(q)'
<1>0. now \in Nat
  BY DEF RoundInv
<1>1. ASSUME NEW k \in DOMAIN q PROVE q[k].at \in Nat
  <2>1. PICK S : S = [title : Windows, at : Nat]
    OBVIOUS
  <2>2. q \in Seq(S)
    BY <2>1 DEF Sightings
  <2>3. q[k] \in S
    BY <1>1, <2>2
  <2> QED BY <2>1, <2>3
<1>2. PICK m \in [DOMAIN q -> 0..Len(moves)] : Places(q, m)
  BY DEF Sighted
<1>3. \A k \in DOMAIN q : q[k].at <= now' /\ (m[k] = Len(moves) => q[k].title = front)
  BY <1>0, <1>1, <1>2 DEF Places
<1> QED BY <1>2, <1>3 DEF Sighted, Places

\* Between two sightings with a switch lies a move, and no two switches
\* have the same: the buffer cannot count more of them than there were.
LEMMA SwitchesAreMoves ==
  ASSUME RoundInv, Sighted(buffer), NEW time \in Nat
  PROVE  /\ Cardinality(Switches(LastMinuteOf(time)))
           <= Cardinality({ i \in DOMAIN moves : moves[i] >= time - LastMinute })
         /\ Cardinality(Switches(LastMinuteOf(time))) \in Nat
<1>1. PICK m \in [DOMAIN buffer -> 0..Len(moves)] : Places(buffer, m)
  BY DEF Sighted
<1>2. PICK S : S = Switches(LastMinuteOf(time))
  OBVIOUS
<1>3. PICK T : T = { i \in DOMAIN moves : moves[i] >= time - LastMinute }
  OBVIOUS
<1>4. /\ DOMAIN buffer = 1..Len(buffer) /\ Len(buffer) \in Nat
      /\ DOMAIN moves = 1..Len(moves) /\ Len(moves) \in Nat
      /\ LastMinute \in Nat /\ \A i \in DOMAIN moves : moves[i] \in Nat
  BY ObservationAssumption DEF RoundInv
<1>5. S \subseteq DOMAIN buffer
  BY <1>2 DEF Switches, LastMinuteOf
<1>6. IsFiniteSet(S) /\ IsFiniteSet(T)
  <2>1. IsFiniteSet(DOMAIN buffer) /\ IsFiniteSet(DOMAIN moves)
    BY <1>4, FS_Interval
  <2> QED BY <1>3, <1>5, <2>1, FS_Subset
<1>7. ASSUME NEW i \in DOMAIN buffer
      PROVE  buffer[i].at \in Nat /\ m[i] \in 0..Len(moves)
  <2>1. PICK E : E = [title : Windows, at : Nat]
    OBVIOUS
  <2>2. buffer \in Seq(E)
    BY <2>1 DEF RoundInv
  <2>3. buffer[i] \in E
    BY <1>7, <2>2
  <2> QED BY <1>1, <2>1, <2>3
<1>8. ASSUME NEW i \in S
      PROVE  \E j \in DOMAIN buffer : /\ j < i /\ buffer[j].at >= time - LastMinute
                                      /\ m[j] < m[i]
                                      /\ \A k \in S : k <= j \/ i <= k
  <2>1. PICK j \in LastMinuteOf(time) : /\ Follows(LastMinuteOf(time), j, i)
                                        /\ buffer[i].title # buffer[j].title
    BY <1>2, <1>8 DEF Switches
  <2>2. j \in DOMAIN buffer /\ buffer[j].at >= time - LastMinute
    BY <2>1 DEF LastMinuteOf
  <2>3. j < i /\ \A k \in S : k <= j \/ i <= k
    BY <1>2, <2>1 DEF Follows, Switches
  <2>4. m[j] < m[i]
    BY <1>1, <1>5, <2>1, <2>2, <2>3 DEF Places
  <2> QED BY <2>2, <2>3, <2>4
<1>9. ASSUME NEW i \in S PROVE m[i] \in T
  <2>1. PICK j \in DOMAIN buffer : buffer[j].at >= time - LastMinute /\ m[j] < m[i]
    BY <1>8
  <2>2. m[i] \in 1..Len(moves)
    BY <1>4, <1>5, <1>7, <2>1
  <2>3. buffer[j].at <= moves[m[i]]
    BY <1>1, <1>4, <2>1, <2>2 DEF Places
  <2>4. moves[m[i]] \in Nat /\ buffer[j].at \in Nat
    BY <1>4, <1>7, <2>2
  <2> QED BY <1>3, <1>4, <2>1, <2>2, <2>3, <2>4, ObservationAssumption
<1>10. ASSUME NEW x \in S, NEW y \in S, x < y PROVE m[x] < m[y]
  <2>1. PICK j \in DOMAIN buffer : j < y /\ m[j] < m[y] /\ \A k \in S : k <= j \/ y <= k
    BY <1>8
  <2>2. x \in DOMAIN buffer /\ y \in DOMAIN buffer /\ x \in Nat /\ y \in Nat /\ j \in Nat
    BY <1>4, <1>5
  <2>3. x = j \/ x < j
    BY <1>10, <2>1, <2>2
  <2>4. m[x] <= m[j]
    BY <1>1, <1>4, <1>7, <2>2, <2>3 DEF Places
  <2> QED BY <1>4, <1>7, <2>1, <2>2, <2>4
<1>11. PICK f : f = [i \in S |-> m[i]]
  OBVIOUS
<1>12. f \in [S -> T]
  BY <1>9, <1>11
<1>13. \A x, y \in S : f[x] = f[y] => x = y
  <2>1. SUFFICES ASSUME NEW x \in S, NEW y \in S, f[x] = f[y], x # y PROVE FALSE
    OBVIOUS
  <2>2. x \in Nat /\ y \in Nat /\ m[x] \in Nat /\ m[x] = m[y]
    BY <1>4, <1>5, <1>7, <1>11, <2>1
  <2> QED BY <1>10, <2>1, <2>2
<1>14. Cardinality(S) \in Nat /\ Cardinality(T) \in Nat
  BY <1>6, FS_CardinalityType
<1>15. ~(Cardinality(T) < Cardinality(S))
  BY <1>6, <1>12, <1>13, FS_PigeonHole
<1> QED BY <1>2, <1>3, <1>14, <1>15

\* The steps of the round: it keeps the window it saw until its end.
LEMMA FailStep ==
  ASSUME RoundInv, NEW error \in Errors, Fail(error), UNCHANGED envVars
  PROVE  RoundInv' /\ ~Pending' /\ UNCHANGED buffer /\ pc' # "ask"
<1>1. /\ UNCHANGED <<front, now, moves, buffer>>
      /\ pc' = "top" \/ pc' = "log"
  BY DEF Fail, envVars, monitorVars
<1>2. pc' = "log" => round' = Entering(error)
  BY DEF Fail
<1>3. pc' = "top" => round' = NoRound
  BY DEF Fail
<1>4. "entry" \in DOMAIN round
  BY DEF RoundInv
<1>5. pc' = "log" => round'.entry = error
  BY <1>2, <1>4 DEF Entering
<1>6. ~Pending'
  BY <1>1, <1>5 DEF Pending
<1>7. {"title", "at", "context", "tail", "entry"} \subseteq DOMAIN round'
  BY <1>1, <1>2, <1>3 DEF RoundInv, Entering, NoRound
<1> QED BY <1>1, <1>6, <1>7 DEF RoundInv

\* The steps that write the log or end the round, those that start one, and
\* those of the user and the clock.
LoopGoesOn == \/ \E answer \in Answers : ModelAnswers(answer)
              \/ LogText \/ LogFails \/ LogEnd \/ Finish
Aside == Toggle \/ UserText \/ UserEnd \/ UserFails \/ Settle \/ ClearHistory \/ UNCHANGED vars

LEMMA AnswerStep ==
  ASSUME RoundInv, NEW answer \in Answers, ModelAnswers(answer)
  PROVE  /\ RoundInv' /\ UNCHANGED <<front, now, moves, buffer>> /\ pc' # "ask"
         /\ Pending /\ (Pending' => round'.title = round.title /\ round'.at = round.at)
<1>1. /\ UNCHANGED <<front, now, moves, buffer>> /\ pc' \in {"dead", "log"} /\ Pending
      /\ round' = Entering([kind |-> answer, title |-> round.title])
  BY DEF ModelAnswers, envVars, Pending
<1>2. {"title", "at", "context", "tail", "entry"} \subseteq DOMAIN round
  BY DEF RoundInv
<1>3. round'.title = round.title /\ round'.at = round.at /\ DOMAIN round' = DOMAIN round
  BY <1>1, <1>2 DEF Entering
<1> QED BY <1>1, <1>2, <1>3 DEF RoundInv

LEMMA LogStep ==
  ASSUME RoundInv, LogText \/ LogFails \/ LogEnd
  PROVE  /\ RoundInv' /\ UNCHANGED <<front, now, moves, buffer, round>>
         /\ pc' # "ask" /\ Pending' = Pending
<1>1. UNCHANGED <<front, now, moves, buffer, round>>
  BY DEF LogText, LogFails, LogEnd, envVars, monitorVars
<1>2. pc \in {"log", "end"} /\ pc' \in {"end", AfterLog}
  BY DEF LogText, LogFails, LogEnd
<1>3. pc' # "ask" /\ Pending' = Pending
  BY <1>1, <1>2 DEF AfterLog, Pending
<1> QED BY <1>1, <1>3 DEF RoundInv

LEMMA FinishStep ==
  ASSUME RoundInv, Finish
  PROVE  /\ RoundInv' /\ UNCHANGED <<front, now, moves>> /\ pc' # "ask" /\ ~Pending'
         /\ Pending /\ buffer' = Push([title |-> round.title, at |-> round.at])
<1>1. /\ UNCHANGED <<front, now, moves>> /\ pc' = "top" /\ pc = "finish" /\ round' = NoRound
      /\ buffer' = Push([title |-> round.title, at |-> round.at])
  BY DEF Finish
<1>2. PICK E : E = [title : Windows, at : Nat]
  OBVIOUS
<1>3. buffer \in Seq(E) /\ [title |-> round.title, at |-> round.at] \in E
  BY <1>1, <1>2 DEF RoundInv, Pending
<1>4. Capacity \in Nat \ {0}
  BY ObservationAssumption
<1>5. buffer' \in Seq(E)
  BY <1>1, <1>3, <1>4 DEF Push
<1> QED BY <1>1, <1>2, <1>5 DEF RoundInv, Pending, NoRound

LEMMA AskStep ==
  ASSUME RoundInv, Ask
  PROVE  /\ RoundInv' /\ UNCHANGED <<front, now, moves, buffer>>
         /\ ~Pending /\ Pending' /\ front \in Windows
         /\ round'.title = front /\ round'.at = now
         /\ round'.context = ComputeContext(front, now)
<1>1. /\ UNCHANGED <<front, now, moves, buffer>> /\ pc = "top" /\ pc' = "ask" /\ front # OwnWindow
  BY DEF Ask, Ready, envVars, monitorVars
<1>2. PICK tail : round' = [title |-> front, at |-> now, context |-> ComputeContext(front, now),
                            tail |-> tail, entry |-> NoError]
  BY DEF Ask
<1>3. front \in Windows
  BY <1>1 DEF RoundInv, Titles
<1> QED BY <1>1, <1>2, <1>3 DEF RoundInv, Pending

LEMMA OutsideStep ==
  ASSUME RoundInv, (\E title \in Titles : MoveTo(title)) \/ Tick \/ Aside
  PROVE  RoundInv' /\ UNCHANGED <<buffer, round, pc>> /\ Pending' = Pending
<1>1. UNCHANGED <<buffer, round, pc>>
  BY DEF MoveTo, Tick, Aside, Toggle, UserText, UserEnd, UserFails, Settle, ClearHistory, loopVars, monitorVars, vars
<1>2. front' \in Titles /\ now' \in Nat /\ moves' \in Seq(Nat)
  <2>1. CASE \E title \in Titles : MoveTo(title)
    BY <2>1 DEF MoveTo, RoundInv
  <2>2. CASE Tick
    BY <2>2 DEF Tick, RoundInv
  <2>3. CASE Aside
    BY <2>3 DEF Aside, RoundInv, Toggle, UserText, UserEnd, UserFails, Settle, ClearHistory, envVars, vars
  <2> QED BY <2>1, <2>2, <2>3
<1> QED BY <1>1, <1>2 DEF RoundInv, Pending

LEMMA RestartStep ==
  ASSUME RoundInv, Restart
  PROVE  /\ RoundInv' /\ UNCHANGED <<front, now, moves>>
         /\ buffer' = << >> /\ pc' = "top" /\ ~Pending'
  BY DEF Restart, RoundInv, Pending, NoRound

LEMMA SeenType ==
  ASSUME RoundInv
  PROVE  /\ buffer \in Sightings /\ Seen \in Sightings
         /\ Pending => [title |-> round.title, at |-> round.at] \in [title : Windows, at : Nat]
<1>1. PICK E : E = [title : Windows, at : Nat]
  OBVIOUS
<1>2. Pending => [title |-> round.title, at |-> round.at] \in E
  BY <1>1 DEF RoundInv
<1>3. buffer \in Seq(E)
  BY <1>1 DEF RoundInv
<1>4. Seen \in Seq(E)
  BY <1>2, <1>3 DEF Seen
<1> QED BY <1>1, <1>2, <1>3, <1>4 DEF Sightings

LEMMA BufferSighted ==
  ASSUME RoundInv, Sighted(Seen)
  PROVE  Sighted(buffer)
<1>1. CASE Pending
  <2>1. Sighted(Append(buffer, [title |-> round.title, at |-> round.at]))
    BY <1>1 DEF Seen
  <2> QED BY <1>1, <2>1, SeenType, ForgetLast
<1>2. CASE ~Pending
  BY <1>2 DEF Seen
<1> QED BY <1>1, <1>2

\* A sequence sighted where the clock, the moves and the front stay.
LEMMA StaySighted ==
  ASSUME RoundInv, NEW q, q \in Sightings, Sighted(q), UNCHANGED <<front, now, moves>>, Seen' = q
  PROVE  Sighted(Seen)'
<1>1. Sighted(q)'
  BY TimeKeepsSighted
<1> QED BY <1>1 DEF Sighted, Places

LEMMA FinishSighted ==
  ASSUME RoundInv, Sighted(Seen), Finish
  PROVE  Sighted(Seen)'
<1>1. PICK snapshot : snapshot = [title |-> round.title, at |-> round.at]
  OBVIOUS
<1>2. /\ UNCHANGED <<front, now, moves>> /\ Pending /\ ~Pending' /\ buffer' = Push(snapshot)
      /\ snapshot \in [title : Windows, at : Nat]
  BY <1>1, FinishStep, SeenType
<1>3. Sighted(Append(buffer, snapshot))
  BY <1>1, <1>2 DEF Seen
<1>4. PICK q : q = Push(snapshot)
  OBVIOUS
<1>5. buffer \in Sightings /\ Capacity \in Nat \ {0}
  BY SeenType, ObservationAssumption
<1>6. CASE Len(buffer) >= Capacity
  <2>1. buffer # << >> /\ q = Append(Tail(buffer), snapshot)
    BY <1>4, <1>5, <1>6 DEF Push, Sightings
  <2>2. Sighted(q) /\ q \in Sightings
    <3>1. PICK E : E = [title : Windows, at : Nat]
      OBVIOUS
    <3>2. buffer \in Seq(E) /\ snapshot \in E
      BY <1>2, <1>5, <3>1 DEF Sightings
    <3>3. q \in Seq(E)
      BY <2>1, <3>2
    <3> QED BY <1>2, <1>3, <1>5, <2>1, <3>1, <3>3, ForgetFirst DEF Sightings
  <2> QED BY <1>2, <1>4, <2>2, StaySighted DEF Seen
<1>7. CASE ~(Len(buffer) >= Capacity)
  <2>1. q = Seen
    BY <1>1, <1>2, <1>4, <1>7 DEF Push, Seen
  <2> QED BY <1>2, <1>4, <2>1, StaySighted, SeenType DEF Seen
<1> QED BY <1>6, <1>7

LEMMA SightedStep ==
  ASSUME RoundInv, Sighted(Seen), [Next]_vars
  PROVE  RoundInv' /\ Sighted(Seen)'
<1>0. /\ buffer \in Sightings /\ Seen \in Sightings /\ Sighted(buffer)
      /\ Pending => [title |-> round.title, at |-> round.at] \in [title : Windows, at : Nat]
  BY SeenType, BufferSighted
<1>1. CASE CaptureFails \/ ModelFails
  <2>1. PICK error \in Errors : Fail(error) /\ UNCHANGED envVars
    BY <1>1 DEF CaptureFails, ModelFails, Errors, RoundInv, Pending
  <2>2. RoundInv' /\ ~Pending' /\ UNCHANGED <<buffer, front, now, moves>>
    BY <2>1, FailStep DEF envVars
  <2> QED BY <1>0, <2>2, StaySighted DEF Seen
<1>2. CASE Ask
  <2>1. /\ RoundInv' /\ UNCHANGED <<front, now, moves, buffer>> /\ Pending' /\ front \in Windows
        /\ round'.title = front /\ round'.at = now
    BY <1>2, AskStep
  <2>2. Seen' = Append(buffer, [title |-> front, at |-> now])
    BY <2>1 DEF Seen
  <2>3. PICK E : E = [title : Windows, at : Nat]
    OBVIOUS
  <2>4. [title |-> front, at |-> now] \in E /\ buffer \in Seq(E)
    BY <1>0, <2>1, <2>3 DEF RoundInv, Sightings
  <2>5. Append(buffer, [title |-> front, at |-> now]) \in Seq(E)
    BY <2>4
  <2>6. Sighted(Append(buffer, [title |-> front, at |-> now]))
    BY <1>0, <2>1, SeeFront
  <2> QED BY <2>1, <2>2, <2>3, <2>5, <2>6, StaySighted DEF Sightings
<1>3. CASE \E answer \in Answers : ModelAnswers(answer)
  <2>1. /\ RoundInv' /\ UNCHANGED <<front, now, moves, buffer>> /\ Pending
        /\ Pending' => round'.title = round.title /\ round'.at = round.at
    BY <1>3, AnswerStep
  <2>2. Seen' = Seen \/ Seen' = buffer
    BY <2>1 DEF Seen
  <2> QED BY <1>0, <2>1, <2>2, StaySighted
<1>4. CASE LogText \/ LogFails \/ LogEnd
  <2>1. RoundInv' /\ UNCHANGED <<front, now, moves, buffer, round>> /\ Pending' = Pending
    BY <1>4, LogStep
  <2>2. Seen' = Seen
    BY <2>1 DEF Seen
  <2> QED BY <1>0, <2>1, <2>2, StaySighted
<1>5. CASE Finish
  BY <1>5, FinishStep, FinishSighted
<1>6. CASE (\E title \in Titles : MoveTo(title)) \/ Tick \/ Aside
  <2>1. RoundInv' /\ UNCHANGED <<buffer, round, pc>> /\ Pending' = Pending
    BY <1>6, OutsideStep
  <2>2. PICK q : q = Seen
    OBVIOUS
  <2>3. Seen' = q
    BY <2>1, <2>2 DEF Seen
  <2>4. q \in Sightings /\ Sighted(q)
    BY <1>0, <2>2
  <2>5. Sighted(q)'
    <3>1. CASE \E title \in Titles : MoveTo(title)
      BY <2>4, <3>1, MoveKeepsSighted
    <3>2. CASE Tick \/ Aside
      <4>1. UNCHANGED <<moves, front>> /\ now' \in {now, now + 1}
        BY <3>2 DEF Tick, Aside, Toggle, UserText, UserEnd, UserFails, Settle, ClearHistory, envVars, vars
      <4> QED BY <2>4, <4>1, TimeKeepsSighted
    <3> QED BY <1>6, <3>1, <3>2
  <2> QED BY <2>1, <2>3, <2>5 DEF Sighted, Places
<1>7. CASE Restart
  <2>1. RoundInv' /\ UNCHANGED <<front, now, moves>> /\ Seen' = << >>
    BY <1>7, RestartStep DEF Seen
  <2>2. << >> \in Sightings /\ Sighted(<< >>)
    <3>1. Places(<< >>, [k \in {} |-> 0]) /\ [k \in {} |-> 0] \in [DOMAIN << >> -> 0..Len(moves)]
      BY DEF Places
    <3>2. Sighted(<< >>)
      BY <3>1 DEF Sighted
    <3>3. PICK E : E = [title : Windows, at : Nat]
      OBVIOUS
    <3>4. << >> \in Seq(E)
      OBVIOUS
    <3> QED BY <3>2, <3>3, <3>4 DEF Sightings
  <2> QED BY <2>1, <2>2, StaySighted
<1> QED BY <1>1, <1>2, <1>3, <1>4, <1>5, <1>6, <1>7 DEF Next, LoopStep, Aside

\* What a round is told holds when it asks,
LEMMA AskContext ==
  ASSUME RoundInv, Sighted(Seen), Ask
  PROVE  TruthInv'
<1>1. /\ UNCHANGED <<front, now, moves, buffer>> /\ front \in Windows /\ now \in Nat
      /\ round'.at = now /\ round'.context = ComputeContext(front, now)
  BY AskStep DEF RoundInv
<1>2. Sighted(buffer)
  BY BufferSighted
<1>3. /\ Cardinality(Switches(LastMinuteOf(now)))
           <= Cardinality({ i \in DOMAIN moves : moves[i] >= now - LastMinute })
      /\ Cardinality(Switches(LastMinuteOf(now))) \in Nat
  BY <1>1, <1>2, SwitchesAreMoves
<1>4. round'.context.switches = Cardinality(Switches(LastMinuteOf(now)))
  BY <1>1 DEF ComputeContext
<1>5. ASSUME round'.context.changed
      PROVE  \E i \in DOMAIN moves : now - moves[i] < Rapid
  <2>1. PICK n : n = Len(buffer)
    OBVIOUS
  <2>2. buffer # << >> /\ buffer[n].title # front /\ now - buffer[n].at < Rapid
    <3>1. ComputeContext(front, now).changed =
            (buffer # << >> /\ buffer[n].title # front /\ now - buffer[n].at < Rapid)
      BY <2>1 DEF ComputeContext
    <3> QED BY <1>1, <1>5, <3>1
  <2>3. PICK E : E = [title : Windows, at : Nat]
    OBVIOUS
  <2>4. buffer \in Seq(E)
    BY <2>3, SeenType DEF Sightings
  <2>5. n \in DOMAIN buffer /\ buffer[n] \in E
    BY <2>1, <2>2, <2>4
  <2>6. PICK m \in [DOMAIN buffer -> 0..Len(moves)] : Places(buffer, m)
    BY <1>2 DEF Sighted
  <2>7. m[n] # Len(moves) /\ m[n] \in 0..Len(moves)
    BY <2>2, <2>5, <2>6 DEF Places
  <2>8. PICK i : i = m[n] + 1
    OBVIOUS
  <2>9. i \in DOMAIN moves /\ m[n] < i /\ moves[i] \in Nat
    BY <2>7, <2>8 DEF RoundInv
  <2>10. buffer[n].at <= moves[i]
    BY <2>5, <2>6, <2>9 DEF Places
  <2>11. now - moves[i] < Rapid
    BY <1>1, <2>2, <2>3, <2>5, <2>9, <2>10, ObservationAssumption
  <2> QED BY <2>9, <2>11
<1> QED BY <1>1, <1>3, <1>4, <1>5 DEF ContextIsTrue, TruthInv

\* and stays true while the model thinks, whatever window the user takes.
LEMMA ContextStays ==
  ASSUME RoundInv, TruthInv, UNCHANGED <<pc, round>>,
         moves' = moves \/ moves' = Append(moves, now)
  PROVE  TruthInv'
<1>1. SUFFICES ASSUME pc = "ask" PROVE TruthInv'
  BY DEF ContextIsTrue, TruthInv
<1>2. PICK T : T = { i \in DOMAIN moves : moves[i] >= round.at - LastMinute }
  OBVIOUS
<1>3. PICK U : U = { i \in DOMAIN moves' : moves'[i] >= round.at - LastMinute }
  OBVIOUS
<1>4. /\ DOMAIN moves \subseteq DOMAIN moves' /\ DOMAIN moves' = 1..Len(moves') /\ Len(moves') \in Nat
      /\ \A i \in DOMAIN moves : moves'[i] = moves[i]
  <2>1. moves \in Seq(Nat) /\ now \in Nat
    BY DEF RoundInv
  <2>2. CASE moves' = moves
    BY <2>1, <2>2
  <2>3. CASE moves' = Append(moves, now)
    BY <2>1, <2>3
  <2> QED BY <2>2, <2>3
<1>5. T \subseteq U
  BY <1>2, <1>3, <1>4
<1>6. IsFiniteSet(U) /\ Cardinality(T) <= Cardinality(U)
  <2>0. PICK n \in Nat : DOMAIN moves' = 1..n
    BY <1>4
  <2>1. IsFiniteSet(DOMAIN moves')
    BY <2>0, FS_Interval
  <2>2. IsFiniteSet(U)
    BY <1>3, <2>1, FS_Subset
  <2> QED BY <1>5, <2>2, FS_Subset
<1>7. IsFiniteSet(T) /\ Cardinality(T) \in Nat /\ Cardinality(U) \in Nat
  BY <1>5, <1>6, FS_Subset, FS_CardinalityType
<1>8. round.context.switches <= Cardinality(T) /\ round.context.switches \in Nat
  BY <1>1, <1>2 DEF ContextIsTrue, TruthInv
<1>9. U = { i \in DOMAIN moves' : moves'[i] >= round'.at - LastMinute }
  BY <1>3
<1>10. round'.context.changed => \E i \in DOMAIN moves' : round'.at - moves'[i] < Rapid
  <2>1. round.context.changed => \E i \in DOMAIN moves : round.at - moves[i] < Rapid
    BY <1>1 DEF ContextIsTrue, TruthInv
  <2> QED BY <1>4, <2>1
<1>11. round'.context.switches <= Cardinality(U)
  BY <1>6, <1>7, <1>8
<1> QED BY <1>1, <1>8, <1>9, <1>10, <1>11 DEF ContextIsTrue, TruthInv

LEMMA TruthStep ==
  ASSUME SightInv, [Next]_vars
  PROVE  TruthInv'
<1>0. RoundInv /\ Sighted(Seen) /\ TruthInv
  BY DEF SightInv
<1>1. CASE Ask
  BY <1>0, <1>1, AskContext
<1>2. CASE (\E title \in Titles : MoveTo(title)) \/ Tick \/ Aside
  <2>1. UNCHANGED <<pc, round>>
    BY <1>0, <1>2, OutsideStep
  <2>2. moves' = moves \/ moves' = Append(moves, now)
    BY <1>2 DEF MoveTo, Tick, Aside, Toggle, UserText, UserEnd, UserFails, Settle, ClearHistory, envVars, vars
  <2> QED BY <1>0, <2>1, <2>2, ContextStays
<1>3. CASE CaptureFails \/ ModelFails
  BY <1>3 DEF CaptureFails, ModelFails, Fail, TruthInv, ContextIsTrue
<1>4. CASE LoopGoesOn
  BY <1>4 DEF LoopGoesOn, ModelAnswers, LogText, LogFails, LogEnd, Finish, AfterLog, TruthInv, ContextIsTrue
<1>5. CASE Restart
  BY <1>5 DEF Restart, TruthInv, ContextIsTrue
<1> QED BY <1>1, <1>2, <1>3, <1>4, <1>5 DEF Next, LoopStep, LoopGoesOn, Aside

\* compute_context of window_monitor.rs never tells the model too much: no more
\* switches than the user made in the milliseconds it counts, and a change only
\* after one, whichever rounds failed and whatever the buffer has forgotten.
THEOREM TheContextIsTrue == Spec => []ContextIsTrue
<1>1. Init => SightInv
  BY InitSight
<1>2. SightInv /\ [Next]_vars => SightInv'
  BY SightedStep, TruthStep DEF SightInv
<1>3. SightInv => ContextIsTrue
  BY DEF SightInv, TruthInv
<1> QED BY <1>1, <1>2, <1>3, PTL DEF Spec
=============================================================================

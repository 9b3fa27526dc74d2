--------------------------- MODULE Algorithms_proofs ---------------------------
(***************************************************************************)
(* Theorems about the pure algorithms, for inputs of every size: how       *)
(* messages are encoded and understood (RelayWire), what the model is told *)
(* and what it recalls (PromptContext), and what a search of the archive   *)
(* returns (MemorySearch).                                                 *)
(***************************************************************************)
EXTENDS RelayWire, PromptContext, MemorySearch, FiniteSetTheorems,
        WellFoundedInduction, TLAPS

-----------------------------------------------------------------------------
(* What RelayWire promises, for every message *)

LEMMA FieldOf ==
  ASSUME NEW type, NEW m, NEW i \in 1 .. Len(type), m[i] # 0
  PROVE  [tag |-> i, wire |-> WireType(type[i]), value |-> m[i]] \in Encode(type, m)
  BY DEF Encode

\* A field of an encoded message is the one of its tag.
LEMMA OnlyField ==
  ASSUME NEW type, NEW m, NEW f \in Encode(type, m)
  PROVE  /\ f.tag \in 1 .. Len(type)
         /\ f.wire = WireType(type[f.tag])
         /\ f.value = m[f.tag]
         /\ f.value # 0
  BY DEF Encode

\* A message arrives as it was sent, between crates that declare it alike:
\* the fields that are not written are the ones that are zero.
THEOREM RoundTrip ==
  ASSUME NEW type \in Seq(FieldTypes), NEW m \in Messages(type), WellTyped(type, m)
  PROVE  /\ Decodes(type, Encode(type, m))
         /\ Decode(type, Encode(type, m)) = m
<1>1. Decodes(type, Encode(type, m))
  BY OnlyField DEF Decodes
<1>2. ASSUME NEW i \in 1 .. Len(type)
      PROVE  Decode(type, Encode(type, m))[i] = m[i]
  <2>1. CASE m[i] = 0
    <3>1. ~ \E f \in Encode(type, m) : f.tag = i
      BY <2>1, OnlyField
    <3> QED
      BY <2>1, <3>1 DEF Decode
  <2>2. CASE m[i] # 0
    <3> DEFINE g == CHOOSE f \in Encode(type, m) : f.tag = i
    <3>1. \E f \in Encode(type, m) : f.tag = i
      <4>1. [tag |-> i, wire |-> WireType(type[i]), value |-> m[i]] \in Encode(type, m)
        BY <2>2, FieldOf
      <4> QED
        BY <4>1
    <3>2. g \in Encode(type, m) /\ g.tag = i
      BY <3>1
    <3>3. g.value = m[i]
      BY <3>2, OnlyField
    <3>4. Truth(type[i], m[i]) = m[i]
      BY <2>2 DEF Truth, WellTyped
    <3>5. Decode(type, Encode(type, m))[i] = Truth(type[i], g.value)
      BY <3>1 DEF Decode
    <3> QED
      BY <3>3, <3>4, <3>5
  <2> QED
    BY <2>1, <2>2
<1>3. Decode(type, Encode(type, m)) = [i \in 1 .. Len(type) |-> m[i]]
  <2>1. Decode(type, Encode(type, m))
          = [i \in 1 .. Len(type) |-> Decode(type, Encode(type, m))[i]]
    BY DEF Decode
  <2> QED
    BY <2>1, <1>2
<1> QED
  BY <1>1, <1>3 DEF Messages

LEMMA SessionTypes ==
  ASSUME NEW part \in {"request", "response"}, NEW kind \in SessionKinds
  PROVE  /\ EngineType(part, kind) = ClientType(part, kind)
         /\ EngineType(part, kind) \in Seq(FieldTypes)
<1>1. kind # "inference"
  BY DEF SessionKinds
<1>2. /\ EngineType(part, kind) = SessionMessages[part][kind]
      /\ ClientType(part, kind) = SessionMessages[part][kind]
  BY <1>1 DEF EngineType, ClientType
<1>3. /\ <<"string">> \in Seq(FieldTypes)
      /\ <<"bool">> \in Seq(FieldTypes)
      /\ <<"string", "int">> \in Seq(FieldTypes)
      /\ <<"string", "repeated">> \in Seq(FieldTypes)
      /\ <<"string", "message">> \in Seq(FieldTypes)
      /\ <<"string", "string", "string">> \in Seq(FieldTypes)
      /\ <<"string", "int", "int", "int", "int">> \in Seq(FieldTypes)
  BY DEF FieldTypes
<1>4. CASE part = "request"
  <2>1. SessionMessages[part][kind] \in {<<"string">>, <<"string", "string", "string">>}
    BY <1>4 DEF SessionKinds, SessionMessages
  <2> QED
    BY <1>2, <1>3, <2>1
<1>5. CASE part = "response"
  <2>1. SessionMessages[part][kind] \in
          {<<"string", "int">>, <<"string", "int", "int", "int", "int">>,
           <<"string", "repeated">>, <<"string", "message">>, <<"bool">>}
    BY <1>5 DEF SessionKinds, SessionMessages
  <2> QED
    BY <1>2, <1>3, <2>1
<1> QED
  BY <1>2, <1>4, <1>5

\* Every request about a session that fits in a frame is understood by the
\* engine, and as it was meant (handle_connection).
THEOREM SessionRequestsArrive ==
  ASSUME NEW kind \in SessionKinds, NEW size \in Nat,
         NEW m \in Messages(ClientType("request", kind)),
         WellTyped(ClientType("request", kind), m)
  PROVE  /\ Understood(ClientFrame(size, kind, m))
         /\ Decode(EngineType("request", kind), ClientFrame(size, kind, m).fields) = m
<1> DEFINE type == ClientType("request", kind)
<1>1. type = EngineType("request", kind) /\ type \in Seq(FieldTypes)
  BY SessionTypes
<1>2. /\ Decodes(type, Encode(type, m))
      /\ Decode(type, Encode(type, m)) = m
  BY <1>1, RoundTrip
<1>3. /\ ClientFrame(size, kind, m).kind = kind
      /\ ClientFrame(size, kind, m).fields = Encode(type, m)
  BY DEF ClientFrame, Frame
<1> QED
  BY <1>1, <1>2, <1>3 DEF Understood

LEMMA ErrorFields ==
  ErrorResponse = {[tag |-> 2, wire |-> "varint", value |-> -1]}
<1>1. EngineType("response", "dispatch") = <<"string", "int">>
  BY DEF EngineType, SessionMessages
<1>2. Len(<<"string", "int">>) = 2 /\ <<"string", "int">>[2] = "int"
  OBVIOUS
<1>3. { j \in 1 .. 2 : <<0, -1>>[j] # 0 } = {2}
  OBVIOUS
<1>4. <<0, -1>>[2] = -1
  OBVIOUS
<1> QED
  BY <1>1, <1>2, <1>3, <1>4 DEF ErrorResponse, Encode, WireType

LEMMA ErrorDecodes ==
  ASSUME NEW type
  PROVE  Decodes(type, ErrorResponse) <=> (2 \in 1 .. Len(type) => WireType(type[2]) = "varint")
  BY ErrorFields DEF Decodes

\* An error response is a dispatch response whatever was asked, and still no
\* client takes it for success: progress, result and inference fail to decode,
\* a status is none of SessionStatus, an id is empty, an interrupt not done.
THEOREM RefusalIsNoSuccess ==
  /\ \A kind \in {"progress", "result", "inference"} : ~ClientUnderstands(kind, ErrorResponse)
  /\ ClientReads("status", ErrorResponse)[2] \notin Statuses
  /\ ClientReturns("dispatch", ErrorResponse) = 0
  /\ ClientReturns("interrupt", ErrorResponse) = 0
<1>1. /\ ClientType("response", "progress") = <<"string", "repeated">>
      /\ ClientType("response", "result") = <<"string", "message">>
      /\ ClientType("response", "inference") = <<"bool", "string", "string">>
      /\ ClientType("response", "status") = <<"string", "int", "int", "int", "int">>
      /\ ClientType("response", "dispatch") = <<"string", "int">>
      /\ ClientType("response", "interrupt") = <<"bool">>
  BY DEF ClientType, SessionMessages, ClientInference
<1>2. \A kind \in {"progress", "result", "inference"} : ~ClientUnderstands(kind, ErrorResponse)
  <2>1. \A kind \in {"progress", "result", "inference"} :
          /\ 2 \in 1 .. Len(ClientType("response", kind))
          /\ WireType(ClientType("response", kind)[2]) = "length"
    BY <1>1 DEF WireType
  <2> QED
    BY <2>1, ErrorDecodes DEF ClientUnderstands
<1>3. ASSUME NEW type, 1 \in 1 .. Len(type)
      PROVE  Decode(type, ErrorResponse)[1] = 0
  BY <1>3, ErrorFields DEF Decode
<1>4. ClientReads("status", ErrorResponse)[2] = -1
  <2> DEFINE type == ClientType("response", "status")
  <2>0. \E f \in ErrorResponse : f.tag = 2
    BY ErrorFields
  <2>1. 2 \in 1 .. Len(type) /\ type[2] = "int"
    BY <1>1
  <2>2. (CHOOSE f \in ErrorResponse : f.tag = 2).value = -1
    <3>1. \A f \in ErrorResponse : f.value = -1
      BY ErrorFields
    <3>2. (CHOOSE f \in ErrorResponse : f.tag = 2) \in ErrorResponse
      BY <2>0
    <3> QED
      BY <3>1, <3>2
  <2>4. Decode(type, ErrorResponse)[2] = Truth(type[2], (CHOOSE f \in ErrorResponse : f.tag = 2).value)
    BY <2>0, <2>1 DEF Decode
  <2>5. Truth("int", -1) = -1
    BY DEF Truth
  <2> QED
    BY <2>1, <2>2, <2>4, <2>5 DEF ClientReads
<1>5. ClientReturns("dispatch", ErrorResponse) = 0
  BY <1>1, <1>3 DEF ClientReturns, ClientReads
<1>6. ClientReturns("interrupt", ErrorResponse) = 0
  <2>1. 1 \in 1 .. Len(<<"bool">>)
    OBVIOUS
  <2> QED
    BY <1>1, <1>3, <2>1 DEF ClientReturns, ClientReads
<1> QED
  BY <1>2, <1>4, <1>5, <1>6 DEF Statuses

\* A request for inference that states a time limit, as the desktop's all do,
\* is never understood by the engine: the client writes the limit where the
\* engine reads the text of a worker's id.  The client is told of an error it
\* cannot decode either, so every confirmation falls back to the relay.
THEOREM InferenceIsRefused ==
  ASSUME NEW m \in Messages(ClientInference.request), m[2] # 0,
         NEW size \in Nat, NEW table, NEW act
  PROVE  /\ ~Understood(ClientFrame(size, "inference", m))
         /\ Respond(table, ClientFrame(size, "inference", m), act) = ErrorResponse
         /\ BoxInference(ErrorResponse) = "fall back"
<1> DEFINE frame == ClientFrame(size, "inference", m)
           f == [tag |-> 2, wire |-> "varint", value |-> m[2]]
<1>1. /\ frame.kind = "inference"
      /\ frame.fields = Encode(ClientInference.request, m)
  BY DEF ClientFrame, Frame, ClientType
<1>2. /\ ClientInference.request = <<"string", "int">>
      /\ EngineType("request", "inference") = <<"string", "string", "string", "int">>
  BY DEF ClientInference, EngineType, EngineInference
<1>3. f \in frame.fields
  <2>1. 2 \in 1 .. Len(ClientInference.request) /\ WireType(ClientInference.request[2]) = "varint"
    BY <1>2 DEF WireType
  <2> QED
    BY <1>1, <2>1, FieldOf
<1>4. /\ f.tag \in 1 .. Len(EngineType("request", "inference"))
      /\ f.wire # WireType(EngineType("request", "inference")[f.tag])
  BY <1>2 DEF WireType
<1>5. ~Understood(frame)
  BY <1>1, <1>3, <1>4 DEF Understood, Decodes
<1>6. Respond(table, frame, act) = ErrorResponse
  BY <1>5 DEF Respond
<1> QED
  BY <1>5, <1>6, RefusalIsNoSuccess DEF BoxInference

\* What a subscriber hears of an entry or an end is what was sent, and the
\* status the desktop shows is the session's, in words.
THEOREM EndIsHeard ==
  ASSUME NEW id \in Nat, NEW time \in Int, NEW message \in Nat,
         NEW status \in {3, 4, 5}, NEW shown
  PROVE  LET event == ClientHears(OnTerminal(id, time, message, status))
         IN  /\ event = <<id, time, message, 0, 1, status>>
             /\ ApplyEvent(shown, event) \in {"completed", "failed", "interrupted"}
<1> DEFINE m == <<id, time, message, 0, 1, status>>
<1>1. ProgressEvent \in Seq(FieldTypes) /\ Len(ProgressEvent) = 6
  BY DEF ProgressEvent, FieldTypes
<1>2. m \in Messages(ProgressEvent)
  <2>1. \A a, b, c, d, e, f \in Int : <<a, b, c, d, e, f>> \in [1 .. 6 -> Int]
    OBVIOUS
  <2>2. m \in [1 .. 6 -> Int]
    <3>1. /\ id \in Int /\ time \in Int /\ message \in Int
          /\ 0 \in Int /\ 1 \in Int /\ status \in Int
      OBVIOUS
    <3> QED
      BY <2>1, <3>1
  <2> QED
    BY <1>1, <2>2 DEF Messages
<1>3. WellTyped(ProgressEvent, m)
  BY DEF WellTyped, ProgressEvent, WireType
<1>4. ClientHears(OnTerminal(id, time, message, status)) = m
  BY <1>1, <1>2, <1>3, RoundTrip DEF ClientHears, OnTerminal
<1>5. m[5] = 1 /\ m[6] = status
  OBVIOUS
<1>6. ApplyEvent(shown, m) = TerminalLabel(status)
  BY <1>5 DEF ApplyEvent
<1>7. TerminalLabel(3) = "completed" /\ TerminalLabel(4) = "failed" /\ TerminalLabel(5) = "interrupted"
  BY DEF TerminalLabel
<1> QED
  BY <1>4, <1>6, <1>7

\* A client is told the result of a session exactly when there is one, and
\* that one (handle_result, wait_for_result of the desktop).
THEOREM ResultIsTold ==
  ASSUME NEW table, NEW id \in Nat,
         \A s \in DOMAIN table : table[s].result \in Nat
  PROVE  LET fields == HandleResult(table, id)
             there == id \in DOMAIN table /\ table[id].result # 0
         IN  /\ ClientUnderstands("result", fields) <=> there
             /\ there => ClientReads("result", fields) = <<id, table[id].result>>
<1> DEFINE type == ClientType("response", "result")
           there == id \in DOMAIN table /\ table[id].result # 0
<1>1. /\ type = EngineType("response", "result")
      /\ type = <<"string", "message">>
      /\ type \in Seq(FieldTypes)
  BY SessionTypes DEF SessionKinds, ClientType, SessionMessages
<1>2. CASE ~there
  <2>1. HandleResult(table, id) = ErrorResponse
    BY <1>2 DEF HandleResult
  <2> QED
    BY <1>2, <2>1, RefusalIsNoSuccess
<1>3. CASE there
  <2> DEFINE m == <<id, table[id].result>>
  <2>1. HandleResult(table, id) = Encode(type, m)
    BY <1>1, <1>3 DEF HandleResult
  <2>2. m \in Messages(type)
    <3>1. Len(type) = 2 /\ id \in Int /\ table[id].result \in Int
      BY <1>1, <1>3
    <3>2. \A a, b \in Int : <<a, b>> \in [1 .. 2 -> Int]
      OBVIOUS
    <3>3. m \in [1 .. 2 -> Int]
      BY <3>1, <3>2
    <3> QED
      BY <3>1, <3>3 DEF Messages
  <2>3. WellTyped(type, m)
    BY <1>1, <1>3 DEF WellTyped, WireType
  <2>4. Decodes(type, Encode(type, m)) /\ Decode(type, Encode(type, m)) = m
    BY <1>1, <2>2, <2>3, RoundTrip
  <2> QED
    BY <1>3, <2>1, <2>4 DEF ClientUnderstands, ClientReads
<1> QED
  BY <1>2, <1>3

-----------------------------------------------------------------------------
(* What PromptContext promises for texts of every length and memories of *)
(* every number                                                          *)

Facts == [stay : 1 .. 10, switches : 1 .. 10, rapid : 1 .. 10, foregroundChanged : BOOLEAN]
Windows == [title : Nat, process : Nat]
HotContexts == [count : 1 .. 20, body : Nat]

LEMMA ClipBounds ==
  ASSUME NEW n \in Nat, NEW max \in Nat
  PROVE  Clip(n, max) \in Nat /\ Clip(n, max) <= max + 3
  BY DEF Clip

LEMMA ProcessLineBound ==
  ASSUME NEW f \in Facts
  PROVE  ProcessLine(f) \in Nat /\ ProcessLine(f) <= 168
<1>1. f.stay \in 1 .. 10 /\ f.switches \in 1 .. 10 /\ f.rapid \in 1 .. 10
  BY DEF Facts
<1> QED
  BY <1>1 DEF ProcessLine

LEMMA WindowLineBound ==
  ASSUME NEW w \in Windows
  PROVE  WindowLine(w) \in Nat /\ WindowLine(w) <= 242
<1>1. w.title \in Nat /\ w.process \in Nat
  BY DEF Windows
<1> QED
  BY <1>1 DEF WindowLine, Clip

LEMMA HotChannelBound ==
  ASSUME NEW hot \in HotContexts
  PROVE  HotChannel(hot) \in Nat /\ HotChannel(hot) <= 554
<1>1. hot.count \in 1 .. 20 /\ hot.body \in Nat
  BY DEF HotContexts
<1> QED
  BY <1>1 DEF HotChannel, Clip, MaxHotContextChars

LEMMA RecallBlockBound ==
  ASSUME NEW facts \in Nat, NEW memories \in Nat
  PROVE  RecallBlock(facts, memories) \in Nat /\ RecallBlock(facts, memories) <= 1407
<1>1. Section(facts, MaxFeedbackBlockChars) \in 0 .. 524
  BY DEF Section, Clip, MaxFeedbackBlockChars
<1>2. Section(memories, MaxMemoryBlockChars) \in 0 .. 724
  BY DEF Section, Clip, MaxMemoryBlockChars
<1>3. PICK a \in 0 .. 524 : a = Section(facts, MaxFeedbackBlockChars)
  BY <1>1
<1>4. PICK b \in 0 .. 724 : b = Section(memories, MaxMemoryBlockChars)
  BY <1>2
<1>5. RecallBlock(facts, memories) = IF facts = 0 /\ memories = 0 THEN 0 ELSE 17 + 1 + 141 + a + b
  BY <1>3, <1>4 DEF RecallBlock
<1> QED
  BY <1>5

\* The four kinds of lines together.
LEMMA LinesBound ==
  ASSUME NEW f \in Facts, NEW w \in Windows, NEW hot \in HotContexts,
         NEW facts, NEW memories, NEW max \in Nat,
         RecallBlock(facts, memories) \in Nat, RecallBlock(facts, memories) <= max
  PROVE  /\ ProtectedLines(f, w, hot, facts, memories) \in Nat \ {0}
         /\ ProtectedLines(f, w, hot, facts, memories) <= 967 + max
<1>0. /\ ProcessLine(f) \in Nat /\ ProcessLine(f) <= 168
      /\ WindowLine(w) \in Nat /\ WindowLine(w) <= 242
      /\ HotChannel(hot) \in Nat /\ HotChannel(hot) <= 554
  BY ProcessLineBound, WindowLineBound, HotChannelBound
<1>1. PICK a \in 0 .. 168 : a = ProcessLine(f)
  BY <1>0
<1>2. PICK b \in 0 .. 242 : b = WindowLine(w)
  BY <1>0
<1>3. PICK c \in 0 .. 554 : c = HotChannel(hot)
  BY <1>0
<1>4. PICK d \in 0 .. max : d = RecallBlock(facts, memories)
  OBVIOUS
<1>5. ProtectedLines(f, w, hot, facts, memories) = a + 1 + b + Line(c) + Line(d)
  BY <1>1, <1>2, <1>3, <1>4 DEF ProtectedLines
<1>6. PICK x \in 0 .. 555 : x = Line(c)
  BY DEF Line
<1>7. PICK y \in 0 .. 1 + max : y = Line(d)
  BY DEF Line
<1>8. ProtectedLines(f, w, hot, facts, memories) = a + 1 + b + x + y
  BY <1>5, <1>6, <1>7
<1> QED
  BY <1>8

\* The process, the window, the stable context and the admitted facts and
\* memories always fit: build_popup_context never cuts them, however long the
\* texts they are made of, and 25 characters are left for the log.
THEOREM ProtectedLinesFit ==
  ASSUME NEW f \in Facts, NEW w \in Windows, NEW hot \in HotContexts,
         NEW facts \in Nat, NEW memories \in Nat
  PROVE  LET protected == ProtectedLines(f, w, hot, facts, memories)
         IN  /\ protected \in Nat \ {0}
             /\ protected <= 2374
             /\ Clip(protected, MaxContextChars) = protected
             /\ Remaining(protected) = MaxContextChars - protected - 1
<1> DEFINE protected == ProtectedLines(f, w, hot, facts, memories)
<1>1. RecallBlock(facts, memories) \in Nat /\ RecallBlock(facts, memories) <= 1407
  BY RecallBlockBound
<1>2. protected \in Nat \ {0} /\ protected <= 967 + 1407
  BY <1>1, LinesBound
<1>3. PICK p \in 1 .. 2374 : p = protected
  BY <1>2
<1>4. Clip(p, MaxContextChars) = p
  BY DEF Clip, MaxContextChars
<1>5. Remaining(p) = MaxContextChars - p - 1
  BY <1>4 DEF Remaining, MaxContextChars
<1>6. protected \in Nat \ {0} /\ protected <= 2374
  BY <1>2
<1>7. /\ Clip(protected, MaxContextChars) = protected
      /\ Remaining(protected) = MaxContextChars - protected - 1
  BY <1>3, <1>4, <1>5
<1> QED
  BY <1>6, <1>7

\* When there is a log, some of it is shown after its header, and no context
\* is longer than the limit and an ellipsis (format_action_log_tail).
THEOREM LogTailIsShown ==
  ASSUME NEW f \in Facts, NEW w \in Windows, NEW hot \in HotContexts,
         NEW facts \in Nat, NEW memories \in Nat,
         NEW tail \in Nat, tail > TailHeader
  PROVE  LET protected == ProtectedLines(f, w, hot, facts, memories)
         IN  /\ ShownTail(tail, Remaining(protected)) > TailHeader
             /\ PopupContext(protected, tail) > protected + TailHeader
             /\ PopupContext(protected, tail) <= MaxContextChars + 3
<1> DEFINE protected == ProtectedLines(f, w, hot, facts, memories)
<1>0. protected \in Nat \ {0} /\ protected <= 2374
  BY ProtectedLinesFit
<1>1. PICK p \in 1 .. 2374 : p = protected
  BY <1>0
<1>2. /\ Clip(p, MaxContextChars) = p
      /\ Remaining(p) = MaxContextChars - p - 1
  BY <1>1, ProtectedLinesFit
<1>3. PICK max \in 25 .. 2400 : max = Remaining(p) /\ max = 2400 - p - 1
  BY <1>2 DEF MaxContextChars
<1>4. PICK shown \in Nat : shown = ShownTail(tail, max) /\ shown > 17
  BY DEF ShownTail, Clip, TailHeader
<1>5. PopupContext(p, tail) = Clip(p + 1 + shown, 2400)
  BY <1>2, <1>3, <1>4 DEF PopupContext, Line, MaxContextChars
<1>6. PopupContext(p, tail) > p + 17 /\ PopupContext(p, tail) <= 2403
  BY <1>5, <1>4 DEF Clip
<1> QED
  BY <1>1, <1>3, <1>4, <1>6 DEF TailHeader, MaxContextChars

\* The facts about feedback come first and reach the relay with a confirmed
\* task, which takes less of the context along than the model saw
\* (clip_relay_context).
THEOREM FeedbackReachesRelay ==
  ASSUME NEW f \in Facts, NEW w \in Windows, NEW hot \in HotContexts,
         NEW facts \in Nat, facts # 0
  PROVE  LET upToFeedback == ProtectedLines(f, w, hot, facts, 0)
         IN  RelayContext(upToFeedback) = upToFeedback
<1>1. PICK a \in 0 .. 524 : a = Section(facts, MaxFeedbackBlockChars)
  BY DEF Section, Clip, MaxFeedbackBlockChars
<1>2. Section(0, MaxMemoryBlockChars) = 0
  BY DEF Section
<1>3. RecallBlock(facts, 0) = 17 + 1 + 141 + a + 0
  BY <1>1, <1>2 DEF RecallBlock
<1>4. RecallBlock(facts, 0) \in Nat /\ RecallBlock(facts, 0) <= 683
  BY <1>3
<1>5. /\ ProtectedLines(f, w, hot, facts, 0) \in Nat \ {0}
      /\ ProtectedLines(f, w, hot, facts, 0) <= 967 + 683
  BY <1>4, LinesBound
<1>6. PICK p \in 1 .. 1650 : p = ProtectedLines(f, w, hot, facts, 0)
  BY <1>5
<1>7. RelayContext(p) = p
  BY DEF RelayContext, Clip
<1> QED
  BY <1>6, <1>7

----------------------------------------------------------------------------
\* Recall

\* Memories by their ids, of any terms, of which a query takes finitely many.
Tables(ids) == [ids -> [used : Nat, lifecycle : STRING, expired : BOOLEAN, terms : SUBSET STRING]]

LEMMA ScoreType ==
  ASSUME NEW query, IsFiniteSet(query), NEW m
  PROVE  RecallScore(m, query) \in Nat
<1>1. IsFiniteSet(MatchedTerms(m, query))
  BY FS_Subset DEF MatchedTerms
<1> QED
  BY <1>1, FS_CardinalityType DEF RecallScore

\* A mark changes how often a memory was used and nothing recall looks for.
LEMMA MarkedSame ==
  ASSUME NEW ids \in SUBSET Int, NEW memories \in Tables(ids), NEW marked \in SUBSET ids,
         NEW query, NEW i \in ids
  PROVE  /\ DOMAIN MarkUsed(memories, marked) = DOMAIN memories
         /\ DOMAIN memories = ids
         /\ RecallScore(MarkUsed(memories, marked)[i], query) = RecallScore(memories[i], query)
         /\ MarkUsed(memories, marked)[i].lifecycle = memories[i].lifecycle
         /\ MarkUsed(memories, marked)[i].expired = memories[i].expired
         /\ memories[i].used \in Nat
         /\ MarkUsed(memories, marked)[i].used =
              IF i \in marked THEN memories[i].used + 1 ELSE memories[i].used
<1>1. DOMAIN memories = ids /\ DOMAIN MarkUsed(memories, marked) = DOMAIN memories
  BY DEF Tables, MarkUsed
<1>2. memories[i] \in [used : Nat, lifecycle : STRING, expired : BOOLEAN, terms : SUBSET STRING]
  BY DEF Tables
<1>3. MarkUsed(memories, marked)[i] =
        IF i \in marked THEN [memories[i] EXCEPT !.used = @ + 1] ELSE memories[i]
  BY <1>1 DEF MarkUsed
<1>4. /\ MarkUsed(memories, marked)[i].terms = memories[i].terms
      /\ MarkUsed(memories, marked)[i].lifecycle = memories[i].lifecycle
      /\ MarkUsed(memories, marked)[i].expired = memories[i].expired
      /\ MarkUsed(memories, marked)[i].used =
           IF i \in marked THEN memories[i].used + 1 ELSE memories[i].used
  BY <1>2, <1>3
<1>5. RecallScore(MarkUsed(memories, marked)[i], query) = RecallScore(memories[i], query)
  BY <1>4 DEF RecallScore, MatchedTerms
<1> QED
  BY <1>1, <1>2, <1>4, <1>5

LEMMA MarkedRelevant ==
  ASSUME NEW ids \in SUBSET Int, NEW memories \in Tables(ids), NEW marked \in SUBSET ids,
         NEW query
  PROVE  Relevant(MarkUsed(memories, marked), query) = Relevant(memories, query)
<1>1. DOMAIN memories = ids /\ DOMAIN MarkUsed(memories, marked) = ids
  BY DEF Tables, MarkUsed
<1>2. \A i \in ids :
        /\ RecallScore(MarkUsed(memories, marked)[i], query) = RecallScore(memories[i], query)
        /\ MarkUsed(memories, marked)[i].lifecycle = memories[i].lifecycle
        /\ MarkUsed(memories, marked)[i].expired = memories[i].expired
  BY MarkedSame
<1> QED
  BY <1>1, <1>2 DEF Relevant

LEMMA BeforeTransitive ==
  ASSUME NEW ids \in SUBSET Int, NEW memories \in Tables(ids),
         NEW query, IsFiniteSet(query),
         NEW i \in ids, NEW j \in ids, NEW k \in ids,
         Before(memories, query, i, j), Before(memories, query, j, k)
  PROVE  Before(memories, query, i, k)
<1>1. /\ memories[i].used \in Nat /\ memories[j].used \in Nat /\ memories[k].used \in Nat
  BY DEF Tables
<1>2. /\ RecallScore(memories[i], query) \in Nat
      /\ RecallScore(memories[j], query) \in Nat
      /\ RecallScore(memories[k], query) \in Nat
  BY ScoreType
<1> QED
  BY <1>1, <1>2 DEF Before

\* Who is before a recalled memory was recalled itself.
LEMMA RecalledFirst ==
  ASSUME NEW ids \in SUBSET Int, IsFiniteSet(ids), NEW memories \in Tables(ids),
         NEW query, IsFiniteSet(query), NEW limit \in Nat,
         NEW i \in Recalled(memories, query, limit),
         NEW j \in Relevant(memories, query), Before(memories, query, j, i)
  PROVE  j \in Recalled(memories, query, limit)
<1> DEFINE ahead(k) == { n \in Relevant(memories, query) : Before(memories, query, n, k) }
<1>1. Relevant(memories, query) \subseteq ids
  BY DEF Relevant, Tables
<1>2. i \in ids /\ j \in ids
  BY <1>1 DEF Recalled
<1>3. ahead(j) \subseteq ahead(i)
  BY <1>1, <1>2, BeforeTransitive
<1>4. IsFiniteSet(ahead(i))
  BY <1>1, FS_Subset
<1>5. Cardinality(ahead(j)) <= Cardinality(ahead(i))
  BY <1>3, <1>4, FS_Subset
<1>6. Cardinality(ahead(i)) < limit
  BY DEF Recalled
<1>7. Cardinality(ahead(i)) \in Nat /\ Cardinality(ahead(j)) \in Nat
  BY <1>3, <1>4, FS_Subset, FS_CardinalityType
<1>8. Cardinality(ahead(j)) < limit
  BY <1>5, <1>6, <1>7
<1> QED
  BY <1>8 DEF Recalled

\* A non-empty set has an element with the least of some numbers.
LEMMA LeastOf ==
  ASSUME NEW S, S # {}, NEW f \in [S -> Nat]
  PROVE  \E x \in S : \A y \in S : f[x] <= f[y]
<1> DEFINE less == { ss \in Nat \X Nat : ss[1] < ss[2] }
           T == { f[x] : x \in S }
<1>1. IsWellFoundedOn(less, Nat)
  BY NatLessThanWellFounded DEF OpToRel
<1>2. T \subseteq Nat /\ T # {}
  OBVIOUS
<1>3. PICK m \in T : \A n \in T : <<n, m>> \notin less
  <2> HIDE DEF less, T
  <2> QED BY <1>1, <1>2, WFMin
<1>4. PICK x \in S : f[x] = m
  BY <1>3
<1>5. ASSUME NEW y \in S PROVE f[x] <= f[y]
  <2>1. f[y] \in T /\ f[y] \in Nat /\ m \in Nat
    BY <1>2, <1>3
  <2>2. ~(<<f[y], m>>[1] < <<f[y], m>>[2])
    BY <1>3, <2>1
  <2> QED BY <1>4, <2>1, <2>2
<1> QED BY <1>5

\* The order of the memories is strict and total, so who is before another
\* has fewer before it.
LEMMA FewerAhead ==
  ASSUME NEW ids \in SUBSET Int, IsFiniteSet(ids), NEW memories \in Tables(ids),
         NEW query, IsFiniteSet(query),
         NEW i \in Relevant(memories, query), NEW j \in Relevant(memories, query)
  PROVE  LET ahead(k) == { n \in Relevant(memories, query) : Before(memories, query, n, k) }
         IN  /\ Cardinality(ahead(i)) \in Nat /\ IsFiniteSet(ahead(i))
             /\ i # j => Before(memories, query, i, j) \/ Before(memories, query, j, i)
             /\ Before(memories, query, j, i) => Cardinality(ahead(j)) < Cardinality(ahead(i))
<1> DEFINE relevant == Relevant(memories, query)
           ahead(k) == { n \in relevant : Before(memories, query, n, k) }
<1>1. relevant \subseteq ids
  BY DEF Relevant, Tables
<1>2. IsFiniteSet(ahead(i)) /\ IsFiniteSet(ahead(j))
  BY <1>1, FS_Subset
<1>3. Cardinality(ahead(i)) \in Nat /\ Cardinality(ahead(j)) \in Nat
  BY <1>2, FS_CardinalityType
<1>4. i \in ids /\ j \in ids /\ i \in Int /\ j \in Int
  BY <1>1
<1>5. memories[i].used \in Nat /\ memories[j].used \in Nat
  BY <1>4 DEF Tables
<1>6. RecallScore(memories[i], query) \in Nat /\ RecallScore(memories[j], query) \in Nat
  BY ScoreType
<1>7. i # j => Before(memories, query, i, j) \/ Before(memories, query, j, i)
  BY <1>4, <1>5, <1>6 DEF Before
<1>8. ASSUME Before(memories, query, j, i)
      PROVE  Cardinality(ahead(j)) < Cardinality(ahead(i))
  <2>1. ahead(j) \subseteq ahead(i)
    BY <1>1, <1>4, <1>8, BeforeTransitive
  <2>2. j \in ahead(i) /\ j \notin ahead(j)
    BY <1>4, <1>5, <1>6, <1>8 DEF Before
  <2>3. /\ Cardinality(ahead(j)) <= Cardinality(ahead(i))
        /\ Cardinality(ahead(j)) # Cardinality(ahead(i))
    <3> HIDE DEF ahead
    <3> QED BY <1>2, <2>1, <2>2, FS_Subset
  <2> QED BY <1>3, <2>3
<1> QED BY <1>2, <1>3, <1>7, <1>8

\* Recall is the best of what is relevant, and as much of it as the limit
\* admits: a relevant memory is left out only when the limit is reached by
\* memories that match at least as many terms, and of those that match as many
\* were used at least as often (recall_active_by_text sorts and truncates).
THEOREM BestAreRecalled ==
  ASSUME NEW ids \in SUBSET Int, IsFiniteSet(ids), NEW memories \in Tables(ids),
         NEW query, IsFiniteSet(query), NEW limit \in Nat
  PROVE  LET recalled == Recalled(memories, query, limit)
             score(i) == RecallScore(memories[i], query)
         IN  /\ Cardinality(recalled) <= limit
             /\ \A i \in recalled, j \in Relevant(memories, query) \ recalled :
                  /\ score(j) <= score(i)
                  /\ score(j) = score(i) => memories[j].used <= memories[i].used
             /\ Relevant(memories, query) # recalled => Cardinality(recalled) = limit
<1> DEFINE recalled == Recalled(memories, query, limit)
           relevant == Relevant(memories, query)
           before(i, j) == Before(memories, query, i, j)
           ahead(k) == { n \in relevant : Before(memories, query, n, k) }
           score(i) == RecallScore(memories[i], query)
<1>1. /\ recalled \subseteq relevant /\ relevant \subseteq ids
      /\ \A i \in relevant : i \in recalled <=> Cardinality(ahead(i)) < limit
  BY DEF Recalled, Relevant, Tables
<1>2. IsFiniteSet(recalled) /\ Cardinality(recalled) \in Nat
  BY <1>1, FS_Subset, FS_CardinalityType
<1>3. \A i, j \in relevant : /\ Cardinality(ahead(i)) \in Nat /\ IsFiniteSet(ahead(i))
                             /\ i # j => before(i, j) \/ before(j, i)
                             /\ before(j, i) => Cardinality(ahead(j)) < Cardinality(ahead(i))
  BY FewerAhead
<1>4. \A i \in recalled, j \in relevant : before(j, i) => j \in recalled
  BY RecalledFirst
<1>5. \A i \in recalled, j \in relevant \ recalled :
        /\ score(j) <= score(i)
        /\ score(j) = score(i) => memories[j].used <= memories[i].used
  <2>1. ASSUME NEW i \in recalled, NEW j \in relevant \ recalled
        PROVE  /\ score(j) <= score(i)
               /\ score(j) = score(i) => memories[j].used <= memories[i].used
    <3>1. before(i, j)
      BY <1>1, <1>3, <1>4
    <3>2. i \in ids /\ j \in ids
      BY <1>1
    <3>3. score(i) \in Nat /\ score(j) \in Nat
      BY ScoreType
    <3>4. memories[i].used \in Nat /\ memories[j].used \in Nat
      BY <3>2 DEF Tables
    <3> QED BY <3>1, <3>3, <3>4 DEF Before
  <2> QED BY <2>1
<1> HIDE DEF recalled, relevant, before, ahead
<1>6. Cardinality(recalled) <= limit
  <2>1. CASE recalled = {}
    BY <2>1, FS_EmptySet
  <2>2. CASE recalled # {}
    <3> DEFINE room == [i \in recalled |-> limit - Cardinality(ahead(i))]
    <3>1. room \in [recalled -> Nat]
      BY <1>1, <1>3
    <3>2. PICK last \in recalled : \A i \in recalled : room[last] <= room[i]
      <4> HIDE DEF room
      <4> QED BY <2>2, <3>1, LeastOf
    <3>3. ASSUME NEW i \in recalled \ {last} PROVE i \in ahead(last)
      <4>1. room[last] <= room[i]
        BY <3>2
      <4>2. /\ Cardinality(ahead(i)) \in Nat /\ Cardinality(ahead(last)) \in Nat
            /\ i \in relevant /\ last \in relevant
        BY <1>1, <1>3
      <4>3. ~(Cardinality(ahead(last)) < Cardinality(ahead(i)))
        BY <4>1, <4>2
      <4>4. before(i, last)
        BY <1>3, <4>2, <4>3
      <4> QED BY <4>2, <4>4 DEF ahead, before
    <3>4. recalled \ {last} \subseteq ahead(last) /\ IsFiniteSet(ahead(last))
      BY <1>1, <1>3, <3>3
    <3>5. Cardinality(recalled \ {last}) <= Cardinality(ahead(last))
      BY <3>4, FS_Subset
    <3>6. Cardinality(recalled \ {last}) = Cardinality(recalled) - 1
      BY <1>2, FS_RemoveElement
    <3>7. Cardinality(ahead(last)) < limit /\ Cardinality(ahead(last)) \in Nat
      BY <1>1, <1>3
    <3> QED BY <1>2, <3>5, <3>6, <3>7
  <2> QED BY <2>1, <2>2
<1>7. ASSUME relevant # recalled PROVE Cardinality(recalled) = limit
  <2> DEFINE left == relevant \ recalled
             rank == [i \in left |-> Cardinality(ahead(i))]
  <2>1. left # {} /\ rank \in [left -> Nat]
    BY <1>1, <1>3, <1>7
  <2>2. PICK first \in left : \A i \in left : rank[first] <= rank[i]
    <3> HIDE DEF left, rank
    <3> QED BY <2>1, LeastOf
  <2>3. ASSUME NEW i \in ahead(first) PROVE i \in recalled
    <3>1. i \in relevant /\ before(i, first) /\ first \in relevant
      BY DEF ahead, before
    <3>2. /\ Cardinality(ahead(i)) < Cardinality(ahead(first))
          /\ Cardinality(ahead(i)) \in Nat /\ Cardinality(ahead(first)) \in Nat
      BY <1>3, <3>1
    <3>3. i \notin left
      BY <2>2, <3>2
    <3> QED BY <3>1, <3>3
  <2>4. Cardinality(ahead(first)) <= Cardinality(recalled)
    BY <1>2, <2>3, FS_Subset
  <2>5. ~(Cardinality(ahead(first)) < limit) /\ Cardinality(ahead(first)) \in Nat
    BY <1>1, <1>3
  <2> QED BY <1>2, <1>6, <2>4, <2>5
<1> QED BY <1>5, <1>6, <1>7 DEF recalled, relevant

\* Recall feeds itself: what a query recalls is marked as used, and the same
\* query then recalls the same memories, and no other, until the memories
\* themselves change (recall_active_by_text and mark_used).
THEOREM RecallRepeats ==
  ASSUME NEW ids \in SUBSET Int, IsFiniteSet(ids), NEW memories \in Tables(ids),
         NEW query, IsFiniteSet(query), NEW limit \in Nat
  PROVE  LET recalled == Recalled(memories, query, limit)
         IN  Recalled(MarkUsed(memories, recalled), query, limit) = recalled
<1> DEFINE recalled == Recalled(memories, query, limit)
           after == MarkUsed(memories, recalled)
           relevant == Relevant(memories, query)
           ahead(k) == { n \in relevant : Before(memories, query, n, k) }
           aheadAfter(k) == { n \in relevant : Before(after, query, n, k) }
<1>1. recalled \subseteq relevant /\ relevant \subseteq ids
  BY DEF Recalled, Relevant, Tables
<1>2. Relevant(after, query) = relevant
  BY <1>1, MarkedRelevant
<1>3. \A i \in ids : /\ RecallScore(after[i], query) = RecallScore(memories[i], query)
                      /\ RecallScore(memories[i], query) \in Nat
                      /\ memories[i].used \in Nat
                      /\ after[i].used = IF i \in recalled THEN memories[i].used + 1
                                                            ELSE memories[i].used
  <2>1. recalled \in SUBSET ids
    BY <1>1
  <2> HIDE DEF recalled, relevant, ahead, aheadAfter
  <2>2. ASSUME NEW i \in ids
        PROVE  /\ RecallScore(after[i], query) = RecallScore(memories[i], query)
               /\ memories[i].used \in Nat
               /\ after[i].used = IF i \in recalled THEN memories[i].used + 1
                                                   ELSE memories[i].used
    BY <2>1, MarkedSame
  <2>3. ASSUME NEW i \in ids
        PROVE  RecallScore(memories[i], query) \in Nat
    BY ScoreType
  <2> QED
    BY <2>2, <2>3
<1>4. ASSUME NEW i \in recalled
      PROVE  aheadAfter(i) = ahead(i)
  <2>1. ASSUME NEW n \in relevant
        PROVE  Before(after, query, n, i) <=> Before(memories, query, n, i)
    <3>1. i \in ids /\ n \in ids /\ i \in relevant
      BY <1>1
    <3>2. CASE n \in recalled
      <4>1. /\ after[i].used = memories[i].used + 1
            /\ after[n].used = memories[n].used + 1
            /\ memories[i].used \in Nat /\ memories[n].used \in Nat
        BY <1>3, <3>1, <3>2
      <4>2. /\ RecallScore(after[i], query) = RecallScore(memories[i], query)
            /\ RecallScore(after[n], query) = RecallScore(memories[n], query)
        BY <1>3, <3>1
      <4>3. /\ after[n].used > after[i].used <=> memories[n].used > memories[i].used
            /\ after[n].used = after[i].used <=> memories[n].used = memories[i].used
        BY <4>1
      <4> HIDE DEF after
      <4> QED
        BY <4>2, <4>3 DEF Before
    <3>3. CASE n \notin recalled
      <4>1. ~Before(memories, query, n, i)
        BY <3>3, RecalledFirst
      <4> QED
        BY <1>3, <3>1, <3>3, <4>1 DEF Before
    <3> QED
      BY <3>2, <3>3
  <2> QED
    BY <2>1
<1>5. ASSUME NEW i \in relevant, i \notin recalled
      PROVE  ahead(i) \subseteq aheadAfter(i)
  <2>1. ASSUME NEW n \in relevant, Before(memories, query, n, i)
        PROVE  Before(after, query, n, i)
    <3>1. i \in ids /\ n \in ids
      BY <1>1
    <3> QED
      BY <1>3, <1>5, <2>1, <3>1 DEF Before
  <2> QED
    BY <2>1
<1>6. ASSUME NEW i \in relevant
      PROVE  i \in Recalled(after, query, limit) <=> Cardinality(aheadAfter(i)) < limit
  BY <1>2 DEF Recalled
<1>7. ASSUME NEW i \in relevant
      PROVE  i \in recalled <=> Cardinality(ahead(i)) < limit
  BY DEF Recalled
<1>8. recalled \subseteq Recalled(after, query, limit)
  <2>1. ASSUME NEW i \in recalled
        PROVE  i \in Recalled(after, query, limit)
    BY <1>1, <1>4, <1>6, <1>7
  <2> QED
    BY <2>1
<1>9. ASSUME NEW i \in relevant, i \notin recalled
      PROVE  i \notin Recalled(after, query, limit)
  <2>1. ahead(i) \subseteq aheadAfter(i) /\ IsFiniteSet(aheadAfter(i)) /\ IsFiniteSet(ahead(i))
    BY <1>1, <1>5, <1>9, FS_Subset
  <2>2. /\ Cardinality(ahead(i)) <= Cardinality(aheadAfter(i))
        /\ Cardinality(ahead(i)) \in Nat /\ Cardinality(aheadAfter(i)) \in Nat
    BY <2>1, FS_Subset, FS_CardinalityType
  <2>3. ~(Cardinality(ahead(i)) < limit)
    BY <1>7, <1>9
  <2>4. ~(Cardinality(aheadAfter(i)) < limit)
    BY <2>2, <2>3
  <2> QED
    BY <1>6, <2>4
<1>10. Recalled(after, query, limit) \subseteq relevant
  BY <1>2 DEF Recalled
<1> QED
  BY <1>8, <1>9, <1>10

-----------------------------------------------------------------------------
(* What a search of MemorySearch returns, for archives of every size *)

Queries == [text : [words : SUBSET STRING, marks : SUBSET STRING],
            thread : STRING, range : {NoRange}, limit : Nat]

\* The first n of a finite set are finitely many, at most n, and all of them
\* when they are no more.
LEMMA FirstOf ==
  ASSUME NEW all, IsFiniteSet(all), NEW score, NEW n \in Nat, NEW S, IsFirst(S, all, score, n)
  PROVE  /\ S \subseteq all /\ IsFiniteSet(S)
         /\ Cardinality(S) \in Nat /\ Cardinality(S) <= n
         /\ Cardinality(all) <= n => S = all
<1>1. S \subseteq all /\ IsFiniteSet(S)
  BY FS_Subset DEF IsFirst
<1>2. PICK a \in Nat : a = Cardinality(all)
  BY FS_CardinalityType
<1>3. Cardinality(S) = IF n < a THEN n ELSE a
  BY <1>2 DEF IsFirst
<1>4. Cardinality(S) \in Nat /\ Cardinality(S) <= n
  BY <1>3
<1>5. ASSUME Cardinality(all) <= n
      PROVE  S = all
  <2>1. Cardinality(S) = Cardinality(all)
    BY <1>2, <1>3, <1>5
  <2> QED
    BY <1>1, <2>1, FS_Subset
<1> QED
  BY <1>1, <1>4, <1>5

\* When not all of a set are taken, the last of it is not.
LEMMA LastIsLeft ==
  ASSUME NEW all, NEW score \in [all -> Int], NEW n \in Nat, NEW S, IsFirst(S, all, score, n),
         S # all, NEW last \in all, \A j \in all \ {last} : score[j] > score[last]
  PROVE  last \notin S
<1>1. SUFFICES ASSUME last \in S
               PROVE  FALSE
  OBVIOUS
<1>2. PICK y \in all : y \notin S
  BY DEF IsFirst
<1>3. score[y] <= score[last]
  BY <1>1, <1>2 DEF IsFirst
<1>4. score[y] > score[last]
  BY <1>1, <1>2
<1>5. score[y] \in Int /\ score[last] \in Int
  OBVIOUS
<1> QED
  BY <1>3, <1>4, <1>5

\* A search finds what it was asked for: events of the thread and the time,
\* that match a keyword query or have an embedding, and no more than the limit.
THEOREM FoundIsAsked ==
  ASSUME NEW events, IsFiniteSet(DOMAIN events), NEW q, q.limit \in Nat, NEW bm25, NEW similarity,
         NEW provider \in BOOLEAN, NEW R, Search(R, events, q, bm25, similarity, provider)
  PROVE  /\ IsFiniteSet(R) /\ Cardinality(R) <= q.limit
         /\ \A i \in R : /\ InThread(events[i], q.thread) /\ InTime(events[i], q.range)
                         /\ i \in KeywordMatches(events, q) \/ (provider /\ events[i].embedded)
<1>1. PICK keyword \in SUBSET DOMAIN events, vector \in SUBSET DOMAIN events :
        /\ SearchFts(keyword, events, q, bm25)
        /\ IF provider THEN SearchVector(vector, events, q, similarity) ELSE vector = {}
        /\ IsFirst(R, { i \in keyword \cup vector : InTime(events[i], q.range) },
                   Merged(keyword, vector, bm25, similarity), q.limit)
  BY DEF Search
<1> DEFINE found == { i \in keyword \cup vector : InTime(events[i], q.range) }
<1>2. IsFiniteSet(found)
  <2>1. found \subseteq DOMAIN events
    OBVIOUS
  <2> QED
    BY <2>1, FS_Subset
<1>3. R \subseteq found /\ IsFiniteSet(R) /\ Cardinality(R) <= q.limit
  <2> HIDE DEF found
  <2> QED
    BY <1>1, <1>2, FirstOf DEF found
<1>4. keyword \subseteq KeywordMatches(events, q)
  BY <1>1 DEF SearchFts, IsFirst
<1>5. ASSUME NEW i \in vector
      PROVE  provider /\ events[i].embedded /\ InThread(events[i], q.thread)
  BY <1>1 DEF SearchVector, IsFirst
<1>6. \A i \in KeywordMatches(events, q) : InThread(events[i], q.thread)
  BY DEF KeywordMatches
<1> QED
  BY <1>3, <1>4, <1>5, <1>6

\* The searches of the program, without embeddings and without a range, show
\* every event that matches as long as there are no more than the limit.
THEOREM FewAreAllFound ==
  ASSUME NEW events, IsFiniteSet(DOMAIN events), NEW q \in Queries, NEW bm25,
         NEW R, Search(R, events, q, bm25, bm25, FALSE),
         Cardinality(KeywordMatches(events, q)) <= q.limit
  PROVE  R = KeywordMatches(events, q)
<1> DEFINE all == KeywordMatches(events, q)
<1>1. q.limit \in Nat /\ q.range = NoRange
  BY DEF Queries
<1>2. PICK keyword \in SUBSET DOMAIN events :
        /\ IsFirst(keyword, all, bm25, 2 * q.limit)
        /\ IsFirst(R, { i \in keyword \cup {} : InTime(events[i], q.range) },
                   Merged(keyword, {}, bm25, bm25), q.limit)
  BY DEF Search, SearchFts
<1>3. IsFiniteSet(all)
  BY FS_Subset DEF KeywordMatches
<1>4. PICK n \in Nat : n = Cardinality(all)
  BY <1>3, FS_CardinalityType
<1>5. PICK limit \in Nat : limit = q.limit
  BY <1>1
<1>6. n <= limit /\ n <= 2 * limit /\ 2 * limit \in Nat
  BY <1>4, <1>5
<1>7. keyword = all
  <2>1. IsFirst(keyword, all, bm25, 2 * limit) /\ Cardinality(all) <= 2 * limit
    BY <1>2, <1>4, <1>5, <1>6
  <2> HIDE DEF all
  <2> QED
    BY <1>3, <1>6, <2>1, FirstOf
<1>8. { i \in keyword \cup {} : InTime(events[i], q.range) } = keyword
  BY <1>1 DEF InTime
<1>9. IsFirst(R, all, Merged(keyword, {}, bm25, bm25), limit) /\ Cardinality(all) <= limit
  BY <1>2, <1>4, <1>5, <1>6, <1>7, <1>8
<1> HIDE DEF all
<1> QED
  BY <1>3, <1>9, FirstOf DEF all

\* When there are more, the best of them is not shown: the smallest bm25 score
\* is the best, and search_fts and search both sort by score in descending
\* order before they cut.
THEOREM BestIsLost ==
  ASSUME NEW events, IsFiniteSet(DOMAIN events), NEW q \in Queries,
         NEW bm25 \in [DOMAIN events -> Int],
         NEW R, Search(R, events, q, bm25, bm25, FALSE),
         Cardinality(KeywordMatches(events, q)) > q.limit,
         NEW best \in KeywordMatches(events, q),
         \A j \in KeywordMatches(events, q) \ {best} : bm25[j] > bm25[best]
  PROVE  best \notin R
<1> DEFINE all == KeywordMatches(events, q)
<1>1. q.limit \in Nat /\ q.range = NoRange
  BY DEF Queries
<1>2. PICK keyword \in SUBSET DOMAIN events :
        /\ IsFirst(keyword, all, bm25, 2 * q.limit)
        /\ IsFirst(R, { i \in keyword \cup {} : InTime(events[i], q.range) },
                   Merged(keyword, {}, bm25, bm25), q.limit)
  BY DEF Search, SearchFts
<1>3. all \subseteq DOMAIN events /\ IsFiniteSet(all)
  BY FS_Subset DEF KeywordMatches
<1>4. { i \in keyword \cup {} : InTime(events[i], q.range) } = keyword
  BY <1>1 DEF InTime
<1>5. \A i \in keyword : Merged(keyword, {}, bm25, bm25)[i] = bm25[i]
  BY DEF Merged
<1>6. keyword \subseteq all
  BY <1>2 DEF IsFirst
<1>7. CASE best \notin keyword
  BY <1>2, <1>4, <1>7 DEF IsFirst
<1>8. CASE best \in keyword
  <2>1. \A y \in all : y \in keyword
    <3>1. SUFFICES ASSUME NEW y \in all, y \notin keyword
                   PROVE  FALSE
      OBVIOUS
    <3>2. bm25[y] <= bm25[best]
      BY <1>2, <1>8, <3>1 DEF IsFirst
    <3>3. bm25[y] > bm25[best]
      BY <1>8, <3>1
    <3>4. bm25[y] \in Int /\ bm25[best] \in Int
      BY <1>3, <3>1
    <3> QED
      BY <3>2, <3>3, <3>4
  <2>2. keyword = all
    BY <1>6, <2>1
  <2>3. IsFirst(R, all, Merged(all, {}, bm25, bm25), q.limit)
    BY <1>2, <1>4, <2>2
  <2>4. R # all
    <3>1. Cardinality(R) <= q.limit
      <4> HIDE DEF all
      <4> QED
        BY <1>1, <1>3, <2>3, FirstOf
    <3>2. Cardinality(all) \in Nat /\ Cardinality(R) \in Nat
      <4> HIDE DEF all
      <4> QED
        BY <1>1, <1>3, <2>3, FirstOf, FS_CardinalityType
    <3> QED
      BY <1>1, <3>1, <3>2
  <2>5. SUFFICES ASSUME best \in R
                 PROVE  FALSE
    OBVIOUS
  <2>6. R \subseteq all
    BY <2>3 DEF IsFirst
  <2>7. PICK y \in all : y \notin R
    BY <2>4, <2>6
  <2>8. Merged(all, {}, bm25, bm25)[y] <= Merged(all, {}, bm25, bm25)[best]
    BY <2>3, <2>5, <2>7 DEF IsFirst
  <2>9. bm25[y] <= bm25[best]
    BY <1>5, <1>8, <2>2, <2>7, <2>8
  <2>10. bm25[y] > bm25[best]
    BY <2>5, <2>7
  <2>11. bm25[y] \in Int /\ bm25[best] \in Int
    BY <1>3, <2>7
  <2> QED
    BY <2>9, <2>10, <2>11
<1> QED
  BY <1>7, <1>8

\* The reminder the desktop builds speaks of now, and no slice that was built
\* has begun by then: of the recent context nothing is cited, and the imported
\* evidence it needs has to come from the search, the decisions or the skills.
THEOREM NowHasNoSlices ==
  ASSUME NEW db, NEW now \in Int, NEW title, NEW thread, NEW found,
         \A i \in DOMAIN db.slices : db.slices[i].start \in Int /\ db.slices[i].start < now
  PROVE  \A ref \in Evidence(db, DesktopNote(title, thread, now), found) :
           ref.kind # "context_slice"
<1>1. RecentSlices(db.slices, DesktopNote(title, thread, now)) = {}
  BY DEF RecentSlices, DesktopNote
<1>2. Cite("context_slice", db.slices, {}) = {}
  BY DEF Cite
<1>3. \A table, ids : \A ref \in Cite("memory_event", table, ids) : ref.kind = "memory_event"
  BY DEF Cite
<1>4. \A table, ids : \A ref \in Cite("decision", table, ids) : ref.kind = "decision"
  BY DEF Cite
<1>5. \A table, ids : \A ref \in Cite("skill", table, ids) : ref.kind = "skill"
  BY DEF Cite
<1> QED
  BY <1>1, <1>2, <1>3, <1>4, <1>5 DEF Evidence
=============================================================================

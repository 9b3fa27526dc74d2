------------------------------ MODULE RelayWire ------------------------------
(***************************************************************************)
(* What one request to the relay engine looks like on the wire: the        *)
(* messages as each crate declares them (relay-engine/src/proto and        *)
(* relay-client/src/proto are two hand-written copies), their encoding,    *)
(* the engine's handle_connection and the client that reads the answer.    *)
(* A message is the sequence of its fields by tag.  A value is a number:   *)
(* zero is what protocol buffers do not write (an empty text, no entry, no *)
(* result, false), anything else stands for itself.  Lengths are counted   *)
(* by the caller, as the size of a frame.                                  *)
(***************************************************************************)
EXTENDS Integers, Sequences

SessionKinds == {"dispatch", "status", "progress", "result", "interrupt"}
Kinds == SessionKinds \cup {"subscribe", "inference"}
MaxMessageSize == 1000000

FieldTypes == {"string", "int", "bool", "message", "repeated"}
WireType(type) == IF type \in {"int", "bool"} THEN "varint" ELSE "length"

\* The same in both crates: the requests and responses about sessions.
SessionMessages ==
  [request |-> [dispatch  |-> <<"string", "string", "string">>,
                status    |-> <<"string">>,
                progress  |-> <<"string">>,
                result    |-> <<"string">>,
                interrupt |-> <<"string">>],
   response |-> [dispatch  |-> <<"string", "int">>,
                 status    |-> <<"string", "int", "int", "int", "int">>,
                 progress  |-> <<"string", "repeated">>,
                 result    |-> <<"string", "message">>,
                 interrupt |-> <<"bool">>]]

\* what a subscriber is sent
ProgressEvent == <<"string", "int", "string", "int", "bool", "int">>

\* Of inference each crate has its own idea: the engine ...
EngineInference == [request  |-> <<"string", "string", "string", "int">>,
                    response |-> <<"string", "bool", "string", "string">>]

\* ... and the client
ClientInference == [request  |-> <<"string", "int">>,
                    response |-> <<"bool", "string", "string">>]

EngineType(part, kind) ==
  IF kind = "inference" THEN EngineInference[part] ELSE SessionMessages[part][kind]
ClientType(part, kind) ==
  IF kind = "inference" THEN ClientInference[part] ELSE SessionMessages[part][kind]

Messages(type) == [1 .. Len(type) -> Int]
\* a text is empty or not, a flag is zero or one
WellTyped(type, m) ==
  \A i \in 1 .. Len(type) :
    /\ WireType(type[i]) = "length" => m[i] >= 0
    /\ type[i] = "bool" => m[i] \in {0, 1}

Encode(type, m) ==
  { [tag |-> i, wire |-> WireType(type[i]), value |-> m[i]]
      : i \in { j \in 1 .. Len(type) : m[j] # 0 } }

\* prost refuses a field whose wire type is not that of its declaration, and
\* skips one it does not know
Decodes(type, fields) ==
  \A f \in fields : f.tag \in 1 .. Len(type) => f.wire = WireType(type[f.tag])

Truth(type, value) == IF type = "bool" /\ value # 0 THEN 1 ELSE value

Decode(type, fields) ==
  [i \in 1 .. Len(type) |->
     IF \E f \in fields : f.tag = i
       THEN Truth(type[i], (CHOOSE f \in fields : f.tag = i).value)
       ELSE 0]

----------------------------------------------------------------------------
\* The engine.  A frame has the size its header announces, the kind of its
\* first byte and the fields after it.

Frame(size, kind, fields) == [size |-> size, kind |-> kind, fields |-> fields]

\* send_request_to_stream
ClientFrame(size, kind, m) == Frame(size, kind, Encode(ClientType("request", kind), m))

\* build_error_response: a dispatch response, whatever was asked
ErrorResponse == Encode(EngineType("response", "dispatch"), <<0, -1>>)

\* handle_status, handle_progress and handle_result only read the table of
\* sessions; its times are in seconds
HandleStatus(table, id) ==
  IF id \in DOMAIN table
    THEN Encode(EngineType("response", "status"),
                <<id, table[id].status, table[id].started, table[id].updated,
                  table[id].updated - table[id].started>>)
    ELSE ErrorResponse

\* a session that is not there has no entries
HandleProgress(table, id) ==
  Encode(EngineType("response", "progress"),
         <<id, IF id \in DOMAIN table THEN table[id].entries ELSE 0>>)

HandleResult(table, id) ==
  IF id \in DOMAIN table /\ table[id].result # 0
    THEN Encode(EngineType("response", "result"), <<id, table[id].result>>)
    ELSE ErrorResponse

\* split_typed_request and the match on its kind: the request is understood
Understood(frame) ==
  /\ frame.kind \in SessionKinds \cup {"inference"}
  /\ Decodes(EngineType("request", frame.kind), frame.fields)

\* handle_connection: whether the connection is answered at all, and then with
\* what; "act" is the encoded answer of the handlers that change sessions or
\* ask a worker
Answered(frame) == frame.size <= MaxMessageSize

Handle(table, kind, id, act) ==
  CASE kind = "status"   -> HandleStatus(table, id)
    [] kind = "progress" -> HandleProgress(table, id)
    [] kind = "result"   -> HandleResult(table, id)
    [] OTHER             -> act

Respond(table, frame, act) ==
  IF Understood(frame)
    THEN Handle(table, frame.kind,
                Decode(EngineType("request", frame.kind), frame.fields)[1], act)
    ELSE ErrorResponse

\* handle_subscribe, on its own port: no answer, whatever comes
Subscribes(frame) ==
  /\ Answered(frame)
  /\ frame.kind = "subscribe"
  /\ Decodes(<<"string">>, frame.fields)

\* on_progress and on_terminal of the subscriber
OnProgress(id, time, message, level) ==
  Encode(ProgressEvent, <<id, time, message, level, 0, 0>>)
OnTerminal(id, time, message, status) ==
  Encode(ProgressEvent, <<id, time, message, 0, 1, status>>)

\* handle_dispatch and handle_interrupt: an agent that refuses leaves a failed
\* session behind; an interrupt says whether it was done
DispatchAnswer(id, status) == Encode(EngineType("response", "dispatch"), <<id, status>>)
InterruptAnswer(done) == Encode(EngineType("response", "interrupt"), <<IF done THEN 1 ELSE 0>>)
InferenceAnswer(m) == Encode(EngineType("response", "inference"), m)

----------------------------------------------------------------------------
\* The client: recv_response_from_stream, and what each call makes of it

ClientUnderstands(kind, fields) == Decodes(ClientType("response", kind), fields)
ClientReads(kind, fields) == Decode(ClientType("response", kind), fields)

\* dispatch returns the id and does not look at the status; interrupt whether
\* it was done; the others the message as it is
ClientReturns(kind, fields) ==
  IF kind \in {"dispatch", "interrupt"}
    THEN ClientReads(kind, fields)[1]
    ELSE ClientReads(kind, fields)

\* subscribe and recv_event
SubscribeFrame(size, id) == Frame(size, "subscribe", Encode(<<"string">>, <<id>>))
ClientHears(fields) == Decode(ProgressEvent, fields)

\* SessionStatus in both crates
Statuses == 0 .. 5

\* terminal_status_label and apply_progress_event of the desktop: what the
\* status it shows becomes with an event of the stream
TerminalLabel(status) ==
  CASE status = 1 -> "running"     [] status = 2 -> "waiting"
    [] status = 3 -> "completed"   [] status = 4 -> "failed"
    [] status = 5 -> "interrupted" [] OTHER -> "unknown"

ApplyEvent(shown, event) ==
  IF event[5] # 0 THEN TerminalLabel(event[6])
  ELSE IF shown \in {"dispatching", "connecting"} THEN "running"
  ELSE shown

\* send_inference_request_with_context and confirm_pending_task: what comes of
\* a confirmation; the answer's "success" is not looked at
BoxInference(fields) ==
  IF ClientUnderstands("inference", fields) THEN "dispatch the answer" ELSE "fall back"
=============================================================================

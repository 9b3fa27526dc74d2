--------------------------- MODULE MCRelayEngine ---------------------------
(* Small instances of RelayEngine for TLC. *)
EXTENDS RelayEngine, Integers, TLC

CONSTANTS s1, s2, p1, p2, c1, i1, i2

OneSession == {s1}
TwoSessions == {s1, s2}
OnePid == {p1}
TwoPids == {p1, p2}
OneClient == {c1}
NoClient == {}
OneInterrupt == {i1}
TwoInterrupts == {i1, i2}
BothStreams == {"stdout", "stderr"}
OneStream == {"stdout"}

(* Threads of the same kind are interchangeable in the safety runs. *)
Interchange == Permutations(TwoSessions) \cup Permutations(TwoPids)
                 \cup Permutations(TwoInterrupts)

(* The messages of RelayWire, on small values: they arrive as they were sent,
   a request for inference with a time limit does not, and no refusal is taken
   for success.  Algorithms_proofs has the same for every value. *)
Protocol == INSTANCE RelayWire

Small(type) == { m \in [1 .. Len(type) -> -1 .. 2] : Protocol!WellTyped(type, m) }
MessageTypes ==
  { Protocol!EngineType(part, kind) :
      part \in {"request", "response"}, kind \in Protocol!SessionKinds \cup {"inference"} }
  \cup { Protocol!ClientType(part, "inference") : part \in {"request", "response"} }
  \cup { Protocol!ProgressEvent }

ASSUME MessagesArrive ==
  \A type \in MessageTypes : \A m \in Small(type) :
    /\ Protocol!Decodes(type, Protocol!Encode(type, m))
    /\ Protocol!Decode(type, Protocol!Encode(type, m)) = m

ASSUME InferenceDoesNot ==
  \A m \in Small(Protocol!ClientInference.request) :
    m[2] # 0 => ~Protocol!Understood(Protocol!ClientFrame(1, "inference", m))

ASSUME RefusalsAreHeard ==
  \A kind \in Protocol!SessionKinds \cup {"inference"} :
    Protocol!ClientUnderstands(kind, Protocol!ErrorResponse) =>
      \/ kind = "status" /\ Protocol!ClientReads(kind, Protocol!ErrorResponse)[2] \notin Protocol!Statuses
      \/ kind \in {"dispatch", "interrupt"} /\ Protocol!ClientReturns(kind, Protocol!ErrorResponse) = 0
=============================================================================

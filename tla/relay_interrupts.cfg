SPECIFICATION Spec
CONSTANTS
    s1 = s1
    s2 = s2
    p1 = p1
    p2 = p2
    c1 = c1
    i1 = i1
    i2 = i2
    None = None
    Sessions <- TwoSessions
    Pids <- TwoPids
    Clients <- NoClient
    Streams <- OneStream
    Interrupts <- TwoInterrupts
    MaxLog = 1
    RecyclePids = FALSE
    SerialInterrupts = TRUE
INVARIANT InterruptReachesItsAgent
INVARIANT InterruptDecides
SYMMETRY Interchange
PROPERTY ImplementsLifecycle
INVARIANT EndedHasResult
INVARIANT NoStaleRegistration
PROPERTY ResultIsFinal

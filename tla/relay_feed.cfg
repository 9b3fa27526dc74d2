SPECIFICATION FairSpec
CONSTANTS
    s1 = s1
    s2 = s2
    p1 = p1
    p2 = p2
    c1 = c1
    i1 = i1
    i2 = i2
    None = None
    Sessions <- OneSession
    Pids <- OnePid
    Clients <- OneClient
    Streams <- BothStreams
    Interrupts <- OneInterrupt
    MaxLog = 2
    RecyclePids = FALSE
    SerialInterrupts = FALSE
INVARIANT TypeOK
INVARIANT NoEventLost
INVARIANT ToldFinishedCanFetch
PROPERTY EndIsReported
PROPERTY InterruptAnswered

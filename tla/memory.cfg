SPECIFICATION Spec
CONSTANTS
    t1 = t1
    t2 = t2
    e1 = e1
    a = a
    label = label
    None = None
    Threads <- TwoThreads
    Events <- OneEvent
    Contents <- OneContent
    Reasons <- OneReason
    Forbidden <- OneReason
    Jobs <- JobsOfEach
    MaxMemories = 2
    MaxFaults = 1
INVARIANT SupersededHasSuccessor
INVARIANT SuccessorReplaces
INVARIANT FeedbackIsTrue
INVARIANT RunningIsWorkedOn
INVARIANT RetryDoesNotDuplicate
PROPERTY ImplementsMemoryLifecycle

SPECIFICATION Spec
CONSTANTS
    c1 = c1
    c2 = c2
    Clicks <- NoClick
    Commands <- Demos
    SerialAnswers = FALSE
    MaxSuggestions = 1
    MaxSessions = 2
INVARIANT ShownRunningIsFollowed
INVARIANT WaitingIsFollowed

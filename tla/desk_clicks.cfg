SPECIFICATION Spec
CONSTANTS
    c1 = c1
    c2 = c2
    Clicks <- TwoClicks
    Commands <- AllAnswers
    SerialAnswers = TRUE
    MaxSuggestions = 1
    MaxSessions = 2
INVARIANT DispatchedOnce
INVARIANT TypeOK
SYMMETRY Interchange

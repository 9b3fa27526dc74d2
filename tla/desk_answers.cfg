SPECIFICATION Spec
CONSTANTS
    c1 = c1
    c2 = c2
    Clicks <- OneClick
    Commands <- Answers
    SerialAnswers = TRUE
    MaxSuggestions = 2
    MaxSessions = 2
INVARIANT AnsweredOneWay
INVARIANT NothingRunsUnconfirmed

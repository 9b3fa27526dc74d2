SPECIFICATION LiveSpec
CONSTANTS
    c1 = c1
    c2 = c2
    Clicks <- OneClick
    Commands <- MiniWindow
    SerialAnswers = FALSE
    MaxSuggestions = 1
    MaxSessions = 1
PROPERTY SuggestionDoesNotLinger
PROPERTY TaskReleasesLoop
PROPERTY ConfirmedIsTried

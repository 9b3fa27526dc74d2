SPECIFICATION Spec
CONSTANTS
    own = own
    defaults = defaults
    v1 = v1
    v2 = v2
    Choices <- TwoChoices
    Defaults = defaults
    Versions <- TwoVersions
    Checks <- TwoChecks
    MaxEdits = 1
    MaxRestarts = 1
INVARIANT ReminderIsTrue
PROPERTY LastKnownIsKept
PROPERTY SettingsReachLoop

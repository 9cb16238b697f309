\* Two operators replay the same message.
SPECIFICATION Spec
CONSTANTS
    Messages = {1}
    MaxAttemptsB = 2
    MaxAttemptsA = 2
    Operators = {o1, o2}
    MaxCrashes = 0
    MaxReplays = 2
    MonitorFails = FALSE
    LateArrivals = FALSE
PROPERTY OnlyDeadlettersAreReplayed

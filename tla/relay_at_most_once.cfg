\* Two messages, no crash or replay, session logs that tell the truth.
SPECIFICATION Spec
CONSTANTS
    Messages = {1, 2}
    MaxAttemptsB = 2
    MaxAttemptsA = 2
    Operators = {o1}
    MaxCrashes = 0
    MaxReplays = 0
    MonitorFails = FALSE
    LateArrivals = FALSE
INVARIANT AtMostOnce

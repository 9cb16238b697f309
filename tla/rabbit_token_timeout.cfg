\* One message and one late token; no other fault, no standalone consumer.
SPECIFICATION RabbitSpec
CONSTANTS
    Messages = {1}
    MaxAttemptsB = 1
    MaxAttemptsA = 1
    Operators = {o1}
    MaxCrashes = 0
    MaxReplays = 0
    MonitorFails = FALSE
    LateArrivals = FALSE
    MaxAdapterFaults = 1
    MaxPutBacks = 0
    MaxConsumerRuns = 0
    Views = {"own"}
INVARIANT NotDeletedBeforePassedOn

SPECIFICATION FairRabbitSpec
CONSTANTS
    Messages = {1}
    MaxAttemptsB = 2
    MaxAttemptsA = 1
    Operators = {o1}
    MaxCrashes = 0
    MaxReplays = 0
    MonitorFails = TRUE
    LateArrivals = TRUE
    MaxAdapterFaults = 0
    MaxPutBacks = 1
    MaxConsumerRuns = 1
    Views = {"none", "own", "lookalike"}
INVARIANTS
    FailuresAreBounded
PROPERTIES
    QueuedMovesOn
    FollowsLifecycle

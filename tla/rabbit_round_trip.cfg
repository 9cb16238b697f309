\* One message, one fault of every kind.
SPECIFICATION RabbitSpec
CONSTANTS
    Messages = {1}
    MaxAttemptsB = 2
    MaxAttemptsA = 2
    Operators = {o1}
    MaxCrashes = 1
    MaxReplays = 0
    MonitorFails = TRUE
    LateArrivals = FALSE
    MaxAdapterFaults = 1
    MaxPutBacks = 0
    MaxConsumerRuns = 0
    Views = {"own"}
INVARIANTS
    RabbitTypeOK
    QueuedIsCarried
    ReplyHasOrigin
    FailuresAreBounded
    RunsAreBounded
    GiveUpIsJustified
PROPERTIES
    FollowsLifecycle

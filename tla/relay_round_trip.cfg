\* One message in every combination of crashes, replays, lost requests, late
\* arrivals and unreadable session logs.
SPECIFICATION FairSpec
CONSTANTS
    Messages = {1}
    MaxAttemptsB = 2
    MaxAttemptsA = 2
    Operators = {o1}
    MaxCrashes = 1
    MaxReplays = 1
    MonitorFails = TRUE
    LateArrivals = TRUE
INVARIANTS
    TypeOK
    DoneIsDelivered
    ReplyFollowsRequest
    RetryBudget
    GiveUpIsJustified
    SendsAreBounded
PROPERTIES
    NoRedispatch
    ImplementsLifecycle
    EventuallySettled

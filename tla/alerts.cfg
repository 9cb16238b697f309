\* Two alerts, each a group of its own or both in one, a history of two, one failed
\* or late webhook and a crash.  The system may stop when nothing fires.
SPECIFICATION Spec
CONSTANTS
    Alerts = {"f", "g"}
    Groupings = {{{"f"}, {"g"}}, {{"f", "g"}}}
    MaxHistory = 2
    NumThreads = 2
    MaxChanges = 2
    MaxFaults = 1
    MaxCrashes = 1
INVARIANTS
    TypeOK
    NewestEntryDecides
    AcceptedIsSaved
PROPERTY EventuallyShown
CHECK_DEADLOCK FALSE

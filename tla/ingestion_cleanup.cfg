\* One file name used for two messages, and the cleanup command.
SPECIFICATION Spec
CONSTANTS
    Names = {1}
    Bodies = {"one", "other"}
    Keyed = {}
    KeyOf <- NoKeys
    MaxStamp = 2
    MaxFailures = 0
    MaxCrashes = 0
INVARIANT DeadletterKeepsArtifact

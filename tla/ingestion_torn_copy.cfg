\* One file and one crash.
SPECIFICATION Spec
CONSTANTS
    Names = {1}
    Bodies = {"plain"}
    Keyed = {}
    KeyOf <- NoKeys
    MaxStamp = 1
    MaxFailures = 0
    MaxCrashes = 1
INVARIANT ArtifactIsComplete

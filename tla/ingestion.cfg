\* Two writes of files, under two names or under one, one content with a key and
\* one without: a crash, a failure of the disk, duplicates, expiry, cleanup.
SPECIFICATION FairSpec
CONSTANTS
    Names = {1, 2}
    Bodies = {"keyed", "plain"}
    Keyed = {"keyed"}
    KeyOf <- MCKeyOf
    MaxStamp = 2
    MaxFailures = 1
    MaxCrashes = 1
INVARIANTS
    TypeOK
    ReservedHasArtifact
    RowIsCarried
    ArtifactIsTheMessage
PROPERTIES
    CompletedOnce
    ClaimIsConcluded

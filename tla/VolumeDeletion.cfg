SPECIFICATION FairSpec

CONSTANTS
    Volumes = {v}
    UserDeletes = {"Available"}
    MaxIncarnations = 2
    MaxRestarts = 1

INVARIANTS
    NeverCleansLive
    PublishedClean
    BoundKeepsSymlink
PROPERTIES
    BoundNeverVanishes
    RetainKeepsData
    OwnerGoes
CHECK_DEADLOCK FALSE

SPECIFICATION FairSpec

CONSTANTS
    Nodes = {n1, n2}
    MaxEdits = 2
    MaxFails = 2
    MaxLosses = 1

INVARIANTS
    StatusCurrent
    DaemonHasResult
PROPERTIES
    SelectionApplied
    OrphansGo

CHECK_DEADLOCK FALSE

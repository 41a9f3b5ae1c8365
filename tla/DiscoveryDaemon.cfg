SPECIFICATION FairSpec

CONSTANTS
    d = d
    e = e
    m = m
    Devices = {d, e, m}
    Fixed = {e}
    NoResult = NoResult
    Excluded = {m}
    MaxChanges = 3
    MaxFails = 1
    MaxRestarts = 1
    MaxDeletes = 1

INVARIANTS
    NoEventLost
PROPERTIES
    ResultCurrent

CHECK_DEADLOCK FALSE

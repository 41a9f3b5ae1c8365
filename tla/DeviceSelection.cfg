SPECIFICATION FairSpec

CONSTANTS
    Nil = Nil
    d1 = d1
    d2 = d2
    small = small
    s1 = s1
    s2 = s2
    sda = sda
    sdb = sdb
    Disks = {d1, d2}
    KNames = {sda, sdb}
    Sets = {s1, s2}
    DefaultMinSize = 2
    Attributes <- MCAttributes
    InclusionSpec <- MCInclusionSpec
    DeviceNameFilter <- MCDeviceNameFilter
    MaxDeviceCount <- MCMaxDeviceCount
    MinAge = 0
    MaxDetach = 1
    MaxUses = 1
    MaxRestarts = 1

INVARIANTS
    CountRespected
PROPERTIES
    ClaimsOnlyFree
    AgedBeforeClaim
    UsableClaimed

CHECK_DEADLOCK FALSE

SPECIFICATION FairSpec

CONSTANTS
    l = l
    s = s
    n1 = n1
    n2 = n2
    c = c
    x = x
    y = y
    Nil = Nil
    old = old
    prov = prov
    LVs = {l}
    Sets = {s}
    Nodes = {n1, n2}
    Specs <- OneOrAll
    Modes = {x, y}
    ClassOf <- OneClass
    Old = {prov}
    OldProvisioner = prov
    MaxChanges = 3
    MayRestart = TRUE
    MaxFails = 1

CONSTRAINT FewerIfFailed

INVARIANTS
    RunsWhereSelected
    ConfigCurrent
    OwnedByAll
    ProvisionerGoneFirst
PROPERTIES
    ComesToRest

CHECK_DEADLOCK FALSE

SPECIFICATION Spec

CONSTANTS
    l = l
    s = s
    a = a
    b = b
    c = c
    LVs = {l}
    Sets = {s}
    Classes = {a, b, c}
    Wants <- OwnClasses
    MaxGen = 2
    MaxFails = 1
    MaxCrash = 1

CONSTRAINT OneFault

INVARIANTS
    ReadyHasClasses
    LVLeavesNoClass
    NoneForgotten

CHECK_DEADLOCK FALSE

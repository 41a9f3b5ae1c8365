SPECIFICATION Spec

CONSTANTS
    Nil = Nil
    DefaultMinSize = 2
    MaxRows = 4
    MiB = 4
    GiB = 16
    MaxBytes = 600

INVARIANTS
    JudgementsAgree
    LastRowOfEach
    LosesLessThanTenth

CHECK_DEADLOCK FALSE

SPECIFICATION Spec
CONSTANTS
    Absent = Absent
    Names = {local, foreign}
    LocalNames = {local}
    Targets = {wwn, scsi}
    Relists = TRUE
    MaxWrites = 4
    MaxRestarts = 1
INVARIANTS
    OneVersion
    ExactUnlessRaced
    FullyPopulated
CHECK_DEADLOCK FALSE

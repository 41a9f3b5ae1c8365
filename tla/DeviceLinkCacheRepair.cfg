SPECIFICATION Spec
CONSTANTS
    Absent = Absent
    Names = {local}
    LocalNames = {local}
    Targets = {wwn, scsi}
    Relists = TRUE
    MaxWrites = 4
    MaxRestarts = 1
PROPERTIES
    EventuallyComplete
CHECK_DEADLOCK FALSE

SPECIFICATION Spec
CONSTANTS
    d1 = d1
    d2 = d2
    wwn = wwn
    scsi = scsi
    ata = ata
    nvme = nvme
    NoId = NoId
    NoLVDL = NoLVDL
    Devices = {d1, d2}
    Ids = {wwn, scsi, nvme}
    OwnerOf <- TwoDevices
    Rank <- MCRank
    CrashPoints <- Repeatable
    FailPoints <- Retried
    MaxUdev = 2
    MaxPolicy = 1
    MaxFaults = 1
PROPERTIES
    EventuallySettled
CHECK_DEADLOCK FALSE

SPECIFICATION Spec
CONSTANTS
    d1 = d1
    d2 = d2
    wwn = wwn
    scsi = scsi
    ata = ata
    nvme = nvme
    NoId = NoId
    NoLVDL = NoLVDL
    Devices = {d1, d2}
    Ids = {wwn, scsi, ata, nvme}
    OwnerOf <- ThreeLinks
    Rank <- ThreeLinksRank
    CrashPoints <- OutsideSwap
    FailPoints <- Working
    MaxUdev = 3
    MaxPolicy = 1
    MaxFaults = 1
INVARIANTS
    SymlinkKeepsDevice
    OnePVPerDevice
PROPERTIES
    SymlinkNeverVanishes
CHECK_DEADLOCK FALSE

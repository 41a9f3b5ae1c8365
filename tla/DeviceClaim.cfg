SPECIFICATION Spec
CONSTANTS
    d1 = d1
    d2 = d2
    n1 = n1
    n2 = n2
    fast = fast
    slow = slow
    lv = lv
    lvset = lvset
    NoOne = NoOne
    NoPath = NoPath
    Kubelet = Kubelet
    Devices = {d1, d2}
    Names = {n1, n2}
    DeviceOf <- TwoDevices
    Preferred <- TwoDevicesPreferred
    Classes = {fast, slow}
    LVs = {lv}
    LVSets = {lvset}
    ClassesOf <- OwnClasses
    FindErrors = {FALSE}
INVARIANTS
    TypeOK
    AtMostOneClaim
    LivePVHasSymlink
PROPERTIES
    NeverClaimMounted
    ImplementsVolumes

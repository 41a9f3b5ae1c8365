----------------------------- MODULE MCOperators -----------------------------
(***************************************************************************)
(* Every device that the judgements tell apart, every list of up to        *)
(* MaxRows rows, and every capacity up to MaxBytes, as the states of a     *)
(* specification.                                                          *)
(***************************************************************************)
EXTENDS DeviceMatching, DeviceList, CapacityRounding

CONSTANT MaxRows  \* bound: rows of a list

VARIABLES dev, sample

vars == <<dev, sample, capacityBytes>>

Bits == {"0", "1", "", "?"}
Checks == {"0", "1", "?"}
Sizes == {Nil, DefaultMinSize - 1, DefaultMinSize}
Devices ==
    [ro : Bits, rm : Bits, rota : {"0"}, mounted : Checks, children : Checks, open : Checks,
     fsType : BOOLEAN, suspended : BOOLEAN, boot : BOOLEAN, size : Sizes,
     vendor : {{}}, model : {{}}, kname : {"sda"},
     type : {"disk", "part", "lvm", "mpath", "loop", "rom"}]
Plain ==
    [ro |-> "0", rm |-> "0", rota |-> "0", mounted |-> "0", children |-> "0", open |-> "1",
     fsType |-> FALSE, suspended |-> FALSE, boot |-> FALSE, size |-> DefaultMinSize,
     vendor |-> {}, model |-> {}, kname |-> "sda", type |-> "disk"]
NoSpec == [types |-> {}, mechanical |-> {}, minSize |-> Nil, maxSize |-> Nil,
           vendors |-> {}, models |-> {}]

Rows == [id : {"", "id1"}, path : {"sda", "sdb"}, state : {"Available", "NotAvailable"}]

Init == dev \in Devices /\ sample = <<>> /\ CapacityInit

\* Lists are built, and capacities grow, for one of the devices.
Row ==
    /\ Len(sample) < MaxRows
    /\ dev = Plain /\ capacityBytes = 0
    /\ \E v \in Rows : sample' = Append(sample, v)
    /\ UNCHANGED <<dev, capacityBytes>>

Capacity ==
    /\ Grow
    /\ dev = Plain /\ sample = <<>>
    /\ UNCHANGED <<dev, sample>>

Next == Row \/ Capacity

Spec == Init /\ [][Next]_vars

-----------------------------------------------------------------------------
(* The three lists of checks agree.  A device that discovery reports as      *)
(* Available, and that is not removable, passes every filter of the          *)
(* LocalVolumeSets and is not ignored by the LocalVolumes; and a device of a *)
(* reported type that a LocalVolumeSet may use is reported as Available.     *)
JudgementsAgree ==
    /\ Available(dev) /\ IsFalse(dev.rm) => Passes(dev) /\ ~LVIgnores(dev)
    /\ Passes(dev) /\ dev.type \in SupportedTypes => Available(dev)

(* uniqueDevices returns each pair of id and path of the rows once, which is *)
(* the key in the code, with the state of its last row; a row with another   *)
(* path or another id never takes its place.                                 *)
LastRowOfEach ==
    LET unique == uniqueDevices(sample)
    IN /\ \A i, j \in DOMAIN unique : Key(unique[i]) = Key(unique[j]) => i = j
       /\ \A i \in DOMAIN sample :
              (\A j \in i + 1..Len(sample) : Key(sample[j]) # Key(sample[i]))
                  => \E n \in DOMAIN unique : unique[n] = sample[i]
       /\ Len(unique) = Cardinality({Key(sample[i]) : i \in DOMAIN sample})

-----------------------------------------------------------------------------
(* What the documents say, and what the code does not do.                    *)

(* The devices that discovery reports are not removable.                     *)
ReportedNotRemovable == Reported(dev) => ~IsTrue(dev.rm)

(* Discovery lists no id twice: the comment of uniqueDevices says that rows  *)
(* are merged "using DeviceID as a key".                                     *)
OneRowPerID ==
    LET unique == uniqueDevices(sample)
    IN \A i, j \in DOMAIN unique : unique[i].id = unique[j].id /\ unique[i].id # "" => i = j

(* A device below the default minimum size is not matched by a LocalVolumeSet*)
(* that gives no minimum size.                                               *)
DefaultMinSizeApplies ==
    \A spec \in {Nil, NoSpec} :
        matchesDeviceSpec(dev, spec, {}) => dev.size # Nil /\ dev.size >= DefaultMinSize
=============================================================================

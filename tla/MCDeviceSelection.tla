-------------------------- MODULE MCDeviceSelection --------------------------
(***************************************************************************)
(* Two or three disks, of which the last is small, and two sets: one takes *)
(* any disk that is large enough but no more than one, the other, without  *)
(* an inclusion spec, any disk not named sdb.                              *)
(***************************************************************************)
EXTENDS DeviceSelection

CONSTANTS d1, d2, small, s1, s2, sda, sdb

Disk(size) ==
    [ro |-> "0", rm |-> "0", rota |-> "0", mounted |-> "0", children |-> "0", open |-> "1",
     fsType |-> FALSE, suspended |-> FALSE, boot |-> FALSE, size |-> size,
     vendor |-> {"ata"}, model |-> {}, kname |-> Nil, type |-> "disk"]

MCAttributes == [d \in Disks |-> Disk(IF d = small THEN 1 ELSE 4)]
MCInclusionSpec ==
    [s \in Sets |->
        IF s = s1 THEN [types |-> {"disk", "part"}, mechanical |-> {"NonRotational"},
                        minSize |-> Nil, maxSize |-> 5, vendors |-> {"ata", "nvme"}, models |-> {}]
        ELSE Nil]
MCDeviceNameFilter == [s \in Sets |-> IF s = s1 THEN {} ELSE {{sdb}}]
MCMaxDeviceCount == [s \in Sets |-> IF s = s1 THEN 1 ELSE Nil]
=============================================================================

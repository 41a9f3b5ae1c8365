-------------------------- MODULE ExclusiveVolumes --------------------------
(***************************************************************************)
(* What the diskmaker promises about one node, without locks, steps or     *)
(* failures: a device is claimed by at most one symlink path, a PV is      *)
(* published only on a claimed path, and the claim outlives the PV.        *)
(***************************************************************************)
CONSTANTS Devices, Paths, Target   \* Target: the device of a path

VARIABLES
    claims,   \* the paths that claim each device
    live      \* the paths with a PV that nobody deleted

Init ==
    /\ claims = [d \in Devices |-> {}]
    /\ live = {}

Claim(p) ==
    /\ claims[Target[p]] = {}
    /\ claims' = [claims EXCEPT ![Target[p]] = {p}]
    /\ UNCHANGED live

Release(p) ==
    /\ p \notin live
    /\ claims[Target[p]] = {p}
    /\ claims' = [claims EXCEPT ![Target[p]] = {}]
    /\ UNCHANGED live

Publish(p) ==
    /\ claims[Target[p]] = {p}
    /\ live' = live \cup {p}
    /\ UNCHANGED claims

Retire(p) ==
    /\ live' = live \ {p}
    /\ UNCHANGED claims

Next == \E p \in Paths : Claim(p) \/ Release(p) \/ Publish(p) \/ Retire(p)

Spec == Init /\ [][Next]_<<claims, live>>
=============================================================================

--------------------------- MODULE DeviceSelection ---------------------------
(***************************************************************************)
(* How the diskmaker of one node picks the devices of its LocalVolumeSets. *)
(* A Reconcile lists the block devices, matches and filters them, passes   *)
(* over those it has not known for deviceMinAge, and gives the others a    *)
(* symlink until MaxDeviceCount is reached.  Meanwhile disks come and go,  *)
(* under kernel names that are used again, and others start to use them.   *)
(*                                                                         *)
(* Symlinks are by id: they lead to a disk and not to a name.  Claiming a  *)
(* disk is one step; DeviceClaim has its details, SymlinkRecreation what   *)
(* happens to disks whose id changes.  One worker serves all sets.         *)
(***************************************************************************)
EXTENDS DeviceMatching, FiniteSets

CONSTANTS
    Disks, KNames, Sets,
    Attributes,         \* the device that lsblk shows for each disk
    InclusionSpec,      \* of each set; Nil if it has none
    DeviceNameFilter,   \* of each set: its patterns
    MaxDeviceCount,     \* of each set; Nil if there is no limit
    MinAge,             \* deviceMinAge, in ticks
    MaxDetach, MaxUses, MaxRestarts  \* bounds: such events; restarts or failed calls

ASSUME SelectionConstants ==
    /\ IsFiniteSet(Disks) /\ Nil \notin Disks \cup KNames \cup Sets /\ MinAge \in Nat
    /\ \A d \in Disks : DOMAIN Attributes[d] = Fields
    /\ {MaxDetach, MaxUses, MaxRestarts} \subseteq Nat
    /\ \A s \in Sets : MaxDeviceCount[s] = Nil \/ MaxDeviceCount[s] \in Nat

VARIABLES
    at,       \* the kernel name of each disk, Nil if it is not attached
    use,      \* who uses it: nobody, a file system on it, an exclusive opener
    aged,     \* how long it has been attached (history)
    seen,     \* deviceAgeMap: how long each kernel name has been known
    links,    \* the disks with a symlink in the directory of each set
    pc, set, rows, signed, valid, delayed, \* the Reconcile
    undisturbed, \* no disk changed since the Reconcile listed them (history)
    detached, uses, restarts

bounds == <<detached, uses, restarts>>
vars == <<at, use, aged, seen, links, pc, set, rows, signed, valid, delayed, undisturbed, bounds>>

Old == MinAge + 1
Ages == 0..Old

TypeOK ==
    /\ at \in [Disks -> KNames \cup {Nil}]
    /\ \A d, e \in Disks : at[d] = at[e] /\ at[d] # Nil => d = e
    /\ use \in [Disks -> {"free", "signed", "open"}]
    /\ aged \in [Disks -> Ages]
    /\ seen \in [KNames -> Ages \cup {Nil}]
    /\ links \in [Sets -> SUBSET Disks]
    /\ pc \in {"idle", "listed", "process"} /\ set \in Sets \cup {Nil}
    /\ rows \in [KNames -> Disks \cup {Nil}] /\ signed \subseteq Disks
    /\ valid \subseteq KNames /\ delayed \subseteq KNames /\ valid \cap delayed = {}
    /\ undisturbed \in BOOLEAN
    /\ detached \in 0..MaxDetach /\ uses \in 0..MaxUses /\ restarts \in 0..MaxRestarts

Live(k) == IF \E d \in Disks : at[d] = k THEN CHOOSE d \in Disks : at[d] = k ELSE Nil

Init ==
    /\ at \in [Disks -> KNames \cup {Nil}]
    /\ \A d, e \in Disks : at[d] = at[e] /\ at[d] # Nil => d = e
    /\ use = [d \in Disks |-> "free"] /\ aged = [d \in Disks |-> 0]
    /\ seen = [k \in KNames |-> Nil]
    /\ links = [s \in Sets |-> {}]
    /\ pc = "idle" /\ set = Nil /\ rows = [k \in KNames |-> Nil] /\ signed = {}
    /\ valid = {} /\ delayed = {}
    /\ undisturbed = TRUE /\ detached = 0 /\ uses = 0 /\ restarts = 0

-----------------------------------------------------------------------------
(* The node.                                                               *)

Disturb == undisturbed' = (pc = "idle")
reconcileVars == <<seen, links, pc, set, rows, signed, valid, delayed>>

Attach(d, k) ==
    /\ Disturb /\ at[d] = Nil /\ Live(k) = Nil
    /\ at' = [at EXCEPT ![d] = k]
    /\ UNCHANGED <<use, aged, reconcileVars, bounds>>

Detach(d) ==
    /\ Disturb /\ at[d] # Nil /\ detached < MaxDetach
    /\ at' = [at EXCEPT ![d] = Nil] /\ aged' = [aged EXCEPT ![d] = 0] /\ detached' = detached + 1
    /\ use' = [use EXCEPT ![d] = IF @ = "open" THEN "free" ELSE @]
    /\ UNCHANGED <<reconcileVars, uses, restarts>>

UseDisk(d) ==
    /\ Disturb /\ at[d] # Nil /\ uses < MaxUses
    /\ \E u \in {"free", "signed", "open"} \ {use[d]} : use' = [use EXCEPT ![d] = u]
    /\ uses' = uses + 1
    /\ UNCHANGED <<at, aged, reconcileVars, detached, restarts>>

Older(age) == IF age < Old THEN age + 1 ELSE age

Tick ==
    /\ aged' = [d \in Disks |-> IF at[d] = Nil THEN 0 ELSE Older(aged[d])]
    /\ seen' = [k \in KNames |-> IF seen[k] = Nil THEN Nil ELSE Older(seen[k])]
    /\ UNCHANGED <<at, use, links, pc, set, rows, signed, valid, delayed, undisturbed, bounds>>

Idle ==
    /\ pc' = "idle" /\ set' = Nil /\ rows' = [k \in KNames |-> Nil] /\ signed' = {}
    /\ delayed' = {} /\ undisturbed' = TRUE

\* The ages are in the memory of the process.
Restart ==
    /\ restarts < MaxRestarts /\ restarts' = restarts + 1
    /\ seen' = [k \in KNames |-> Nil]
    /\ Idle /\ valid' = {}
    /\ UNCHANGED <<at, use, aged, links, detached, uses>>

-----------------------------------------------------------------------------
(* Reconcile of a set.                                                     *)

\* lsblk and blkid: the disks, and which of them have a signature.  If one of them
\* fails Reconcile returns and has changed nothing.
ListBlockDevices(s) ==
    /\ pc = "idle"
    /\ set' = s /\ rows' = [k \in KNames |-> Live(k)]
    /\ signed' = {d \in Disks : use[d] = "signed"}
    /\ pc' = "listed" /\ undisturbed' = TRUE
    /\ UNCHANGED <<at, use, aged, seen, links, valid, delayed, bounds>>

\* The row of a name, with what the filters find under the name now.
BlockDevice(k) ==
    [Attributes[rows[k]] EXCEPT
        !.kname = k,
        !.fsType = rows[k] \in signed,
        !.open = IF Live(k) = Nil THEN "?" ELSE IF use[Live(k)] = "open" THEN "0" ELSE "1"]

Matched ==
    {k \in KNames : rows[k] # Nil
        /\ matchesDeviceSpec(BlockDevice(k), InclusionSpec[set], DeviceNameFilter[set])}

\* Mutant: the minimum age itself is enough.
isAsOldAs(k) == seen[k] # Nil /\ seen[k] >= MinAge

isOlderThan(k) == seen[k] # Nil /\ seen[k] > MinAge

\* Mutant: the first sight is stored again.
storeAgeAgain == seen' = [k \in KNames |-> IF k \in Matched THEN 0 ELSE seen[k]]

storeDeviceAge ==
    seen' = [k \in KNames |-> IF k \in Matched /\ seen[k] = Nil THEN 0 ELSE seen[k]]

\* Mutant: the filters are not applied.
getDevicesUnfiltered ==
    /\ pc = "listed"
    /\ storeDeviceAge
    /\ valid' = {k \in Matched : isOlderThan(k)}
    /\ delayed' = {k \in Matched : ~isOlderThan(k)}
    /\ pc' = "process"
    /\ UNCHANGED <<at, use, aged, links, set, rows, signed, undisturbed, bounds>>

getValidDevices ==
    /\ pc = "listed"
    /\ storeDeviceAge
    /\ valid' = {k \in Matched : Passes(BlockDevice(k)) /\ isOlderThan(k)}
    /\ delayed' = {k \in Matched : Passes(BlockDevice(k)) /\ ~isOlderThan(k)}
    /\ pc' = "process"
    /\ UNCHANGED <<at, use, aged, links, set, rows, signed, undisturbed, bounds>>

\* The symlinks that lead to a name that was listed.
getAlreadySymlinked(s) == Cardinality({d \in links[s] : at[d] # Nil /\ rows[at[d]] # Nil})

\* Mutant: one more than the limit.
MaxCountExceeded ==
    MaxDeviceCount[set] # Nil /\ getAlreadySymlinked(set) > MaxDeviceCount[set]

MaxCountReached ==
    MaxDeviceCount[set] # Nil /\ getAlreadySymlinked(set) >= MaxDeviceCount[set]

HasSymlink(k) == Live(k) # Nil /\ Live(k) \in links[set]

Claimed(k) ==
    \/ Live(k) = Nil \/ use[Live(k)] = "open"
    \/ \E s \in Sets : Live(k) \in links[s]

\* A device with a symlink of this set only has its volume brought up to date; at
\* the limit the others are left.
ProcessDevice(k) ==
    /\ pc = "process" /\ k \in valid
    /\ \/ /\ HasSymlink(k)
          /\ valid' = valid \ {k} /\ links' = links
       \/ /\ ~HasSymlink(k) /\ MaxCountReached
          /\ valid' = {} /\ links' = links
       \/ /\ ~HasSymlink(k) /\ ~MaxCountReached
          /\ valid' = valid \ {k}
          /\ links' = IF Claimed(k) THEN links
                      ELSE [links EXCEPT ![set] = @ \cup {Live(k)}]
    /\ UNCHANGED <<at, use, aged, seen, pc, set, rows, signed, delayed, undisturbed, bounds>>

\* The request comes back after a time that depends on the delayed devices.
RequeueAfter == IF Cardinality(delayed) > 1 THEN "half" ELSE "default"

Requeue ==
    /\ pc = "process" /\ valid = {}
    /\ Idle
    /\ UNCHANGED <<at, use, aged, seen, links, valid, bounds>>

\* The mounts cannot be read, or processNewSymlink returns an error: Reconcile ends,
\* and the ages that were stored stay.
ReconcileFails ==
    /\ pc = "process" /\ restarts < MaxRestarts /\ restarts' = restarts + 1
    /\ Idle /\ valid' = {}
    /\ UNCHANGED <<at, use, aged, seen, links, detached, uses>>

Process == getValidDevices \/ Requeue \/ \E k \in KNames : ProcessDevice(k)

Next ==
    \/ \E d \in Disks : Detach(d) \/ UseDisk(d) \/ \E k \in KNames : Attach(d, k)
    \/ Tick \/ Restart \/ ReconcileFails \/ Process
    \/ \E s \in Sets : ListBlockDevices(s)

Spec == Init /\ [][Next]_vars

(* Every set comes back to the head of the queue, a Reconcile goes on, and   *)
(* time passes.                                                              *)
Fairness ==
    /\ WF_vars(Tick) /\ WF_vars(Process)
    /\ \A s \in Sets : SF_vars(ListBlockDevices(s))

FairSpec == Spec /\ Fairness

-----------------------------------------------------------------------------
Claims(s, d) == d \in links'[s] \ links[s]

Matches(s, d) ==
    matchesDeviceSpec([Attributes[d] EXCEPT !.kname = at[d]], InclusionSpec[s], DeviceNameFilter[s])

(* A disk that gets a symlink is one that the set asks for and that nobody   *)
(* uses, if nothing changed since the disks were listed: names that are used *)
(* again between the listings do not deceive getValidDevices.                *)
ClaimsOnlyFree ==
    [][\A s \in Sets, d \in Disks :
         Claims(s, d) /\ undisturbed => Matches(s, d) /\ use[d] = "free"]_links

(* While no disk was detached, a disk gets a symlink only when it has been   *)
(* attached for deviceMinAge.                                                *)
AgedBeforeClaim ==
    [][\A s \in Sets, d \in Disks : Claims(s, d) /\ detached = 0 => aged[d] > MinAge]_links

InCount(s) ==
    \/ MaxDeviceCount[s] = Nil
    \/ Cardinality({d \in links[s] : at[d] # Nil}) <= MaxDeviceCount[s]

(* While no disk was detached, no more disks of the node have symlinks of a  *)
(* set than MaxDeviceCount.                                                  *)
CountRespected == detached = 0 => \A s \in Sets : InCount(s)

(* In the end every disk that stays, matches a set and is free has a symlink *)
(* unless the set has reached its limit.                                     *)
UsableClaimed ==
    <>[](\A d \in Disks :
            at[d] # Nil /\ use[d] = "free" /\ (\A s \in Sets : d \notin links[s]) =>
                \A s \in Sets :
                    \/ /\ MaxDeviceCount[s] # Nil
                       /\ Cardinality({e \in links[s] : at[e] # Nil}) >= MaxDeviceCount[s]
                    \/ ~(Matches(s, d) /\ Passes(Attributes[d])))

-----------------------------------------------------------------------------
(* What the comments and the API say, and what the code does not do.         *)

(* The same with disks that change while a Reconcile runs, ...               *)
ClaimsOnlyFreeAlways ==
    [][\A s \in Sets, d \in Disks : Claims(s, d) => Matches(s, d) /\ use[d] = "free"]_links

(* ... and with disks that are detached and come back.                       *)
AgedBeforeClaimAlways ==
    [][\A s \in Sets, d \in Disks : Claims(s, d) => aged[d] > MinAge]_links

CountAlwaysRespected == \A s \in Sets : InCount(s)

(* When there are delayed devices, the request comes back in half the time.  *)
DelayedComeBackSoon == pc = "process" /\ delayed # {} => RequeueAfter = "half"
=============================================================================

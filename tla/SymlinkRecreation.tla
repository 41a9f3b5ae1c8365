------------------------- MODULE SymlinkRecreation -------------------------
(***************************************************************************)
(* How the diskmaker follows a device whose /dev/disk/by-id links change.  *)
(*                                                                         *)
(* A PV's path is a symlink in the directory of its storage class, named   *)
(* after the by-id link the device had when the PV was created.  Its       *)
(* LocalVolumeDeviceLink (LVDL) records the target of that symlink and all *)
(* by-id links of the device.  When the symlink dangles, the LVDL cache    *)
(* leads from the device's new by-id link back to the old PV; under the    *)
(* PreferredLinkTarget policy the symlink is then replaced, by creating    *)
(* <path>.tmp and renaming it.                                             *)
(*                                                                         *)
(* One storage class and one reconciler, which takes one device at a time. *)
(* A by-id link belongs to one device for ever, but comes and goes.        *)
(***************************************************************************)
EXTENDS Naturals, FiniteSets

CONSTANTS
    Devices,
    Ids,          \* base names of by-id links
    OwnerOf,      \* the device a by-id link belongs to
    Rank,         \* order of preference: preferredPatterns, then the name
    NoId,         \* no link, no target
    NoLVDL,       \* the LVDL does not exist
    CrashPoints,  \* steps at which the diskmaker may be killed
    FailPoints,   \* steps at which a call may fail
    MaxUdev,      \* bound on changes of /dev/disk/by-id
    MaxPolicy,    \* bound on policy changes by users
    MaxFaults     \* bound on crashes and failed calls

\* <<id, FALSE>> is the path <dir>/<id>, <<id, TRUE>> is <dir>/<id>.tmp
Paths == Ids \X BOOLEAN
Tmp(p) == <<p[1], TRUE>>

LVDLs == [policy : {"None", "PreferredLinkTarget"}, current : Ids \cup {NoId},
          valid : SUBSET Ids, failed : BOOLEAN]

Steps == {"idle", "find", "check", "tmp", "rename", "status", "pv", "apply", "update"}

ASSUME RecreationAssumption ==
    /\ OwnerOf \in [Ids -> Devices]
    /\ Rank \in [Ids -> Nat]
    /\ \A i, j \in Ids : Rank[i] = Rank[j] => i = j
    /\ NoId \notin Ids
    /\ NoLVDL \notin LVDLs
    /\ CrashPoints \cup FailPoints \subseteq Steps
    /\ {MaxUdev, MaxPolicy, MaxFaults} \subseteq Nat

VARIABLES
    present,  \* the by-id links udev shows now
    link,     \* target of each symlink in the storage class directory
    pvs,      \* paths that have a PV
    lvdl,     \* LVDL of each path, in the API server
    cache,    \* the same, in LocalVolumeDeviceLinkCache
    pc,       \* step of the reconciler
    job,      \* its local variables
    budget    \* udev changes, policy changes and faults so far

vars == <<present, link, pvs, lvdl, cache, pc, job, budget>>

\* dev, path: device and symlink path at hand; inUse: the device is mounted;
\* seen: the LVDL as read; target: the symlink target read or wanted
Jobs == [dev : Devices, path : Paths, inUse : BOOLEAN,
         seen : LVDLs \cup {NoLVDL}, target : Ids \cup {NoId}]

\* The type invariant.
TypeOK ==
    /\ present \subseteq Ids
    /\ link \in [Paths -> Ids \cup {NoId}]
    /\ pvs \subseteq Paths
    /\ lvdl \in [Paths -> LVDLs \cup {NoLVDL}]
    /\ cache \in [Paths -> LVDLs \cup {NoLVDL}]
    /\ pc \in Steps
    /\ IF pc = "idle" THEN job = <<>> ELSE job \in Jobs
    /\ budget \in [udev : 0..MaxUdev, policy : 0..MaxPolicy, faults : 0..MaxFaults]

Init ==
    /\ present \in SUBSET Ids
    /\ link = [p \in Paths |-> NoId]
    /\ pvs = {}
    /\ lvdl = [p \in Paths |-> NoLVDL]
    /\ cache = lvdl
    /\ pc = "idle"
    /\ job = <<>>
    /\ budget = [udev |-> 0, policy |-> 0, faults |-> 0]

-----------------------------------------------------------------------------
(* Devices and links                                                       *)

\* GetValidByIDSymlinks
ValidIds(d) == {i \in present : OwnerOf[i] = d}

\* GetPathByID, GetUncachedPathID: the best by-id link, NoId if there is none.
Best(ids) == IF ids = {} THEN NoId
             ELSE CHOOSE i \in ids : \A j \in ids : Rank[i] <= Rank[j]

\* Mutant: the device a by-id link resolves to is not compared.
AnyPathByID(d) == Best(present)

PathByID(d) == Best(ValidIds(d))

Resolves(p) == link[p] \in present

\* The symlinks of the storage class that resolve to the device.
Matching(d) == {p \in Paths : Resolves(p) /\ OwnerOf[link[p]] = d}

\* GetSymlinkedForCurrentSC returns the first match in glob order, in which
\* <name>.tmp follows <name>.
Existing(d) == {p \in Matching(d) : p[2] => <<p[1], FALSE>> \notin Matching(d)}

\* FindLSOManagedDeviceInfo: LVDLs indexed under the link at hand or, if
\* there are none, under any link of the device.
Indexed(ids) == {p \in Paths : cache[p] # NoLVDL /\ cache[p].valid \cap ids # {}}

\* Mutant: the sibling links of the device are not tried.
LSOManagedDirectly(id, d) == Indexed({id})

LSOManaged(id, d) ==
    LET direct == Indexed({id})
    IN  IF direct # {} THEN direct ELSE Indexed(ValidIds(d))

\* Mutant: a target that still resolves is good enough.
MismatchIfDangling(l, d) ==
    /\ l # NoLVDL
    /\ l.policy = "PreferredLinkTarget"
    /\ PathByID(d) # NoId
    /\ l.current \notin present

\* HasMismatchingSymlink
Mismatch(l, d) ==
    /\ l # NoLVDL
    /\ l.policy = "PreferredLinkTarget"
    /\ PathByID(d) # NoId
    /\ l.current # PathByID(d)

\* setStatusSymlinks
SetStatus(l, d, current) == [l EXCEPT !.current = current, !.valid = ValidIds(d)]

\* Status().Update of an LVDL read as `old', with the write-through to the
\* cache.  The API server refuses it if the object changed since or if there
\* is no currentLinkTarget, which the CRD requires.
Refused(p, old, new) == lvdl[p] # old \/ new.current = NoId
WriteStatus(p, old, new) ==
    IF Refused(p, old, new)
    THEN UNCHANGED <<lvdl, cache>>
    ELSE lvdl' = [lvdl EXCEPT ![p] = new] /\ cache' = [cache EXCEPT ![p] = new]

\* The same, but the API server is not called if nothing would change.
WriteChangedStatus(p, old, new) ==
    IF new = old THEN UNCHANGED <<lvdl, cache>> ELSE WriteStatus(p, old, new)

Goto(step) == pc' = step /\ UNCHANGED job

Finish == pc' = "idle" /\ job' = <<>>
\* A mounted device gets no PV: its handling ends with the status.
ThenPV == IF job.inUse THEN Finish ELSE Goto("pv")

-----------------------------------------------------------------------------
(* Choosing the symlink path of a device                                   *)

Begin(d, p, inUse) ==
    /\ pc' = "find"
    /\ job' = [dev |-> d, path |-> p, inUse |-> inUse, seen |-> NoLVDL, target |-> NoId]

\* A symlink of the storage class resolves to the device.
UseExistingSymlink(d, inUse) ==
    /\ pc = "idle"
    /\ \E p \in Existing(d) : Begin(d, p, inUse)
    /\ UNCHANGED <<present, link, pvs, lvdl, cache, budget>>

\* The device is new: claim it with a symlink named after a by-id link, the one
\* a LocalVolume lists or else the preferred one.  If the name is taken, a
\* LocalVolumeSet goes on with the symlink it finds and a LocalVolume gives up.
CreateSymlink(d) ==
    /\ pc = "idle"
    /\ Matching(d) = {}
    /\ \E id \in ValidIds(d) :
         LET p == <<id, FALSE>> IN
         /\ LSOManaged(id, d) = {}
         /\ link' = [link EXCEPT ![p] = IF @ = NoId THEN id ELSE @]
         /\ Begin(d, p, FALSE)
    /\ UNCHANGED <<present, pvs, lvdl, cache, budget>>

\* RecoverPVSymlinkPath: no symlink resolves to the device, but one LVDL knows
\* it.  Without the policy only the LVDL status is refreshed, from the cached
\* object; with it, the PV's path is used if the recorded target is gone.
RecoverPVSymlinkPath(d, inUse) ==
    /\ pc = "idle"
    /\ Matching(d) = {}
    /\ \E id \in ValidIds(d), p \in Paths :
         LET l == cache[p] IN
         /\ LSOManaged(id, d) = {p}
         /\ \/ /\ l.policy # "PreferredLinkTarget"
               /\ WriteChangedStatus(p, l, SetStatus(l, d, l.current))
               /\ UNCHANGED <<pc, job>>
            \/ /\ l.policy = "PreferredLinkTarget"
               /\ l.current \notin present
               /\ Begin(d, p, inUse)
               /\ UNCHANGED <<lvdl, cache>>
    /\ UNCHANGED <<present, link, pvs, budget>>

-----------------------------------------------------------------------------
(* SyncPVAndLVDL and, for mounted devices, processRejectedDevices          *)

\* FindLVDL, uncached, and HasMismatchingSymlink.
FindLVDL ==
    LET p == job.path
        seen == lvdl[p]
    IN  /\ pc = "find"
        /\ IF Mismatch(seen, job.dev)
           THEN /\ pc' = "check"
                /\ job' = [job EXCEPT !.seen = seen]
           ELSE IF job.inUse
           THEN IF link[p] = NoId THEN Finish
                ELSE /\ pc' = "apply"
                     /\ job' = [job EXCEPT !.target = link[p]]
           ELSE Goto("pv")
        /\ UNCHANGED <<present, link, pvs, lvdl, cache, budget>>

\* updateStatus: a failed recreation is reported as a condition of the LVDL
\* and is no error, unless the status cannot be written.
ReportFailure ==
    LET p == job.path
        new == [SetStatus(job.seen, job.dev, job.seen.current) EXCEPT !.failed = TRUE]
    IN  /\ WriteChangedStatus(p, job.seen, new)
        /\ IF new # job.seen /\ Refused(p, job.seen, new) THEN Finish ELSE ThenPV

\* RecreateSymlinkIfNeeded up to the swap: the device must have a by-id link
\* and no other symlink of the directory may resolve to it.
CheckTarget ==
    LET id == PathByID(job.dev)
        claimed == Matching(job.dev) \ {job.path} # {}
    IN  /\ pc = "check"
        /\ IF id = NoId \/ claimed
           THEN ReportFailure
           ELSE /\ pc' = "tmp"
                /\ job' = [job EXCEPT !.target = id]
                /\ UNCHANGED <<lvdl, cache>>
        /\ UNCHANGED <<present, link, pvs, budget>>

\* Mutant: the symlink is removed to make room for the new one.
CreateTmpRemovingLink ==
    /\ pc = "tmp"
    /\ link' = [link EXCEPT ![Tmp(job.path)] = job.target, ![job.path] = NoId]
    /\ Goto("rename")
    /\ UNCHANGED <<present, pvs, lvdl, cache, budget>>

\* Remove a stale .tmp and create a new one.
CreateTmp ==
    /\ pc = "tmp"
    /\ link' = [link EXCEPT ![Tmp(job.path)] = job.target]
    /\ Goto("rename")
    /\ UNCHANGED <<present, pvs, lvdl, cache, budget>>

\* os.Rename replaces the symlink atomically.
RenameTmp ==
    /\ pc = "rename"
    /\ link' = [link EXCEPT ![job.path] = job.target, ![Tmp(job.path)] = NoId]
    /\ Goto("status")
    /\ UNCHANGED <<present, pvs, lvdl, cache, budget>>

\* The status after the swap; earlier error conditions are cleared.
UpdateStatus ==
    LET p == job.path
        new == [SetStatus(job.seen, job.dev, job.target) EXCEPT !.failed = FALSE]
    IN  /\ pc = "status"
        /\ WriteStatus(p, job.seen, new)
        /\ IF Refused(p, job.seen, new) THEN Finish ELSE ThenPV
        /\ UNCHANGED <<present, link, pvs, budget>>

\* Read the symlink, stat its target and create the PV if there is none.  The
\* LVDL is up to date already if the symlink was recreated.
CreateOrUpdatePV ==
    LET p == job.path IN
    /\ pc = "pv"
    /\ IF ~Resolves(p)
       THEN Finish /\ UNCHANGED pvs
       ELSE /\ pvs' = pvs \cup {p}
            /\ IF job.seen # NoLVDL THEN Finish
               ELSE /\ pc' = "apply"
                    /\ job' = [job EXCEPT !.target = link[p]]
    /\ UNCHANGED <<present, link, lvdl, cache, budget>>

\* ApplyStatus, first half: find or create the LVDL of an existing PV.
FindOrCreateLVDL ==
    LET p == job.path
        new == [policy |-> "None", current |-> NoId, valid |-> {}, failed |-> FALSE]
        found == IF lvdl[p] = NoLVDL THEN new ELSE lvdl[p]
    IN  /\ pc = "apply"
        /\ IF p \notin pvs
           THEN Finish /\ UNCHANGED lvdl
           ELSE /\ lvdl' = [lvdl EXCEPT ![p] = found]
                /\ job' = [job EXCEPT !.seen = found]
                /\ pc' = "update"
        /\ UNCHANGED <<present, link, pvs, cache, budget>>

\* ApplyStatus, second half: UpdateDeviceLinks.
UpdateDeviceLinks ==
    /\ pc = "update"
    /\ WriteChangedStatus(job.path, job.seen, SetStatus(job.seen, job.dev, job.target))
    /\ Finish
    /\ UNCHANGED <<present, link, pvs, budget>>

-----------------------------------------------------------------------------
(* Failures and environment                                                *)

Spend(what, max) ==
    /\ budget[what] < max
    /\ budget' = [budget EXCEPT ![what] = @ + 1]

\* A call to the API server fails and the reconciler gives up for now, except
\* that the LocalVolume reconciler treats a mounted device whose LVDL it could
\* not read as one without an LVDL.
CallFails ==
    /\ pc \in FailPoints
    /\ \/ /\ pc \in {"find", "status", "pv", "apply", "update"}
          /\ Finish
       \/ /\ pc = "find"
          /\ job.inUse
          /\ link[job.path] # NoId
          /\ pc' = "apply"
          /\ job' = [job EXCEPT !.target = link[job.path]]
    /\ Spend("faults", MaxFaults)
    /\ UNCHANGED <<present, link, pvs, lvdl, cache>>

\* Listing the directory, or creating or renaming the .tmp, fails: the .tmp is
\* removed and the failure reported.
SwapFails ==
    /\ pc \in FailPoints \cap {"check", "tmp", "rename"}
    /\ link' = IF pc = "check" THEN link ELSE [link EXCEPT ![Tmp(job.path)] = NoId]
    /\ ReportFailure
    /\ Spend("faults", MaxFaults)
    /\ UNCHANGED <<present, pvs>>

\* The diskmaker is killed and comes back with a cache listed from the API.
Crash ==
    /\ pc \in CrashPoints
    /\ Finish
    /\ cache' = lvdl
    /\ Spend("faults", MaxFaults)
    /\ UNCHANGED <<present, link, pvs, lvdl>>

\* A watch event brings the cache up to date with a user's changes.  Versions in
\* between, which differ in the policy only, are skipped.
InformerEvent(p) ==
    /\ cache[p] # lvdl[p]
    /\ cache' = [cache EXCEPT ![p] = lvdl[p]]
    /\ UNCHANGED <<present, link, pvs, lvdl, pc, job, budget>>

\* A user changes the policy of an LVDL.
SetPolicy(p, policy) ==
    /\ lvdl[p] # NoLVDL
    /\ ~p[2]
    /\ lvdl[p].policy # policy
    /\ lvdl' = [lvdl EXCEPT ![p].policy = policy]
    /\ Spend("policy", MaxPolicy)
    /\ UNCHANGED <<present, link, pvs, cache, pc, job>>

\* The changes LVDLs are made for: a claimed device keeps some by-id link that
\* its LVDL lists or, while its symlink is not being replaced, the target of
\* that symlink.
Recoverable(ids) ==
    \A p \in Paths : link[p] # NoId =>
        \/ \E q \in Paths : /\ lvdl[q] # NoLVDL
                            /\ \E i \in lvdl[q].valid \cap ids : OwnerOf[i] = OwnerOf[link[p]]
        \/ /\ link[p] \in ids
           /\ pc \in {"tmp", "rename", "status"} => job.path # p

\* A reboot, a firmware or a udev update changes /dev/disk/by-id.
UdevChange(ids) ==
    /\ ids # present
    /\ Recoverable(ids)
    /\ present' = ids
    /\ Spend("udev", MaxUdev)
    /\ UNCHANGED <<link, pvs, lvdl, cache, pc, job>>

-----------------------------------------------------------------------------
ChoosePath(d) ==
    \/ CreateSymlink(d)
    \/ \E inUse \in BOOLEAN : UseExistingSymlink(d, inUse) \/ RecoverPVSymlinkPath(d, inUse)

Sync ==
    \/ FindLVDL \/ CheckTarget \/ CreateTmp \/ RenameTmp \/ UpdateStatus
    \/ CreateOrUpdatePV \/ FindOrCreateLVDL \/ UpdateDeviceLinks

Environment ==
    \/ CallFails \/ SwapFails \/ Crash
    \/ \E p \in Paths : InformerEvent(p)
    \/ \E p \in Paths, policy \in {"None", "PreferredLinkTarget"} : SetPolicy(p, policy)
    \/ \E ids \in SUBSET Ids : UdevChange(ids)

Next == (\E d \in Devices : ChoosePath(d)) \/ Sync \/ Environment

\* The reconciler runs again at least every minute and visits every device each
\* time, hence the strong fairness; watch events are delivered.
Fairness ==
    /\ \A d \in Devices : SF_vars(ChoosePath(d))
    /\ WF_vars(Sync)
    /\ \A p \in Paths : WF_vars(InformerEvent(p))

Spec == Init /\ [][Next]_vars /\ Fairness

-----------------------------------------------------------------------------
(* Properties                                                              *)

\* A symlink never moves to another device: whatever recovery and recreation
\* do, the target belongs to the device the path was created for.
SymlinkKeepsDevice ==
    \A p \in Paths : link[p] # NoId => OwnerOf[link[p]] = OwnerOf[p[1]]

\* A device has at most one PV: after its by-id links change, the old PV is
\* found through the LVDL cache, "without re-provisioning the PersistentVolume".
OnePVPerDevice ==
    \A p, q \in pvs : OwnerOf[p[1]] = OwnerOf[q[1]] => p = q

\* The path of a PV never disappears, not even while it is being replaced.
SymlinkNeverVanishes ==
    [][\A p \in pvs : link[p] # NoId => link'[p] # NoId]_vars

\* Once users and udev are quiet, every LVDL with the policy has a symlink to
\* the preferred by-id link, and records it.
Settled ==
    \A p \in pvs :
        LET d == OwnerOf[p[1]] IN
        lvdl[p] # NoLVDL /\ lvdl[p].policy = "PreferredLinkTarget" /\ PathByID(d) # NoId
        => link[p] = PathByID(d) /\ lvdl[p].current = link[p]
EventuallySettled == <>[]Settled

=============================================================================

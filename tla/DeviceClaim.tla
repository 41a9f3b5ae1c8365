---------------------------- MODULE DeviceClaim ----------------------------
(***************************************************************************)
(* How the diskmaker's LocalVolume and LocalVolumeSet reconcilers claim    *)
(* block devices on one node.                                              *)
(*                                                                         *)
(* A device is claimed by a symlink /mnt/local-storage/<class>/<name> that *)
(* resolves to it.  Both reconcilers run at the same time in the diskmaker *)
(* process, each one device at a time, and use an exclusive open of the    *)
(* device (O_EXCL) plus a `find -samefile' over all of /mnt/local-storage  *)
(* to keep one device from being claimed twice.                            *)
(*                                                                         *)
(* The /dev/disk/by-id links are stable in this module: a name always      *)
(* resolves to the same device.  SymlinkRecreation models their changes.   *)
(***************************************************************************)
EXTENDS FiniteSets

CONSTANTS
    Devices,    \* block devices of the node
    Names,      \* base names of the /dev/disk/by-id links
    DeviceOf,   \* the device a name resolves to
    Preferred,  \* the name findDeviceInSortedSymlink returns for a device
    Classes,    \* storage classes: the directories of /mnt/local-storage
    LVs,        \* LocalVolume reconcilers
    LVSets,     \* LocalVolumeSet reconcilers
    ClassesOf,  \* the storage classes a reconciler's owner object asks for
    FindErrors, \* {FALSE}, or {FALSE, TRUE} when `find' may exit with an error
    NoPath,     \* path of an idle reconciler
    NoOne,      \* holder of an unlocked device, owner of an absent object
    Kubelet     \* holder of a mounted device

Workers == LVs \cup LVSets
Paths == Classes \X Names

ASSUME ClaimAssumption ==
    /\ LVs \cap LVSets = {}
    /\ NoPath \notin Paths
    /\ NoOne \notin Workers
    /\ Kubelet \notin Workers
    /\ Kubelet # NoOne
    /\ DeviceOf \in [Names -> Devices]
    /\ Preferred \in [Devices -> Names]
    /\ \A d \in Devices : DeviceOf[Preferred[d]] = d
    /\ ClassesOf \in [Workers -> SUBSET Classes]
    /\ FindErrors \subseteq BOOLEAN

VARIABLES
    links,        \* the symlinks on disk
    holder,       \* who has each device open exclusively
    pvOwner,      \* owner label of the PV of each path, NoOne if there is no PV
    dying,        \* paths whose PV has a DeletionTimestamp
    lvdlOwner,    \* owner of the path's LocalVolumeDeviceLink, NoOne if absent
    ownerDeleted, \* reconcilers whose owner object has a DeletionTimestamp
    pc,           \* the step each reconciler is at
    path          \* the symlink path each reconciler works on

vars == <<links, holder, pvOwner, dying, lvdlOwner, ownerDeleted, pc, path>>

Steps == {"idle", "lock", "find", "link", "readlink", "pv", "lvdl", "finalizer"}

Dev(p) == DeviceOf[p[2]]

\* One type invariant: every variable ranges over the values the Go types and
\* the file system allow, and a reconciler has a path exactly when it is busy.
TypeOK ==
    /\ links \subseteq Paths
    /\ holder \in [Devices -> Workers \cup {NoOne, Kubelet}]
    /\ pvOwner \in [Paths -> Workers \cup {NoOne}]
    /\ dying \subseteq Paths
    /\ lvdlOwner \in [Paths -> Workers \cup {NoOne}]
    /\ ownerDeleted \subseteq Workers
    /\ pc \in [Workers -> Steps]
    /\ path \in [Workers -> Paths \cup {NoPath}]
    /\ \A w \in Workers : path[w] = NoPath <=> pc[w] = "idle"

Init ==
    /\ links = {}
    /\ holder = [d \in Devices |-> NoOne]
    /\ pvOwner = [p \in Paths |-> NoOne]
    /\ dying = {}
    /\ lvdlOwner = [p \in Paths |-> NoOne]
    /\ ownerDeleted = {}
    /\ pc = [w \in Workers |-> "idle"]
    /\ path = [w \in Workers |-> NoPath]

-----------------------------------------------------------------------------
(* Helpers of the reconcile loop                                           *)

\* `find -L /mnt/local-storage -samefile <device>'
GetMatchingSymlinksInDirs(d) == {p \in links : Dev(p) = d}

\* The symlinks of one storage class that resolve to the device.
GetSymlinkedForCurrentSC(c, d) == {p \in links : p[1] = c /\ Dev(p) = d}

\* FindLSOManagedDeviceInfo: some LVDL lists a by-id link of the device.
LSOManaged(d) == \E p \in Paths : Dev(p) = d /\ lvdlOwner[p] # NoOne

\* Closing the file descriptor gives up the exclusive open; it is idempotent.
Unlock(w) ==
    holder' = [d \in Devices |-> IF holder[d] = w THEN NoOne ELSE holder[d]]

Begin(w, step, p) ==
    /\ pc' = [pc EXCEPT ![w] = step]
    /\ path' = [path EXCEPT ![w] = p]

Goto(w, step) ==
    /\ pc' = [pc EXCEPT ![w] = step]
    /\ UNCHANGED path

\* Mutant: the path of the last device is kept.
FinishKeepsPath(w) == Goto(w, "idle")

Finish(w) == Begin(w, "idle", NoPath)

\* Mutant: nobody looks at whether the lock was obtained.
AssumeLocked(w) == TRUE

Locked(w) == holder[Dev(path[w])] = w

\* A LocalVolume uses the by-id name the user listed or, for another path,
\* the preferred one; a LocalVolumeSet always uses the preferred one.
SymlinkName(w, n) == w \in LVSets => n = Preferred[DeviceOf[n]]

-----------------------------------------------------------------------------
(* Provisioning                                                            *)

\* The reconcile loop takes up a valid device: not mounted, owner not deleted.
\* A symlink of the class is synced; otherwise the device must not be known
\* to the LVDL cache: its link still resolves, so recovery returns an error.
ConsiderDevice(w, c, n) ==
    LET d == DeviceOf[n] IN
    /\ pc[w] = "idle"
    /\ w \notin ownerDeleted
    /\ c \in ClassesOf[w]
    /\ holder[d] # Kubelet
    /\ SymlinkName(w, n)
    /\ \/ \E p \in GetSymlinkedForCurrentSC(c, d) :
            Begin(w, "readlink", p)
       \/ /\ GetSymlinkedForCurrentSC(c, d) = {}
          /\ ~LSOManaged(d)
          /\ Begin(w, "lock", <<c, n>>)
    /\ UNCHANGED <<links, holder, pvOwner, dying, lvdlOwner, ownerDeleted>>

\* Mutant: the device is opened without O_EXCL.
LockDeviceShared(w) ==
    /\ pc[w] = "lock"
    /\ holder' = [holder EXCEPT ![Dev(path[w])] = w]
    /\ Goto(w, "find")
    /\ UNCHANGED <<links, pvOwner, dying, lvdlOwner, ownerDeleted>>

\* First half of GetPVCreationLock: open the device with O_EXCL.  A busy
\* device is not an error yet, the symlinks are looked up anyway.
LockDevice(w) ==
    LET d == Dev(path[w]) IN
    /\ pc[w] = "lock"
    /\ holder' = IF holder[d] = NoOne THEN [holder EXCEPT ![d] = w] ELSE holder
    /\ Goto(w, "find")
    /\ UNCHANGED <<links, pvOwner, dying, lvdlOwner, ownerDeleted>>

\* Second half of GetPVCreationLock and what each caller makes of its answer.
\* The LocalVolume reconciler gives up on any error of `find'; the
\* LocalVolumeSet reconciler only looks at whether it got the lock.
FindSymlinks(w) ==
    /\ pc[w] = "find"
    /\ \E err \in FindErrors :
         LET existing == IF err THEN {} ELSE GetMatchingSymlinksInDirs(Dev(path[w]))
         IN  \/ /\ path[w] \in existing
                /\ IF w \in LVs THEN Unlock(w) ELSE UNCHANGED holder
                /\ Goto(w, "readlink")
             \/ /\ existing = {}
                /\ Locked(w)
                /\ err => w \in LVSets
                /\ Goto(w, "link")
                /\ UNCHANGED holder
             \/ /\ path[w] \notin existing
                /\ \/ existing # {}
                   \/ ~Locked(w)
                   \/ err /\ w \in LVs
                /\ Unlock(w)
                /\ Finish(w)
    /\ UNCHANGED <<links, pvOwner, dying, lvdlOwner, ownerDeleted>>

\* os.Symlink.  createSymlink returns here, and with it the LocalVolume's lock
\* goes; the LocalVolumeSet holds on to it until the PV is synced.
CreateSymlink(w) ==
    /\ pc[w] = "link"
    /\ links' = links \cup {path[w]}
    /\ IF w \in LVs THEN Unlock(w) ELSE UNCHANGED holder
    /\ Goto(w, "readlink")
    /\ UNCHANGED <<pvOwner, dying, lvdlOwner, ownerDeleted>>

\* SyncPVAndLVDL reads the symlink first and fails if it is gone.
ReadSymlink(w) ==
    /\ pc[w] = "readlink"
    /\ IF path[w] \in links
       THEN Goto(w, "pv") /\ UNCHANGED holder
       ELSE Finish(w) /\ Unlock(w)
    /\ UNCHANGED <<links, pvOwner, dying, lvdlOwner, ownerDeleted>>

\* CreateOrUpdate of the PV; the owner labels of an existing PV are kept.
CreateOrUpdatePV(w) ==
    /\ pc[w] = "pv"
    /\ pvOwner' = IF pvOwner[path[w]] = NoOne
                  THEN [pvOwner EXCEPT ![path[w]] = w] ELSE pvOwner
    /\ Goto(w, "lvdl")
    /\ UNCHANGED <<links, holder, dying, lvdlOwner, ownerDeleted>>

\* ApplyStatus: creates the LVDL unless the PV has gone or the LVDL exists.
ApplyStatus(w) ==
    LET p == path[w] IN
    /\ pc[w] = "lvdl"
    /\ lvdlOwner' = IF pvOwner[p] # NoOne /\ lvdlOwner[p] = NoOne
                    THEN [lvdlOwner EXCEPT ![p] = w] ELSE lvdlOwner
    /\ Finish(w)
    /\ Unlock(w)
    /\ UNCHANGED <<links, pvOwner, dying, ownerDeleted>>

\* Any call of a step may fail (mkdir, wipefs, open, API server): the error is
\* returned, the deferred unlock runs and the device is retried later.
StepFails(w) ==
    /\ pc[w] # "idle"
    /\ Finish(w)
    /\ Unlock(w)
    /\ UNCHANGED <<links, pvOwner, dying, lvdlOwner, ownerDeleted>>

-----------------------------------------------------------------------------
(* Removal                                                                 *)

\* Mutant: the DeletionTimestamp of the PV is not looked at.
CleanupSymlinkOfLive(w, p) ==
    /\ pc[w] = "idle"
    /\ pvOwner[p] = w
    /\ links' = IF w \in ownerDeleted THEN links \ {p} ELSE links
    /\ Begin(w, "finalizer", p)
    /\ UNCHANGED <<holder, pvOwner, dying, lvdlOwner, ownerDeleted>>

\* CleanupSymlinks on a deleted PV that is not bound: the symlink is removed
\* only if the owner object is being deleted ...
CleanupSymlink(w, p) ==
    /\ pc[w] = "idle"
    /\ pvOwner[p] = w
    /\ p \in dying
    /\ links' = IF w \in ownerDeleted THEN links \ {p} ELSE links
    /\ Begin(w, "finalizer", p)
    /\ UNCHANGED <<holder, pvOwner, dying, lvdlOwner, ownerDeleted>>

\* ... and then the finalizer in either case, which lets the PV go.
RemoveSymlinkFinalizer(w) ==
    /\ pc[w] = "finalizer"
    /\ pvOwner' = [pvOwner EXCEPT ![path[w]] = NoOne]
    /\ dying' = dying \ {path[w]}
    /\ Finish(w)
    /\ UNCHANGED <<links, holder, lvdlOwner, ownerDeleted>>

-----------------------------------------------------------------------------
(* Environment                                                             *)

\* A user or the deleter asks for the deletion of a PV.
DeletePV(p) ==
    /\ pvOwner[p] # NoOne
    /\ dying' = dying \cup {p}
    /\ UNCHANGED <<links, holder, pvOwner, lvdlOwner, ownerDeleted, pc, path>>

\* A user deletes the LocalVolume or LocalVolumeSet.
DeleteOwner(w) ==
    /\ ownerDeleted' = ownerDeleted \cup {w}
    /\ UNCHANGED <<links, holder, pvOwner, dying, lvdlOwner, pc, path>>

\* The operator found no PV of the owner and removed its finalizer: the object
\* goes, its LVDLs are garbage collected, and a new one may be created.
FinalizeOwner(w) ==
    /\ w \in ownerDeleted
    /\ \A p \in Paths : pvOwner[p] # w
    /\ ownerDeleted' = ownerDeleted \ {w}
    /\ lvdlOwner' = [p \in Paths |-> IF lvdlOwner[p] = w THEN NoOne ELSE lvdlOwner[p]]
    /\ UNCHANGED <<links, holder, pvOwner, dying, pc, path>>

\* The device is mounted, which opens it exclusively, and unmounted.
Mount(d) ==
    /\ holder[d] = NoOne
    /\ holder' = [holder EXCEPT ![d] = Kubelet]
    /\ UNCHANGED <<links, pvOwner, dying, lvdlOwner, ownerDeleted, pc, path>>

Unmount(d) ==
    /\ holder[d] = Kubelet
    /\ holder' = [holder EXCEPT ![d] = NoOne]
    /\ UNCHANGED <<links, pvOwner, dying, lvdlOwner, ownerDeleted, pc, path>>

\* The diskmaker dies: the kernel closes its file descriptors.
Crash ==
    /\ pc' = [w \in Workers |-> "idle"]
    /\ path' = [w \in Workers |-> NoPath]
    /\ holder' = [d \in Devices |-> IF holder[d] \in Workers THEN NoOne ELSE holder[d]]
    /\ UNCHANGED <<links, pvOwner, dying, lvdlOwner, ownerDeleted>>

-----------------------------------------------------------------------------
Provision(w) ==
    \/ \E c \in Classes, n \in Names : ConsiderDevice(w, c, n)
    \/ LockDevice(w)
    \/ FindSymlinks(w)
    \/ CreateSymlink(w)
    \/ ReadSymlink(w)
    \/ CreateOrUpdatePV(w)
    \/ ApplyStatus(w)
    \/ StepFails(w)

Cleanup(w) ==
    \/ \E p \in Paths : CleanupSymlink(w, p)
    \/ RemoveSymlinkFinalizer(w)

Environment ==
    \/ \E p \in Paths : DeletePV(p)
    \/ \E w \in Workers : DeleteOwner(w) \/ FinalizeOwner(w)
    \/ \E d \in Devices : Mount(d) \/ Unmount(d)
    \/ Crash

Next ==
    \/ \E w \in Workers : Provision(w) \/ Cleanup(w)
    \/ Environment

Spec == Init /\ [][Next]_vars

-----------------------------------------------------------------------------
\* PVs that nobody deleted.
Live == {p \in Paths : pvOwner[p] # NoOne /\ p \notin dying}

(* Properties                                                              *)

\* No two symlinks under /mnt/local-storage resolve to the same device, however
\* the LocalVolume and LocalVolumeSet reconcilers interleave, crash or have calls
\* fail: GetPVCreationLock's exclusive open and `find' leave no window.  A `find'
\* that fails under the lock does leave one (FindErrors, FALSE in the run).
AtMostOneClaim ==
    \A p, q \in links : Dev(p) = Dev(q) => p = q

\* A PV that nobody deleted has its symlink: SyncPVAndLVDL creates the PV after
\* the symlink, and CleanupSymlinks removes the symlink of deleted PVs only.
LivePVHasSymlink ==
    Live \subseteq links

\* A symlink is never created for a device that is mounted at that moment, even
\* if the mount came after ignoreDevices had accepted the device.
NeverClaimMounted ==
    [][\A p \in links' \ links : holder[Dev(p)] # Kubelet]_vars

-----------------------------------------------------------------------------
(* The promise to the rest of the system                                   *)

Volumes == INSTANCE ExclusiveVolumes WITH
    Target <- [p \in Paths |-> Dev(p)],
    claims <- [d \in Devices |-> GetMatchingSymlinksInDirs(d)],
    live <- Live

\* The steps of the two reconcilers, with their failures and crashes, implement
\* atomic claims: claim a free device, publish a PV on the claimed path, retire
\* the PV, release the claim; no step does more than one of these.
ImplementsVolumes == Volumes!Spec

=============================================================================

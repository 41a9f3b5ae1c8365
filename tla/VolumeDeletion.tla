--------------------------- MODULE VolumeDeletion ---------------------------
(***************************************************************************)
(* What happens to a PersistentVolume after its claim or its owner (a      *)
(* LocalVolume or a LocalVolumeSet) is deleted.                            *)
(*                                                                         *)
(* The diskmaker reconciler of the node runs Reconcile over and over: it   *)
(* calls the deleter of the static provisioner library (DeletePVs), drops  *)
(* the symlinks and the finalizers of deleted PVs (CleanupSymlinks), and   *)
(* publishes a PV for every device of an owner that is not deleted         *)
(* (SyncPVAndLVDL).  The first two read r.Cache, a copy of the PVs that    *)
(* the watch handlers keep (HandlePVChange) and that lags the API server.  *)
(* Cleaning a device is a process of its own, which the deleter tracks in  *)
(* a table in memory.  The operator releases the unclaimed PVs of a        *)
(* deleted owner and lets the owner go once it sees no PV of it.           *)
(*                                                                         *)
(* client.Get of a PV in SyncPVAndLVDL reads the informer's store.  The    *)
(* store is modelled as up to date: when it lags, Create answers           *)
(* AlreadyExists and Update a conflict, and nothing changes.               *)
(***************************************************************************)
EXTENDS Naturals, Sequences

CONSTANTS
    Volumes,         \* symlink paths of the owner's devices, one PV name each
    UserDeletes,     \* the phases in which somebody deletes a PV by hand
    MaxIncarnations, \* bound: how often the PV of a path is created
    MaxRestarts      \* bound: restarts of the diskmaker

ASSUME DeletionConstants ==
    /\ UserDeletes \subseteq {"Available", "Bound", "Released"}
    /\ MaxIncarnations \in Nat \ {0}
    /\ MaxRestarts \in Nat

VARIABLES
    pv,        \* the PVs in the API server
    made,      \* how many PVs were created for a path
    symlink,   \* paths whose symlink is in the class directory
    dirty,     \* paths whose device holds the data of a claim
    proc,      \* the deleter's ProcTable
    owner,     \* the owner in the API server
    ownerSeen, \* the owner in the diskmaker's informer store
    feed,      \* PV versions the watch handlers have not seen yet
    cache,     \* r.Cache
    boot,      \* the reconciler's r.Cache: "new", "named" or "synced"
    dm,        \* the Reconcile in progress
    opview,    \* the PVs in the operator's informer store
    restarts,
    lagging,   \* may Reconcile start with events of r.Cache pending? (fixed)
    retained   \* paths whose storage class has the policy Retain, for good

vars == <<pv, made, symlink, dirty, proc, owner, ownerSeen, feed, cache, boot,
          dm, opview, restarts, lagging, retained>>

api == <<pv, made, feed>>
node == <<symlink, dirty, proc>>
maker == <<cache, boot, dm>>
bounds == <<restarts, lagging, retained>>

NoPV == [uid |-> 0, phase |-> "none", deleted |-> FALSE, claimed |-> FALSE]

PVs == [uid : 0..MaxIncarnations, phase : {"none", "Available", "Bound", "Released"},
        deleted : BOOLEAN, claimed : BOOLEAN]

NewPV(uid) == [uid |-> uid, phase |-> "Available", deleted |-> FALSE, claimed |-> FALSE]

Idle == [pc |-> "idle", seen |-> "live", todo |-> {}, list |-> [v \in Volumes |-> NoPV]]

TypeOK ==
    /\ pv \in [Volumes -> PVs]
    /\ made \in [Volumes -> 0..MaxIncarnations]
    /\ symlink \subseteq Volumes
    /\ dirty \subseteq Volumes
    /\ proc \in [Volumes -> {"none", "running", "succeeded", "failed"}]
    /\ {owner, ownerSeen} \subseteq {"live", "deleting", "gone"}
    /\ feed \in [Volumes -> Seq(PVs)]
    /\ cache \in [Volumes -> PVs]
    /\ boot \in {"new", "named", "synced"}
    /\ dm \in [pc : {"idle", "list", "fill", "delete", "cleanup", "sync"},
               seen : {"live", "deleting"}, todo : SUBSET Volumes,
               list : [Volumes -> PVs]]
    /\ opview \in [Volumes -> PVs]
    /\ restarts \in 0..MaxRestarts /\ lagging \in BOOLEAN /\ retained \subseteq Volumes

Init ==
    /\ pv = [v \in Volumes |-> NoPV]
    /\ made = [v \in Volumes |-> 0]
    /\ symlink = {} /\ dirty = {}
    /\ proc = [v \in Volumes |-> "none"]
    /\ owner = "live" /\ ownerSeen = "live"
    /\ feed = [v \in Volumes |-> <<>>]
    /\ cache = [v \in Volumes |-> NoPV]
    /\ boot = "new"
    /\ dm = Idle
    /\ opview = [v \in Volumes |-> NoPV]
    /\ restarts = 0 /\ lagging \in BOOLEAN /\ retained \in SUBSET Volumes

\* A write to the API server: every version that differs is an event of the
\* watch the diskmaker keeps on PVs.
Write(p) ==
    /\ pv' = p
    /\ feed' = [v \in Volumes |-> IF p[v] # pv[v] THEN Append(feed[v], p[v])
                                                  ELSE feed[v]]

-----------------------------------------------------------------------------
(* The diskmaker.                                                          *)

\* Reconcile reads its owner and, on the first call, learns the provisioner's
\* name and fills r.Cache.  It does nothing when the owner is not found.  The
\* owner selects this node: Reconcile also returns if it does not.
BeginReconcile ==
    /\ dm.pc = "idle" /\ ownerSeen # "gone"
    /\ lagging \/ boot # "synced" \/ \A v \in Volumes : feed[v] = <<>>
    /\ boot' = IF boot = "new" THEN "named" ELSE boot
    /\ dm' = [Idle EXCEPT !.pc = IF boot = "synced" THEN "delete" ELSE "list",
                          !.seen = ownerSeen]
    /\ UNCHANGED <<api, node, owner, ownerSeen, cache, opview, bounds>>

\* The first Reconcile lists the PVs ...
ListPVs ==
    /\ dm.pc = "list"
    /\ dm' = [dm EXCEPT !.pc = "fill", !.list = pv]
    /\ UNCHANGED <<api, node, owner, ownerSeen, cache, boot, opview, bounds>>

\* ... and puts what it listed in r.Cache, over what a handler put there since.
FillCache ==
    /\ dm.pc = "fill"
    /\ cache' = [v \in Volumes |-> IF dm.list[v] # NoPV THEN dm.list[v] ELSE cache[v]]
    /\ boot' = "synced"
    /\ dm' = [dm EXCEPT !.pc = "delete", !.list = Idle.list]
    /\ UNCHANGED <<api, node, owner, ownerSeen, opview, bounds>>

\* Mutant: the reclaim policy is not looked at.
DueWhateverPolicy(v) ==
    /\ cache[v].phase = "Released" /\ ~cache[v].deleted
    /\ v \in symlink
    /\ proc[v] # "running"

\* Mutant: a PV that is Available again is cleaned too.
DueAvailable(v) ==
    /\ cache[v].phase \in {"Released", "Available"} /\ ~cache[v].deleted
    /\ v \notin retained
    /\ v \in symlink
    /\ proc[v] # "running"

\* The released PVs that DeletePVs handles: the volume mode is read through the
\* symlink, and a PV whose device is being cleaned waits.
Due(v) ==
    /\ cache[v].phase = "Released" /\ ~cache[v].deleted
    /\ v \notin retained
    /\ v \in symlink
    /\ proc[v] # "running"

\* Mutant: a cleaning process that failed counts as done.
DeletePVsAfterFailure(failed) ==
    /\ dm.pc = "delete"
    /\ LET due == {v \in Volumes : Due(v)}
           cleaned == {v \in due : proc[v] \in {"succeeded", "failed"}}
       IN /\ failed \subseteq cleaned
          /\ Write([v \in Volumes |->
                      IF v \in cleaned \ failed /\ pv[v] # NoPV
                      THEN [pv[v] EXCEPT !.deleted = TRUE] ELSE pv[v]])
          /\ proc' = [v \in Volumes |-> IF v \in cleaned THEN "none"
                                        ELSE IF v \in due THEN "running" ELSE proc[v]]
    /\ dm' = [dm EXCEPT !.pc = "cleanup", !.todo = Volumes]
    /\ UNCHANGED <<made, symlink, dirty, owner, ownerSeen, cache, boot, opview, bounds>>

\* deletePV takes the entry out of the table first.  After a success it deletes
\* the PV by name, a call that fails for some PVs; otherwise it starts cleaning.
DeletePVs(failed) ==
    /\ dm.pc = "delete"
    /\ LET due == {v \in Volumes : Due(v)}
           cleaned == {v \in due : proc[v] = "succeeded"}
       IN /\ failed \subseteq cleaned
          /\ Write([v \in Volumes |->
                      IF v \in cleaned \ failed /\ pv[v] # NoPV
                      THEN [pv[v] EXCEPT !.deleted = TRUE] ELSE pv[v]])
          /\ proc' = [v \in Volumes |-> IF v \in cleaned THEN "none"
                                        ELSE IF v \in due THEN "running" ELSE proc[v]]
    /\ dm' = [dm EXCEPT !.pc = "cleanup", !.todo = Volumes]
    /\ UNCHANGED <<made, symlink, dirty, owner, ownerSeen, cache, boot, opview, bounds>>

\* Mutant: CleanupSymlinks does not ask for a DeletionTimestamp.
CleanableUndeleted(v) == cache[v].phase \in {"Released", "Available"}

\* The PVs CleanupSymlinks acts on.
Cleanable(v) == cache[v].deleted /\ cache[v].phase \in {"Released", "Available"}

CleanupSkips(v) ==
    /\ dm.pc = "cleanup" /\ v \in dm.todo /\ ~Cleanable(v)
    /\ dm' = [dm EXCEPT !.todo = @ \ {v}]
    /\ UNCHANGED <<api, node, owner, ownerSeen, cache, boot, opview, bounds>>

\* Mutant: the finalizer is removed with a patch, whatever the version.
CleanupSymlinkPatch(v) ==
    /\ dm.pc = "cleanup" /\ v \in dm.todo /\ Cleanable(v)
    /\ symlink' = IF dm.seen = "deleting" THEN symlink \ {v} ELSE symlink
    /\ Write([pv EXCEPT ![v] = NoPV])
    /\ dm' = [dm EXCEPT !.todo = @ \ {v}]
    /\ UNCHANGED <<made, dirty, proc, owner, ownerSeen, cache, boot, opview, bounds>>

\* The symlink goes only with the owner; the finalizer goes in any case, which
\* ends the PV.  The update carries the cached version.
CleanupSymlink(v) ==
    /\ dm.pc = "cleanup" /\ v \in dm.todo /\ Cleanable(v)
    /\ cache[v] = pv[v]
    /\ symlink' = IF dm.seen = "deleting" THEN symlink \ {v} ELSE symlink
    /\ Write([pv EXCEPT ![v] = NoPV])
    /\ dm' = [dm EXCEPT !.todo = @ \ {v}]
    /\ UNCHANGED <<made, dirty, proc, owner, ownerSeen, cache, boot, opview, bounds>>

\* The update conflicts with a newer version, or fails: Reconcile ends there.
CleanupSymlinkError(v) ==
    /\ dm.pc = "cleanup" /\ v \in dm.todo /\ Cleanable(v)
    /\ symlink' = IF dm.seen = "deleting" THEN symlink \ {v} ELSE symlink
    /\ dm' = Idle
    /\ UNCHANGED <<api, dirty, proc, owner, ownerSeen, cache, boot, opview, bounds>>

\* Reconcile provisions only for an owner it does not see deleted.
CleanupDone ==
    /\ dm.pc = "cleanup" /\ dm.todo = {}
    /\ dm' = IF dm.seen = "deleting" THEN Idle
             ELSE [dm EXCEPT !.pc = "sync", !.todo = Volumes]
    /\ UNCHANGED <<api, node, owner, ownerSeen, cache, boot, opview, bounds>>

\* The symlink is made if it is missing, then SyncPVAndLVDL: a Released PV is
\* left alone (ErrTryAgain), one that exists keeps its spec, else it is created.
SyncPVAndLVDL(v) ==
    /\ dm.pc = "sync" /\ v \in dm.todo
    /\ symlink' = symlink \cup {v}
    /\ LET create == pv[v] = NoPV /\ made[v] < MaxIncarnations
       IN /\ Write(IF create THEN [pv EXCEPT ![v] = NewPV(made[v] + 1)] ELSE pv)
          /\ made' = IF create THEN [made EXCEPT ![v] = @ + 1] ELSE made
    /\ dm' = IF dm.todo = {v} THEN Idle ELSE [dm EXCEPT !.todo = @ \ {v}]
    /\ UNCHANGED <<dirty, proc, owner, ownerSeen, cache, boot, opview, bounds>>

\* The watch handlers.  An event that comes before the provisioner's name is
\* known is dropped; a deletion removes the PV from r.Cache.
HandlePVChange(v) ==
    /\ feed[v] # <<>>
    /\ feed' = [feed EXCEPT ![v] = Tail(@)]
    /\ cache' = IF boot = "new" THEN cache ELSE [cache EXCEPT ![v] = Head(feed[v])]
    /\ UNCHANGED <<pv, made, node, owner, ownerSeen, boot, dm, opview, bounds>>

\* The informer of the diskmaker learns of the owner's deletion.
OwnerEvent ==
    /\ ownerSeen # owner
    /\ ownerSeen' = owner
    /\ UNCHANGED <<api, node, owner, maker, opview, bounds>>

\* The periodic resync of the informer delivers a version again.
Resync(v) ==
    /\ feed[v] = <<>> /\ cache[v] # pv[v]
    /\ feed' = [feed EXCEPT ![v] = <<pv[v]>>]
    /\ UNCHANGED <<pv, made, node, owner, ownerSeen, maker, opview, bounds>>

\* A restart loses r.Cache and the table, and ends the cleaning processes.  The
\* new informer delivers the PVs there are.
Restart ==
    /\ restarts < MaxRestarts
    /\ restarts' = restarts + 1
    /\ proc' = [v \in Volumes |-> "none"]
    /\ cache' = [v \in Volumes |-> NoPV]
    /\ feed' = [v \in Volumes |-> IF pv[v] = NoPV THEN <<>> ELSE <<pv[v]>>]
    /\ boot' = "new" /\ dm' = Idle
    /\ ownerSeen' = owner
    /\ UNCHANGED <<pv, made, symlink, dirty, owner, opview, lagging, retained>>

\* The cleaning process ends: asyncCleanPV marks the entry.
CleanSucceeds(v) ==
    /\ proc[v] = "running"
    /\ proc' = [proc EXCEPT ![v] = "succeeded"]
    /\ dirty' = dirty \ {v}
    /\ UNCHANGED <<api, symlink, owner, ownerSeen, maker, opview, bounds>>

CleanFails(v) ==
    /\ proc[v] = "running"
    /\ proc' = [proc EXCEPT ![v] = "failed"]
    /\ UNCHANGED <<api, symlink, dirty, owner, ownerSeen, maker, opview, bounds>>

-----------------------------------------------------------------------------
(* The operator, and everybody else.                                       *)

OperatorSees(v) ==
    /\ opview[v] # pv[v]
    /\ opview' = [opview EXCEPT ![v] = pv[v]]
    /\ UNCHANGED <<api, node, owner, ownerSeen, maker, bounds>>

\* ReleaseAvailablePVs takes an Available PV that nobody claimed, unless its
\* policy is Retain.
Releasable(v) ==
    /\ opview[v].phase = "Available" /\ ~opview[v].claimed
    /\ v \notin retained

\* Mutant: the Available PVs of a deleted owner are not released.
CleanupOwnerUnreleased ==
    /\ owner = "deleting"
    /\ owner' = IF \A v \in Volumes : opview[v] = NoPV THEN "gone" ELSE owner
    /\ UNCHANGED <<api, node, ownerSeen, maker, opview, bounds>>

\* The cleanup of a deleted owner: release its PVs, give up at the first update
\* that conflicts, and drop the owner's finalizer when no PV of it is seen.
CleanupOwner ==
    /\ owner = "deleting"
    /\ LET avail == {v \in Volumes : Releasable(v)}
           stale == {v \in avail : opview[v] # pv[v]}
       IN \E released \in SUBSET (avail \ stale) :
            /\ stale = {} => released = avail
            /\ Write([v \in Volumes |-> IF v \in released
                                        THEN [pv[v] EXCEPT !.claimed = TRUE] ELSE pv[v]])
    /\ owner' = IF \A v \in Volumes : opview[v] = NoPV THEN "gone" ELSE owner
    /\ UNCHANGED <<made, node, ownerSeen, maker, opview, bounds>>

\* The volume controller: a claimRef to a claim that does not exist.
KCMRelease(v) ==
    /\ pv[v].phase = "Available" /\ pv[v].claimed
    /\ Write([pv EXCEPT ![v].phase = "Released"])
    /\ UNCHANGED <<made, node, owner, ownerSeen, maker, opview, bounds>>

\* A claim binds a PV and a pod writes to it; later the claim is deleted.
Claim(v) ==
    /\ pv[v].phase = "Available" /\ ~pv[v].claimed /\ ~pv[v].deleted
    /\ Write([pv EXCEPT ![v].phase = "Bound", ![v].claimed = TRUE])
    /\ dirty' = dirty \cup {v}
    /\ UNCHANGED <<made, symlink, proc, owner, ownerSeen, maker, opview, bounds>>

Unclaim(v) ==
    /\ pv[v].phase = "Bound"
    /\ Write([pv EXCEPT ![v].phase = "Released"])
    /\ UNCHANGED <<made, node, owner, ownerSeen, maker, opview, bounds>>

UserDeletesPV(v) ==
    /\ pv[v].phase \in UserDeletes /\ ~pv[v].deleted
    /\ Write([pv EXCEPT ![v].deleted = TRUE])
    /\ UNCHANGED <<made, node, owner, ownerSeen, maker, opview, bounds>>

DeleteOwner ==
    /\ owner = "live"
    /\ owner' = "deleting"
    /\ UNCHANGED <<api, node, ownerSeen, maker, opview, bounds>>

Next ==
    \/ BeginReconcile \/ ListPVs \/ FillCache \/ CleanupDone
    \/ \E failed \in SUBSET Volumes : DeletePVs(failed)
    \/ OwnerEvent \/ Restart \/ CleanupOwner \/ DeleteOwner
    \/ \E v \in Volumes :
          \/ CleanupSkips(v) \/ CleanupSymlink(v) \/ CleanupSymlinkError(v)
          \/ SyncPVAndLVDL(v) \/ HandlePVChange(v) \/ Resync(v)
          \/ CleanSucceeds(v) \/ CleanFails(v) \/ OperatorSees(v)
          \/ KCMRelease(v) \/ Claim(v) \/ Unclaim(v) \/ UserDeletesPV(v)

Spec == Init /\ [][Next]_vars

Reconcile ==
    \/ BeginReconcile \/ ListPVs \/ FillCache \/ DeletePVs({}) \/ CleanupDone
    \/ \E v \in Volumes : CleanupSkips(v) \/ CleanupSymlinkError(v) \/ SyncPVAndLVDL(v)

(* The controllers and the watches keep running, the API server does not     *)
(* fail an update for ever, a claim is given up some day, and the cleaning   *)
(* command succeeds when it is tried again and again.                        *)
Fairness ==
    /\ WF_vars(Reconcile) /\ WF_vars(OwnerEvent) /\ WF_vars(CleanupOwner)
    /\ SF_vars(DeletePVs({}) /\ pv' # pv)
    /\ \A v \in Volumes :
          /\ SF_vars(CleanupSymlink(v)) /\ SF_vars(CleanSucceeds(v))
          /\ WF_vars(HandlePVChange(v) \/ Resync(v)) /\ WF_vars(OperatorSees(v))
          /\ WF_vars(KCMRelease(v) \/ Unclaim(v))

FairSpec == Spec /\ Fairness

-----------------------------------------------------------------------------
(* The deleter never cleans a device that a PV offers or that a claim uses:  *)
(* DeletePVs starts cleaning only for Released PVs, and SyncPVAndLVDL waits  *)
(* while the PV of the path is Released.                                     *)
NeverCleansLive ==
    ~lagging => \A v \in Volumes :
                    proc[v] = "running" => pv[v].phase \notin {"Available", "Bound"}

(* A PV that can be claimed never holds the data of an earlier claim: with   *)
(* the policy Delete, the deleter deletes a PV only after cleaning it.       *)
PublishedClean ==
    ~lagging => \A v \in Volumes \ retained : pv[v].phase = "Available" => v \notin dirty

(* The symlink of a PV stays while a claim uses the PV, whatever happens to  *)
(* the owner: CleanupSymlinks skips volumes that are Bound.                  *)
BoundKeepsSymlink ==
    ~lagging => \A v \in Volumes : pv[v].phase = "Bound" => v \in symlink

(* The data of a claim stays on a device whose policy is Retain: DeletePVs   *)
(* has nothing to do there, whatever version of the PV it sees.              *)
RetainKeepsData == [][\A v \in retained : v \in dirty => v \in dirty']_vars

(* A PV that a claim uses never disappears, however old the copies that the  *)
(* diskmaker acts on: the finalizer is removed with an update of the cached  *)
(* version, which conflicts with a newer one.                                *)
BoundNeverVanishes ==
    [][\A v \in Volumes : pv[v].phase = "Bound" => pv'[v].uid = pv[v].uid]_vars

(* The deletion of an owner ends: its PVs are released, cleaned, deleted and *)
(* let go, across restarts and failed cleaning.  A PV whose policy is Retain *)
(* is for a person to delete.                                                *)
OwnerGoes == owner = "deleting" /\ retained = {} /\ ~lagging ~> owner = "gone"

-----------------------------------------------------------------------------
(* What the comments and the names say, and what the code does not do.       *)

(* The first two with a cache that lags.                                     *)
NeverCleansLiveLagging ==
    \A v \in Volumes : proc[v] = "running" => pv[v].phase \notin {"Available", "Bound"}
PublishedCleanLagging ==
    \A v \in Volumes \ retained : pv[v].phase = "Available" => v \notin dirty

(* The deletion of an owner ends, with a cache that lags.                    *)
OwnerGoesLagging == owner = "deleting" /\ retained = {} ~> owner = "gone"

(* The owner outlives its PVs: the operator drops the finalizer              *)
(* local-volume-protection only when no PV of the owner is left.             *)
OwnerOutlivesPVs ==
    owner = "gone" => \A v \in Volumes : pv[v] = NoPV
=============================================================================

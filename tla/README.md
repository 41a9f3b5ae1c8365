# A verification of the local-storage-operator

TLA+ models of the local-storage-operator (LSO): how devices are found, chosen,
claimed, published as PersistentVolumes (PVs), kept, cleaned and given up, and
how the operator keeps the objects around them. They are checked with TLC on
small instances. Nearly all of their safety properties are also proved with TLAPS,
for every value of the constants.

## The system

LSO turns block devices of nodes into local PVs.

| part | where | modelled in |
|---|---|---|
| diskmaker, LocalVolume reconciler: devices listed by path | `pkg/diskmaker/controllers/lv` | DeviceClaim, SymlinkRecreation, VolumeDeletion |
| diskmaker, LocalVolumeSet reconciler: devices chosen by filters | `pkg/diskmaker/controllers/lvset` | DeviceClaim, SymlinkRecreation, DeviceSelection |
| filters and matchers, minimum age, MaxDeviceCount | `lvset/matcher.go`, `device_age.go` | DeviceMatching, DeviceSelection |
| device lock, search for symlinks, by-id links | `pkg/internal/diskutil.go` | DeviceClaim, SymlinkRecreation |
| PV and LocalVolumeDeviceLink (LVDL) synchronisation | `pkg/common/provisioner_utils.go`, `device_link_handler.go` | DeviceClaim, SymlinkRecreation, CapacityRounding |
| recovery and recreation of symlinks | `device_link_handler.go`, `current_block_device_info.go` | SymlinkRecreation |
| index of LVDLs by link target | `pkg/common/pv_link_cache.go` | DeviceLinkCache |
| cleanup of deleted PVs, finalizers | `pkg/common/symlink_utils.go`, `finalizer_util.go` | VolumeDeletion, DeviceClaim |
| static provisioner's deleter and PV cache (vendored) | `vendor/sigs.k8s.io/sig-storage-local-static-provisioner` | VolumeDeletion |
| operator: LocalVolume, LocalVolumeSet, storage classes | `pkg/controllers/localvolume`, `localvolumeset` | StorageClassOwnership, VolumeDeletion |
| operator: DaemonSet and ConfigMap of the diskmaker | `pkg/controllers/nodedaemon` | NodeDaemon |
| discovery of devices: controller | `pkg/controllers/localvolumediscovery` | DiscoveryController |
| discovery of devices: daemon | `pkg/diskmaker/discovery` | DiscoveryDaemon, DeviceMatching |
| metrics, alerts, events, TLS, API types | `pkg/localmetrics`, `pkg/tls`, `api` | not modelled: they report or declare |

On each node the diskmaker runs both reconcilers at the same time, each with one
worker. A reconciler lists the block devices, and for each device it accepts it
creates a symlink in `/mnt/local-storage/<class>/`, then the PV, then the LVDL.
A released PV is cleaned and deleted by the same reconcilers, with the deleter of
the static provisioner, and its symlink goes when the PV is deleted. The operator
applies the storage classes of LocalVolumes and LocalVolumeSets (the owners),
runs the diskmaker on the nodes they select, and lets an owner go when its PVs are
gone. Discovery is separate: a daemon on each selected node lists the devices in
a result object, and a controller looks after the daemons and the results.

## Modules

**ExclusiveVolumes** is the promise to the rest of the system: a free device is
claimed by one path, a PV is published on the claimed path, retired, and the
claim is released, each in one step.

**DeviceClaim** is how the code keeps it. `links` are the symlinks on disk,
`holder` says who has a device open with O_EXCL, `pc` and `path` are the program
counter and the path of each reconciler. One action per step between which
another process can act: ConsiderDevice (choose a device, look for a symlink in
the own class and in the LVDL cache), LockDevice and FindSymlinks
(GetPVCreationLock), CreateSymlink, ReadSymlink and CreateOrUpdatePV
(SyncPVAndLVDL), ApplyStatus (the LVDL), CleanupSymlink and
RemoveSymlinkFinalizer (CleanupSymlinks). StepFails is the failure of any call.
Kubelet, users, the operator and crashes are the environment. By-id links do not
change here. A PV's phase, capacity and labels other than the owner are left out.

**SymlinkRecreation** is what happens when they do change. A path is the by-id
name it was created for plus a flag for `.tmp`; `link` maps it to its target;
`lvdl` and `cache` are the LVDLs in the API server and in the diskmaker's index.
ChoosePath(d) is the start of the work on a device: UseExistingSymlink,
CreateSymlink or RecoverPVSymlinkPath. Sync is what follows: FindLVDL,
CheckTarget, CreateTmp, RenameTmp, UpdateStatus, CreateOrUpdatePV,
FindOrCreateLVDL, UpdateDeviceLinks. A status update is refused if the cached
object is old, or if currentLinkTarget would be empty, which the CRD forbids.

**DeviceLinkCache** is the index itself: the API server, the informer (watch,
relist, resync), and the three goroutines that write the index.

**VolumeDeletion** is the end of a volume. `pv` are the PVs in the API server,
`feed` the versions on their way to `cache`, the reconciler's r.Cache, which
lags; `proc` is the deleter's table of cleaning processes; `dirty` are the
devices that hold the data of a claim. One Reconcile is BeginReconcile, the first
fill of the cache (ListPVs, FillCache), DeletePVs, CleanupSymlink and its
variants PV by PV, then SyncPVAndLVDL. CleanSucceeds and CleanFails end a cleaning
process. The operator's part is CleanupOwner with its own view of the PVs,
`opview`. Claims, users and the PV controller are the environment.

**StorageClassOwnership** has the operator's two reconcilers of owners, each with
one worker, in steps of one API call: AddFinalizer, Apply (one class), RemoveListed
(one class), SyncStatus for both; Cleanup, Purged and RemoveFinalizer for a
deleted owner; RemoveClass, which for a LocalVolumeSet comes after the finalizer.
`ownerMap` is the map from classes to owners that turns events into requests.

**NodeDaemon** has the reconciler that aggregates all owners: Begin, DeleteOld and
OldPodsGone (cleanup after older releases, once per process), ListSets, ListLVs,
ReconcileConfigMap, EnableMetrics, ReconcileDaemonSet. It reads copies (`seen`,
`cmSeen`, `dsSeen`) that lag, and a write based on an old copy is refused.

**DiscoveryDaemon** has the two goroutines of the daemon, the event monitor and the
main loop, and the result object of the node. **DiscoveryController** has the
controller above it with the DaemonSet controller's pods and counts.

**DeviceMatching** holds the three judgements of a block device as operators
(matchers and filters of a LocalVolumeSet, ignoreDevices of a LocalVolume, the
state that discovery reports). **DeviceSelection** extends it to
the Reconcile of LocalVolumeSets on one node: the listing, the age of kernel names,
MaxDeviceCount, the time to the next pass, while disks come, go and are used.

**CapacityRounding** is RoundDownCapacityPretty, **DeviceList** is uniqueDevices,
which makes the list that discovery reports of the rows of lsblk.

**MC...** modules define the constants of the runs; **MCOperators** makes states of
the inputs of the operators of DeviceMatching, DeviceList and CapacityRounding. The
theorems about a module X are in **XProofs**; those about CapacityRounding are in
DeviceClaimProofs, those about both modules of discovery in **DiscoveryProofs**.

The modules meet at their edges rather than in one product, which would be out of
TLC's reach: DeviceSelection takes the claim of a device as one step, as
ExclusiveVolumes promises; StorageClassOwnership takes it that PVs of a deleted
owner go (OwnerGoes of VolumeDeletion); DiscoveryController takes it that a daemon
creates its result once, when it starts (EnsureResult of DiscoveryDaemon).

Left out of these modules, deliberately:

- Devices without any by-id link (the fallback to `/dev/<kname>`).
- A by-id link that moves from one device to another: it may vanish and come
  back, always for the same device.
- In SymlinkRecreation, deletion and release of PVs. DeviceClaim and VolumeDeletion
  have them.
- In VolumeDeletion, nodes that the owner does not select: Reconcile then returns
  before DeletePVs and CleanupSymlinks (`lv/reconcile.go:272`,
  `lvset/reconcile.go:181`), so that OwnerGoes is about owners that keep selecting the
  node. Also changes of by-id links, and lag of the informer's store that
  SyncPVAndLVDL reads: when it lags, Create and Update are refused.
- In NodeDaemon, tolerations, the TLS arguments, the orphan ServiceMonitor, and two
  LocalVolumes that name the same class (the result follows the order of the list).
- In StorageClassOwnership, the reads and writes between which the status of a
  LocalVolumeSet is put together (`localvolumeset/status.go`): three of them, one step.
- In DiscoveryController, a LocalVolumeDiscovery without selector, for which no result
  is an orphan.
- In DeviceSelection, changes between blkid and lsblk, which make one listing, and
  LocalVolumes: theirs are devices listed by path, without age
  or count.
- The policy is set on LVDLs of proper paths only, not on those of `.tmp` files.
- preferredLinkTarget is computed from the by-id links whenever it is written,
  so it is not a variable.
- An LVDL's resource version is compared by comparing the object.
- UdevChange keeps a device recognisable (`Recoverable`): at least one link that
  the device's LVDL or its symlink knows survives a change. Without it no program
  could tell the device from a new one.

## Runs

| run | question | states |
|---|---|---|
| claim | do two reconcilers, two devices and two classes ever end in a double claim, a PV without symlink, or a claim of a mounted device; do they implement ExclusiveVolumes | 304,796 |
| recreation | do changes of by-id links, policy changes, failures and crashes outside the swap lead to a symlink to another device, a second PV or a missing symlink | 622,968 |
| recreation_settles | does the symlink end at the preferred link once changes stop | 43,149 |
| link_cache | what can the index hold while its writers race | 2,192,199 |
| link_cache_repair | does a resync repair it | 46,310 |
| deletion | is a device cleaned under a live PV, or published with data; does a bound PV lose its symlink or its finalizer, a Retain volume its data; does the deletion of an owner end | 276,492 |
| classes | has an owner that is reported ready its storage classes; do they go with it; is any owner forgotten | 1,877,208 |
| daemon | does the node daemon reconciler come to rest, and do DaemonSet, ConfigMap and owner references then say what the owners ask for; does the diskmaker ever start beside the old provisioner | 360,146 |
| discovery | does collapsing udev events lose one before it is taken; does the result become the list of devices | 106,868 |
| discovery_controller | do daemons, status and results follow the selector | 560,051 |
| selection | is a disk claimed that is in use, not asked for, too young or over the count; is every usable disk claimed in the end | 142,680 |
| operators | do the three judgements of a device agree; does merging of rows lose one or keep an old one; how much does rounding lose | 67,488 |

Every run passes. Every property has a mutant, a plausible bug in one definition,
under which TLC finds it violated; the mutants stand in the modules, before the
definitions they replace, and are used by no specification. TypeOK of every module
holds on these instances too; only DeviceClaim's, which is proved, is among the
properties of a run.

### Bounds

- *claim*: two devices, two reconcilers and two classes are the least with a
  contested device beside an uncontested one. A class in common, and several names
  for one device, are covered by theorem OneClaimPerDevice.
- *recreation*: one device has three by-id links and another has one: a device can
  come back with a preferred link no LVDL lists beside a sibling that one does, and
  another device can be mistaken for it; the liveness run has two links and one.
  Three udev changes let links vanish and come back during one swap; one fault puts
  a crash or failure at every step.
- *link_cache*: one LVDL of this node and one of another; four writes are create,
  update, delete and create again; one restart gives a second population.
- *deletion*: one path with two PVs after each other, which is what one copy that is
  too old needs; one restart; any set of Retain paths; with and without lag of
  r.Cache. Users delete Available PVs by hand.
- *classes*: a LocalVolume that moves between one class and two, and a
  LocalVolumeSet with its own; two generations; one failing call or one restart.
- *daemon*: a LocalVolume and a LocalVolumeSet that share a class, on two nodes, of
  which each may select either one or, without a selector, both; three
  changes let an owner go, come back and change while the reconciler works; one of
  them may be a restart, which repeats the removal of the old DaemonSet, and a call
  that fails takes the place of one.
- *discovery*: a device that comes and goes, one that stays, one of device mapper;
  three changes fill the period of the monitor; one failure, restart and deletion.
- *discovery_controller*: two nodes, two changes of the selector, two failing calls,
  one node lost.
- *selection*: two disks under two names, two sets of which one takes one disk at
  most; one disk detached (and attached again, under any name), one change of use,
  one restart or one Reconcile that fails. MinAge is 0 ticks: the code only asks whether an age exceeds the
  minimum, so that two ages are enough.
- *operators*: all values of the fields that the judgements look at; lists of four
  rows; units of 4 and 16 and capacities to 600, beyond ten of the larger unit.

Deadlock is checked in *claim*. The other systems may stop: with the budgets spent
there is nothing to do.

### Fairness

- SymlinkRecreation: Reconcile requeues itself after at most a minute and visits
  every device each time, so each device is chosen again and again whenever it can
  be (strong fairness of ChoosePath, because the worker is busy with other devices
  in between). A started sequence is carried on, watch events arrive (weak).
- DeviceLinkCache: the goroutines of the cache run, and controller-runtime resyncs
  its informers (weak).
- VolumeDeletion: the worker takes its next step, watches deliver and resync, the
  operator and the volume controller work, a claim is given up some day (weak). An
  update that is tried again and again succeeds, and so does the cleaning command
  (strong): a device that can never be cleaned keeps its owner, as it should.
- NodeDaemon: the reconciler, its watches (of the owners, and of its own objects),
  the garbage collector, and the end of old pods (weak).
- DiscoveryDaemon: the daemon takes its next step and its probe timer fires (weak);
  nothing is assumed of the udev monitor.
- DiscoveryController: Reconcile and the DaemonSet controller (weak).
- DeviceSelection: time passes and a Reconcile goes on (weak); every set comes back
  to the head of the queue of the one worker (strong).

DeviceClaim and StorageClassOwnership state no fairness. That no owner is forgotten
is an invariant there: when nothing is queued or running, every owner is served.

## Known divergences

Where a comment, a log line or the API says more than the code does, the property
in the run is the part that the code keeps, and the stronger one is beside it in the
module or holds only for the constants of the run. The table says how to see each: the cfg of the run, with
the changes named, and the property as the only one. Sources are under `src/`.

| source | what happens | run, changes, property |
|---|---|---|
| `pkg/diskmaker/controllers/lvset/reconcile.go:705` | GetPVCreationLock returns the error of a failed `find` with locked = true; only the lock is looked at, and a device is claimed twice ("the PV lock will fail if: ... a symlink to this device exists in symlinkDirs", `pkg/internal/diskutil.go:454`) | claim, FindErrors = {FALSE, TRUE}, AtMostOneClaim |
| `pkg/common/device_link_handler.go:318` | `<path>.tmp` left by a crash resolves while `<path>` dangles and is taken for the device's symlink: a second PV ("enabling symlink recreation without re-provisioning the PersistentVolume", `pkg/common/pv_link_cache.go:21`) | recreation, CrashPoints = {"rename"}, FailPoints = {}, OnePVPerDevice |
| `pkg/common/device_link_handler.go:298` | the same file counts as another claim of the target, before the code that would "clean up any stale .tmp" (`:315`) is reached | recreation_settles, CrashPoints = {"rename"}, EventuallySettled |
| `pkg/common/current_block_device_info.go:96` | after a crash between renaming and status update the new target vanishes: recovery refuses for ever, since the target in the status resolves ("LSO creates and updates this symlink for the whole lifetime of the PV", `api/v1/localvolumedevicelink_types.go:101`) | recreation_settles, CrashPoints = {"status"}, EventuallySettled |
| `pkg/common/symlink_utils.go:190` | a Released PV deleted by hand loses its finalizer while it is being cleaned, and the device is published under the cleaning ("PV is still being cleaned, not going to recreate it", `pkg/common/provisioner_utils.go:162`) | deletion, UserDeletes = {"Released"}, NeverCleansLive |
| `pkg/diskmaker/controllers/lv/reconcile.go:286` | with an r.Cache that lags, DeletePVs cleans a second time under the next PV, and the entry this leaves lets a later PV be deleted uncleaned | deletion, NeverCleansLiveLagging; with MaxIncarnations = 3, PublishedCleanLagging |
| `pkg/common/symlink_utils.go:185` | the symlink named by an old copy is removed before the update that is refused; the present PV can then never be cleaned, and its owner stays | deletion, OwnerGoesLagging |
| `pkg/controllers/localvolume/localvolume_controller.go:216` | a PV created by a diskmaker that has not seen the deletion outlives the owner ("stick around long enough to handle the PV reclaim policy", `pkg/common/names.go:61`) | deletion, OwnerOutlivesPVs |
| `pkg/controllers/localvolume/localvolume_controller.go:398` | the watch meant for storage classes is on PVs: a shared class deleted with one owner is not restored for the other ("watch for storageclass, enqueue owner", `:397`) | classes, Wants <- SharedClass, ClassesRestored |
| `pkg/controllers/localvolumeset/finalizer.go:62` | the finalizer goes before the class; a failure or a stop in between leaves the class ("remove storageClass if the finalizer is removed", `localvolumeset_controller.go:122`) | classes, SetLeavesNoClass |
| `pkg/controllers/localvolumeset/status.go:89` | the status names the generation of a second read, not the one that was synced ("the last generation change the operator has dealt with", `api/v1alpha1/localvolumeset_types.go:127`) | classes, Wants <- SetMoves, SetReadyHasClass |
| `pkg/controllers/nodedaemon/reconcile.go:150` | a retry no longer knows which old pods to wait for, save those of the old provisioner ("remember name to watch for pods to delete", `:156`) | daemon, Old = {old, prov}, OldPodsGoneFirst |
| `pkg/controllers/nodedaemon/aggregate.go:39` | a LocalVolumeSet for all nodes gets only those of a LocalVolume with a selector, and the reverse ("the terms should be empty to indicate matchAllNodes", `:53`) | daemon, AllMeansAll |
| `pkg/diskmaker/discovery/discovery.go:113` | an event whose listing fails is not tried again; the change waits for the next probe ("trigger probe from udev event", `:98`) | discovery, NoEventEverLost |
| `pkg/diskmaker/discovery/discovery.go:132` | the new list is remembered before it is written; a failed write is not repeated ("continuous discovery of devices", `:81`) | discovery, ResultAlwaysCurrent |
| `pkg/diskmaker/discovery/discovery.go:130` | a restarted daemon that finds no device takes this for unchanged; the old list stays | discovery, Fixed = {}, ResultCurrent |
| `pkg/controllers/localvolumediscovery/localvolumediscovery_controller.go:155` | a selector changed and changed back deletes the result of a daemon that runs on | discovery_controller, DaemonAlwaysHasResult |
| `localvolumediscovery_controller.go:207` | the status, with its generation, is written only when the message differs (`api/v1alpha1/localvolumediscovery_types.go:69`) | discovery_controller, GenerationObserved |
| `localvolumediscovery_controller.go:242` | the result of a node that left the cluster ends every Reconcile with an error and is never deleted | discovery_controller, OrphansOfLostNodesGo |
| `pkg/diskmaker/discovery/discovery.go:224` | removable devices are reported, as Available ("it should be a non-removable device", `api/v1alpha1/localvolumediscoveryresult_types.go:78`) | operators, ReportedNotRemovable |
| `pkg/diskmaker/discovery/discovery.go:212` | rows are merged by id and path: one id with two paths is listed twice ("removes duplicate devices from the list using DeviceID as a key", `:204`; "only unique devices by-id", `discovery_test.go:515`) | operators, OneRowPerID |
| `pkg/diskmaker/controllers/lvset/matcher.go:105` | without an inclusion spec there is no minimum size ("Defaults to `1Gi` if empty", `api/v1alpha1/localvolumeset_types.go:64`) | operators, DefaultMinSizeApplies |
| `pkg/diskmaker/controllers/lvset/device_age.go:57` | a disk under the kernel name of an earlier one counts as old and is claimed at once ("the minimum age for a device to be considered safe to claim", `:9`) | selection, AgedBeforeClaimAlways |
| `pkg/diskmaker/controllers/lvset/reconcile.go:588` | a disk that is away is not counted; when it returns the set exceeds MaxDeviceCount | selection, CountAlwaysRespected |
| `pkg/diskmaker/controllers/lvset/reconcile.go:290` | a disk that gets a file system after the listing is claimed ("they verify that the device itself is good to use", `matcher.go:43`) | selection, ClaimsOnlyFreeAlways |
| `pkg/diskmaker/controllers/lvset/reconcile.go:336` | one delayed device does not shorten the requeue ("if there are delayed devices", `:335`) | selection, DelayedComeBackSoon |

## Proofs

Each theorem holds for every value of the constants that satisfies the assumption
of its module: any number of devices, volumes, owners, nodes, classes and names, and
any number of failures, crashes, edits and restarts (the bounds of the runs are
arbitrary natural numbers here). The assumptions (ClaimAssumption, UnitAssumption,
RecreationAssumption, CacheAssumption, DeletionConstants, ClassConstants,
DaemonConstants, ControllerConstants, SelectionConstants with MatchingConstants) give
the constants their types, keep values that stand for nothing apart from the others,
and say that a LocalVolume is no LocalVolumeSet, that by-id links have different
ranks, that a LocalVolumeSet names one class, and that the nodes and disks that are
counted are finitely many. NoEventIsLost needs none: it is about an instance of
DiscoveryDaemon. A hypothesis in the table is one that the code needs; the section on
divergences shows what happens without most of them.

| module | theorem | states | if |
|---|---|---|---|
| DeviceClaimProofs | TypeCorrect | `[]TypeOK` | |
| | OneClaimPerDevice | `[]AtMostOneClaim` | `find` does not fail |
| | MountedNeverClaimed | `NeverClaimMounted` | |
| | LivePVKeepsSymlink | `[]LivePVHasSymlink` | no class is shared by owners |
| | Refinement | `ImplementsVolumes` | both |
| | CapacityKept | `[]LosesLessThanTenth` | |
| SymlinkRecreationProofs | SymlinksKeepTheirDevice | `[]SymlinkKeepsDevice` | |
| | OnePV | `[]OnePVPerDevice` | no crash between making a `.tmp` and renaming it |
| | SymlinksStay | `SymlinkNeverVanishes` | the same |
| DeviceLinkCacheProofs | IndexedOnce | `[]OneVersion` | |
| | IndexIsExact | `[]ExactUnlessRaced` | |
| | IndexIsPopulated | `[]FullyPopulated` | |
| VolumeDeletionProofs | ClaimsKeepTheirSymlink | `[]BoundKeepsSymlink` | |
| | LiveIsNeverCleaned | `[]NeverCleansLive` | users delete no Released PV |
| | PublishedIsClean | `[]PublishedClean` | users delete Available PVs only |
| | RetainedIsNeverCleaned | `RetainKeepsData` | |
| | BoundStays | `BoundNeverVanishes` | |
| StorageClassOwnershipProofs | NoOwnerIsForgotten | `[]NoneForgotten` | |
| | LocalVolumesLeaveNoClass | `[]LVLeavesNoClass` | |
| | ReadyMeansApplied | `[]ReadyHasClasses` | no two owners may name one class |
| NodeDaemonProofs | OldProvisionerGoesFirst | `[]ProvisionerGoneFirst` | |
| | OwnersOwnTheObjects | `[]OwnedByAll` | |
| | ConfigIsCurrent | `[]ConfigCurrent` | |
| | RunsOnSelectedNodes | `[]RunsWhereSelected` | |
| DiscoveryProofs | StatusIsCurrent | `[]StatusCurrent` | |
| | DaemonsHaveResults | `[]DaemonHasResult` | |
| | NoEventIsLost | `[]NoEventLost` of DiscoveryDaemon | |
| DeviceSelectionProofs | CountIsRespected | `[]CountRespected` | |
| | ClaimedIsFree | `ClaimsOnlyFree` | |
| | ClaimedIsAged | `AgedBeforeClaim` | |

Some hypotheses are part of the property: `~lagging` (Reconcile starts with no PV
events pending) in three of VolumeDeletion's, `raced` in ExactUnlessRaced, a
selector that was changed at most once in DaemonHasResult, owners for all nodes that
those of the other kind do not narrow in RunsWhereSelected, a listing that fails or a
monitor that ends in NoEventLost, disks that were not
detached, or not disturbed since the listing, in those of DeviceSelection.

None of the properties is inductive. What each proof adds, and why:

**DeviceClaim.** A reconciler about to create its symlink must be the only one in
that position and the device must have no symlink. LockInv says that a reconciler
between locking and linking holds the device; two cannot. ClaimInv adds that at
"link" no symlink of the device exists, which stays true because any other creation
would need the lock. LiveInv says that at "pv" the symlink is there, and that
reconcilers work on paths and own PVs of their own classes only: with disjoint
classes nobody else can remove that symlink before the PV exists. Refinement maps
`links` to claims and the PVs that are not being deleted to published paths, and
uses these invariants to show that each step is one abstract step or none. For
CapacityKept: dividing down loses less than one unit, and one unit is at most a
tenth once there are ten.

**SymlinkRecreation.** A symlink can only move to a link that an LVDL, its copy or
the job of the reconciler names, so DeviceInv says that these name links of the
device that the path was created for. One PV per device needs that the device can be
recognised whenever work on it starts: OneInv says that a symlink resolves or an
LVDL lists a link that is present (Found), that the cache lists what the LVDLs list,
that a `.tmp` exists only during a swap, and that a device has one symlink apart
from it. That a device with links has a best one (HaveBest) is a hypothesis of the
lemmas; BestOfRanks derives it, ranks being natural numbers, and the theorems use it.

**DeviceLinkCache.** VersionInv is enough for OneVersion, because addOrUpdateLVDL
removes before it adds. The other two need to know what is on the way: the last
version on the wire is that of the API server (WireInv), the last notification is
about the store (NotesInv), so that with nothing on the way the index holds the
store's version or a race is recorded (ExactInv). TargetsInv says that all versions
that may still be indexed late have the targets of the current one: targets are
changed by the reconcilers only, which start after the population, and not while a
write-through is pending.

**VolumeDeletion.** The reconciler acts on copies, so the invariants are about
copies: none that makes CleanupSymlinks act is of an incarnation before a live one
(SymlinkInv), one that makes DeletePVs act is the current version and the process
table has entries of such PVs only (CleanInv), and data is there until the deleter
has cleaned it (DataInv). They hold per volume. StepView says once what any step can
do to one volume (VolumeStep: its copies, its PV, its node, the program counter), and
the three invariants are derived from this view and not from the actions.

**StorageClassOwnership.** NoneForgotten rests on ReadInv, that an owner which is
not as its reconciler read it is a request again, and RequestInv, that an owner that
needs something is a request or worked on. Here too the steps are described once, by
what they do to owners, queue and workers (UserView, WorkerView, StepMoves). ClassInv
says that a LocalVolume has its finalizer as long as a class carries its labels, and
at which steps which labels are gone. ReadyInv adds that a generation determines the
classes and that those applied so far carry the labels.

**NodeDaemon.** PodsInv: past the wait the old provisioner is gone, and a Reconcile
that waits knows its name. DaemonInv: copies that are not behind are the objects,
what is being aggregated is what the cache says or there is another request, and at
rest the objects are those that the owners make. What they then say, class by class
and node by node, is read off the aggregation (WantedCM, WantedDS).

**Discovery.** ControllerInv carries an error that Reconcile drops: the DaemonSet is
as selected or the message in hand says that it could not be written, and replacing
that message makes another request. ResultInv: before a selector can be changed back,
daemons of the present one were started for an instance that selects it. EventInv
follows an event: what udevadm reported stays a line or with the monitor until the
daemon takes it, and what the daemon took it is about to list. Only a listing that
fails, or the end of the monitor, loses one.

**DeviceSelection.** PickInv relates the rows of the listing to the disks: while
nothing changed they agree, and valid names pass the filters (ListedInv); while no
disk was detached a name keeps its disk, which is as old as the name is known, and
the symlinks that getAlreadySymlinked counts are all there are (StayInv).

### Only model-checked

- Liveness (EventuallySettled, EventuallyComplete, OwnerGoes, ComesToRest,
  ResultCurrent, SelectionApplied, OrphansGo, UsableClaimed): the prover handles
  neither fairness nor ENABLED.
- LastRowOfEach: uniqueDevices is a fold over a list, and a proof would be an
  induction over its length.
- JudgementsAgree: it depends on a few fields with a few values each, and the run
  goes through all of them.
- The type invariants of the other modules are not theorems of their own but
  conjuncts of the inductive invariants above; that of DiscoveryDaemon is checked
  only.

Every inductive invariant also holds in TLC, as an invariant of the run of its
module. A proof module says once what its leaves are tried with (`USE`); a leaf that
needs something else says so.

## Not modelled

- Event reporters, metrics, alerts and the conditions of a LocalVolumeSet
  (`localvolumeset/conditions.go`): nothing in the system reads them back. That
  exporting metrics may fail, and ends a Reconcile, is a step of NodeDaemon and
  DiscoveryController.
- The TLS profile watch and the wiring in `cmd`: they start processes.
- API types and generated code: declarations.
- The text of lsblk, blkid and udevadm: a parser of text says nothing here that a
  unit test does not. Rows, their fields and lines that match or not are modelled.
- Names of PVs: a hash, whose collisions a model would have to assume.
- The configuration file of the diskmaker and its table of device paths
  (`disktable.go`), labels and maps (`InitMapIfNil`): one call, one answer.

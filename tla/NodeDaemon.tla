------------------------------ MODULE NodeDaemon ------------------------------
(***************************************************************************)
(* The operator's node daemon controller: one ConfigMap and one diskmaker  *)
(* DaemonSet for all LocalVolumes and LocalVolumeSets of the namespace.    *)
(* Every Reconcile lists the owners, aggregates what they ask for, and     *)
(* creates or updates the two objects; once per process it first removes   *)
(* the DaemonSets of older releases and waits for their pods.              *)
(*                                                                         *)
(* The controller reads from its cache: the copy of an owner or an object  *)
(* that the last delivered event left there.  Kubernetes' garbage          *)
(* collector deletes an object when none of the owners it refers to is     *)
(* left.                                                                   *)
(***************************************************************************)
EXTENDS Naturals, FiniteSets

CONSTANTS
    LVs, Sets,   \* the names of LocalVolumes and LocalVolumeSets
    Nodes,
    Specs,       \* specs of owners: a node selector (a set of nodes, or Nil) and a mode
    Nil,         \* no node selector: all nodes
    Modes,       \* what a storage class is configured with
    ClassOf,     \* ClassOf[o]: the storage class of owner o
    Old,         \* the DaemonSets of older releases, ...
    OldProvisioner, \* ... one of which is found by its name
    MaxChanges,  \* bound: changes of the owners, of the objects by others, and restarts
    MayRestart,  \* whether the operator restarts
    MaxFails     \* bound: calls that fail, and waits that time out

Owners == LVs \cup Sets
Classes == {ClassOf[o] : o \in Owners}

ASSUME DaemonConstants ==
    /\ LVs \cap Sets = {} /\ OldProvisioner \in Old
    /\ \A spec \in Specs : spec.mode \in Modes /\ (spec.sel = Nil \/ spec.sel \subseteq Nodes)
    /\ MaxChanges \in Nat /\ MaxFails \in Nat /\ MayRestart \in BOOLEAN

VARIABLES
    owner,     \* the owners in the API server
    seen,      \* the owners in the cache
    cm, ds,    \* the ConfigMap and the DaemonSet in the API server
    cmSeen, dsSeen, \* their copies in the cache
    late,      \* which of the two copies are behind
    queued,    \* a request is waiting
    pc, agg,   \* the request being handled and what it has aggregated
    oldDS, oldPods, \* DaemonSets of older releases, and those with pods left
    cleaned,   \* deletedStaticProvisioner
    appNameList,
    changes, fails

apiVars == <<owner, cm, ds>>
cacheVars == <<seen, cmSeen, dsSeen, late>>
oldVars == <<oldDS, oldPods, cleaned, appNameList>>
bounds == <<changes, fails>>
vars == <<apiVars, cacheVars, queued, pc, agg, oldVars, bounds>>

Absent == [uid |-> 0, sel |-> Nil, mode |-> "none"]
NoObject == [refs |-> {}, nodes |-> {}, data |-> <<>>]
NoAgg == [sets |-> [o \in Sets |-> Absent], lvs |-> [o \in LVs |-> Absent]]

Spec0 == [uid : 1..MaxChanges, sel : {spec.sel : spec \in Specs}, mode : Modes] \cup {Absent}
Config == [Classes -> Modes \cup {"none"}]
Object == [refs : SUBSET (Owners \X (1..MaxChanges)), nodes : SUBSET Nodes, data : Config]

TypeOK ==
    /\ owner \in [Owners -> Spec0] /\ seen \in [Owners -> Spec0]
    /\ {cm, ds, cmSeen, dsSeen} \subseteq Object \cup {NoObject}
    /\ late \subseteq {"cm", "ds"}
    /\ queued \in BOOLEAN
    /\ pc \in {"idle", "listOld", "wait", "listSets", "listLVs", "configMap", "metrics", "daemonSet"}
    /\ agg \in [sets : [Sets -> Spec0], lvs : [LVs -> Spec0]]
    /\ oldDS \subseteq Old /\ oldPods \subseteq Old /\ appNameList \subseteq Old
    /\ cleaned \in BOOLEAN
    /\ changes \in 0..MaxChanges /\ fails \in 0..MaxFails

Init ==
    /\ owner = [o \in Owners |-> Absent] /\ seen = owner
    /\ cm = NoObject /\ ds = NoObject /\ cmSeen = cm /\ dsSeen = ds /\ late = {}
    /\ queued = FALSE /\ pc = "idle" /\ agg = NoAgg
    /\ oldDS \in SUBSET Old /\ oldPods = oldDS
    /\ cleaned = FALSE /\ appNameList = {}
    /\ changes = 0 /\ fails = 0

-----------------------------------------------------------------------------
(* What the owners ask for.                                                *)

Exists(o, l) == l[o].uid # 0

\* The terms of one kind of owner: none if one of them has no selector.
Terms(l) ==
    LET there == {o \in DOMAIN l : Exists(o, l)}
    IN IF \E o \in there : l[o].sel = Nil THEN {} ELSE {l[o].sel : o \in there}

\* Mutant: LocalVolumes select only if no LocalVolumeSet does.
NodeSelectorOfSets(a) ==
    LET terms == IF Terms(a.sets) = {} THEN Terms(a.lvs) ELSE Terms(a.sets)
    IN IF terms = {} THEN Nodes ELSE UNION terms

\* extractLVSetInfo, extractLVInfo and aggregateDeamonInfo: the terms of both
\* kinds together; without any term, all nodes.
NodeSelector(a) ==
    LET terms == Terms(a.sets) \cup Terms(a.lvs)
    IN IF terms = {} THEN Nodes ELSE UNION terms

\* Mutant: LocalVolumes become owners only if there is no LocalVolumeSet.
OwnerRefsOfSets(a) ==
    LET sets == {o \in Sets : Exists(o, a.sets)}
        lvs == {o \in LVs : Exists(o, a.lvs)}
    IN IF sets # {} THEN {<<o, a.sets[o].uid>> : o \in sets}
                    ELSE {<<o, a.lvs[o].uid>> : o \in lvs}

OwnerRefs(a) ==
    {<<o, a.sets[o].uid>> : o \in {o \in Sets : Exists(o, a.sets)}}
        \cup {<<o, a.lvs[o].uid>> : o \in {o \in LVs : Exists(o, a.lvs)}}

\* Mutant: LocalVolumeSets overwrite the class of a LocalVolume.
ConfigDataSetsLast(a) ==
    [c \in Classes |->
        LET lvs == {o \in LVs : Exists(o, a.lvs) /\ ClassOf[o] = c}
            sets == {o \in Sets : Exists(o, a.sets) /\ ClassOf[o] = c}
        IN IF sets # {} THEN a.sets[CHOOSE o \in sets : TRUE].mode
           ELSE IF lvs # {} THEN a.lvs[CHOOSE o \in lvs : TRUE].mode
           ELSE "none"]

\* reconcileProvisionerConfigMap: the LocalVolumes come after the LocalVolumeSets.
ConfigData(a) ==
    [c \in Classes |->
        LET lvs == {o \in LVs : Exists(o, a.lvs) /\ ClassOf[o] = c}
            sets == {o \in Sets : Exists(o, a.sets) /\ ClassOf[o] = c}
        IN IF lvs # {} THEN a.lvs[CHOOSE o \in lvs : TRUE].mode
           ELSE IF sets # {} THEN a.sets[CHOOSE o \in sets : TRUE].mode
           ELSE "none"]

-----------------------------------------------------------------------------
(* Everybody else.                                                         *)

Change == changes < MaxChanges /\ changes' = changes + 1

PutOwner(o) ==
    /\ Change
    /\ \E spec \in Specs :
          owner' = [owner EXCEPT ![o] = [uid |-> IF @.uid = 0 THEN changes + 1 ELSE @.uid,
                                         sel |-> spec.sel, mode |-> spec.mode]]
    /\ owner' # owner
    /\ UNCHANGED <<cm, ds, cacheVars, queued, pc, agg, oldVars, fails>>

RemoveOwner(o) ==
    /\ Change /\ owner[o] # Absent
    /\ owner' = [owner EXCEPT ![o] = Absent]
    /\ UNCHANGED <<cm, ds, cacheVars, queued, pc, agg, oldVars, fails>>

\* The object is changed or deleted by someone else.
TamperDS ==
    /\ Change /\ ds # NoObject
    /\ \E nodes \in SUBSET Nodes : ds' \in {NoObject, [ds EXCEPT !.nodes = nodes]}
    /\ ds' # ds /\ late' = late \cup {"ds"}
    /\ UNCHANGED <<owner, cm, seen, cmSeen, dsSeen, queued, pc, agg, oldVars, fails>>

TamperCM ==
    /\ Change /\ cm # NoObject
    /\ \E m \in Modes : cm' \in {NoObject, [cm EXCEPT !.data = [c \in Classes |-> m]]}
    /\ cm' # cm /\ late' = late \cup {"cm"}
    /\ UNCHANGED <<owner, ds, seen, cmSeen, dsSeen, queued, pc, agg, oldVars, fails>>

\* The garbage collector: none of the owners of the object exists any more.
Orphaned(obj) == obj # NoObject /\ \A r \in obj.refs : owner[r[1]].uid # r[2]

CollectDS ==
    /\ Orphaned(ds)
    /\ ds' = NoObject /\ late' = late \cup {"ds"}
    /\ UNCHANGED <<owner, cm, seen, cmSeen, dsSeen, queued, pc, agg, oldVars, bounds>>

CollectCM ==
    /\ Orphaned(cm)
    /\ cm' = NoObject /\ late' = late \cup {"cm"}
    /\ UNCHANGED <<owner, ds, seen, cmSeen, dsSeen, queued, pc, agg, oldVars, bounds>>

\* The pods of a deleted DaemonSet die when they can.
OldPodDies(p) ==
    /\ p \in oldPods \ oldDS
    /\ oldPods' = oldPods \ {p}
    /\ UNCHANGED <<apiVars, cacheVars, queued, pc, agg, oldDS, cleaned, appNameList, bounds>>

-----------------------------------------------------------------------------
(* Events: each of the watches enqueues the namespace.                     *)

SeeOwner(o) ==
    /\ seen[o] # owner[o]
    /\ seen' = [seen EXCEPT ![o] = owner[o]] /\ queued' = TRUE
    /\ UNCHANGED <<apiVars, cmSeen, dsSeen, late, pc, agg, oldVars, bounds>>

SeeCM ==
    /\ "cm" \in late
    /\ cmSeen' = cm /\ late' = late \ {"cm"} /\ queued' = TRUE
    /\ UNCHANGED <<apiVars, seen, dsSeen, pc, agg, oldVars, bounds>>

SeeDS ==
    /\ "ds" \in late
    /\ dsSeen' = ds /\ late' = late \ {"ds"} /\ queued' = TRUE
    /\ UNCHANGED <<apiVars, seen, cmSeen, pc, agg, oldVars, bounds>>

-----------------------------------------------------------------------------
(* Reconcile.                                                              *)

Begin ==
    /\ pc = "idle" /\ queued
    /\ queued' = FALSE
    /\ pc' = IF cleaned THEN "listSets" ELSE "listOld"
    /\ UNCHANGED <<apiVars, cacheVars, agg, oldVars, bounds>>

\* An error ends Reconcile; the request is tried again.
Retry == pc' = "idle" /\ queued' = TRUE /\ agg' = NoAgg

\* Mutant: the pods of the old provisioner are waited for only if it is found.
DeleteOldFound ==
    /\ pc = "listOld"
    /\ oldDS' = {} /\ appNameList' = oldDS /\ pc' = "wait"
    /\ UNCHANGED <<apiVars, cacheVars, queued, agg, oldPods, cleaned, bounds>>

\* cleanupOldDaemonsets lists the old DaemonSets, remembers their names and
\* deletes them, up to the first error.
DeleteOld ==
    /\ pc = "listOld"
    /\ \/ /\ oldDS' = {} /\ appNameList' = oldDS \cup {OldProvisioner}
          /\ pc' = "wait"
          /\ UNCHANGED <<queued, agg, fails>>
       \/ /\ fails < MaxFails /\ fails' = fails + 1
          /\ oldDS' \in SUBSET oldDS /\ appNameList' = {}
          /\ Retry
    /\ UNCHANGED <<apiVars, cacheVars, oldPods, cleaned, changes>>

\* It waits until no pod has one of these names.
OldPodsGone ==
    /\ pc = "wait" /\ oldPods \cap appNameList = {}
    /\ cleaned' = TRUE /\ appNameList' = {} /\ pc' = "listSets"
    /\ UNCHANGED <<apiVars, cacheVars, queued, agg, oldDS, oldPods, bounds>>

\* The wait ends without that.
WaitFails ==
    /\ pc = "wait" /\ fails < MaxFails
    /\ fails' = fails + 1 /\ appNameList' = {}
    /\ Retry
    /\ UNCHANGED <<apiVars, cacheVars, oldDS, oldPods, cleaned, changes>>

ListSets ==
    /\ pc = "listSets"
    /\ agg' = [agg EXCEPT !.sets = [o \in Sets |-> seen[o]]] /\ pc' = "listLVs"
    /\ UNCHANGED <<apiVars, cacheVars, queued, oldVars, bounds>>

\* Without owners there is nothing to do.
ListLVs ==
    /\ pc = "listLVs"
    /\ LET a == [agg EXCEPT !.lvs = [o \in LVs |-> seen[o]]]
       IN IF OwnerRefs(a) = {} THEN agg' = NoAgg /\ pc' = "idle"
                               ELSE agg' = a /\ pc' = "configMap"
    /\ UNCHANGED <<apiVars, cacheVars, queued, oldVars, bounds>>

\* CreateOrUpdate compares with the copy in the cache, and writes if it differs;
\* the write is refused when the copy is behind.
ReconcileConfigMap ==
    /\ pc = "configMap"
    /\ LET want == [refs |-> OwnerRefs(agg), nodes |-> {}, data |-> ConfigData(agg)]
       IN \/ /\ want = cmSeen /\ pc' = "metrics"
             /\ UNCHANGED <<cm, late, queued, agg>>
          \/ /\ want # cmSeen /\ "cm" \notin late
             /\ cm' = want /\ late' = late \cup {"cm"} /\ pc' = "metrics"
             /\ UNCHANGED <<queued, agg>>
          \/ /\ want # cmSeen /\ "cm" \in late
             /\ Retry /\ UNCHANGED <<cm, late>>
    /\ UNCHANGED <<owner, ds, seen, cmSeen, dsSeen, oldVars, bounds>>

\* The services, monitors and alert rules of the daemon.
EnableMetrics ==
    /\ pc = "metrics"
    /\ \/ pc' = "daemonSet" /\ UNCHANGED <<queued, agg, fails>>
       \/ fails < MaxFails /\ fails' = fails + 1 /\ Retry
    /\ UNCHANGED <<apiVars, cacheVars, oldVars, changes>>

WantedDS(a) == [refs |-> OwnerRefs(a), nodes |-> NodeSelector(a), data |-> ConfigData(a)]

\* Mutant: the DaemonSet is written although nothing differs.
ReconcileDaemonSetAlways ==
    /\ pc = "daemonSet"
    /\ \/ /\ "ds" \notin late
          /\ ds' = WantedDS(agg) /\ late' = late \cup {"ds"}
          /\ pc' = "idle" /\ agg' = NoAgg
          /\ UNCHANGED queued
       \/ "ds" \in late /\ Retry /\ UNCHANGED <<ds, late>>
    /\ UNCHANGED <<owner, cm, seen, cmSeen, dsSeen, oldVars, bounds>>

ReconcileDaemonSet ==
    /\ pc = "daemonSet"
    /\ \/ /\ WantedDS(agg) = dsSeen /\ pc' = "idle" /\ agg' = NoAgg
          /\ UNCHANGED <<ds, late, queued>>
       \/ /\ WantedDS(agg) # dsSeen /\ "ds" \notin late
          /\ ds' = WantedDS(agg) /\ late' = late \cup {"ds"}
          /\ pc' = "idle" /\ agg' = NoAgg
          /\ UNCHANGED queued
       \/ /\ WantedDS(agg) # dsSeen /\ "ds" \in late
          /\ Retry /\ UNCHANGED <<ds, late>>
    /\ UNCHANGED <<owner, cm, seen, cmSeen, dsSeen, oldVars, bounds>>

\* The operator restarts: its caches are filled anew, each object is an event, and
\* the old DaemonSets are looked for again.
Restart ==
    /\ MayRestart /\ Change
    /\ pc' = "idle" /\ agg' = NoAgg /\ cleaned' = FALSE /\ appNameList' = {}
    /\ seen' = owner /\ cmSeen' = cm /\ dsSeen' = ds /\ late' = {}
    /\ queued' = (ds # NoObject \/ cm # NoObject \/ \E o \in Owners : owner[o] # Absent)
    /\ UNCHANGED <<apiVars, oldDS, oldPods, fails>>

Reconcile ==
    \/ Begin \/ DeleteOld \/ OldPodsGone \/ WaitFails \/ ListSets \/ ListLVs
    \/ ReconcileConfigMap \/ EnableMetrics \/ ReconcileDaemonSet

Next ==
    \/ \E o \in Owners : PutOwner(o) \/ RemoveOwner(o) \/ SeeOwner(o)
    \/ TamperDS \/ TamperCM \/ CollectDS \/ CollectCM
    \/ \E p \in Old : OldPodDies(p)
    \/ SeeCM \/ SeeDS
    \/ Reconcile \/ Restart

Spec == Init /\ [][Next]_vars

(* Requests are handled, events are delivered, the garbage collector runs    *)
(* and the pods of deleted DaemonSets die.                                   *)
Fairness ==
    /\ WF_vars(Reconcile)
    /\ WF_vars(SeeCM \/ SeeDS)
    /\ WF_vars(\E o \in Owners : SeeOwner(o))
    /\ WF_vars(CollectDS \/ CollectCM)
    /\ WF_vars(\E p \in Old : OldPodDies(p))

FairSpec == Spec /\ Fairness

-----------------------------------------------------------------------------
Present == {o \in Owners : owner[o] # Absent}
Quiet == pc = "idle" /\ ~queued /\ late = {} /\ seen = owner /\ ~Orphaned(ds) /\ ~Orphaned(cm)

Selected(o) == IF owner[o].sel = Nil THEN Nodes ELSE owner[o].sel

\* Owners of one kind ask for all nodes, and those of the other kind, which all have
\* a selector, narrow this to theirs.
AsksForAll(kind) == \E o \in kind \cap Present : owner[o].sel = Nil
Narrowed ==
    \E kind \in {LVs, Sets} : /\ AsksForAll(kind) /\ ~AsksForAll(Owners \ kind)
                             /\ (Owners \ kind) \cap Present # {}

(* When nothing is left to do, the diskmaker runs on exactly the nodes that  *)
(* its owners select, and a LocalVolume or LocalVolumeSet without a selector *)
(* selects all of them, unless owners of the other kind narrow its nodes.    *)
RunsWhereSelected ==
    Quiet /\ Present # {} /\ ~Narrowed => ds.nodes = UNION {Selected(o) : o \in Present}

(* When nothing is left to do, the ConfigMap has every class of an owner, as *)
(* one of the owners of that class, a LocalVolume before a LocalVolumeSet,   *)
(* configures it; and the DaemonSet carries the hash of just that ConfigMap. *)
ConfigCurrent ==
    Quiet /\ Present # {} =>
        /\ ds.data = cm.data
        /\ \A o \in Present : \E p \in Present :
              /\ ClassOf[p] = ClassOf[o] /\ cm.data[ClassOf[o]] = owner[p].mode
              /\ o \in LVs => p \in LVs

(* When nothing is left to do, both objects live exactly as long as the      *)
(* owners there are: the garbage collector removes them with the last one    *)
(* and not before.                                                           *)
OwnedByAll ==
    Quiet =>
        /\ Present = {} => cm = NoObject /\ ds = NoObject
        /\ Present # {} => /\ ds.refs = {<<o, owner[o].uid>> : o \in Present}
                           /\ cm.refs = ds.refs

(* Changes of the owners, deletions and edits of the objects, conflicts and  *)
(* failures notwithstanding, there comes an end to what is left to do.       *)
ComesToRest == <>[]Quiet

(* The diskmaker starts only after the pods of the old provisioner, which    *)
(* work on the same devices, are gone: the wait for them is repeated after   *)
(* every failure, timeout and restart.                                       *)
ProvisionerGoneFirst == ds # NoObject => OldProvisioner \notin oldPods

-----------------------------------------------------------------------------
(* What the comments say, and what the code does not do.                     *)

(* An owner without a selector makes the diskmaker run on all nodes.  The    *)
(* terms of the other kind of owner are appended to its empty list of terms. *)
AllMeansAll ==
    Quiet /\ (\E o \in Present : owner[o].sel = Nil) => ds.nodes = Nodes

(* The pods of all older DaemonSets are gone first.  A retry no longer knows *)
(* the other names.                                                          *)
OldPodsGoneFirst == ds # NoObject => oldPods = {}
=============================================================================

--------------------------- MODULE NodeDaemonProofs ---------------------------
(***************************************************************************)
(* Proofs about NodeDaemon for any number of owners, nodes, classes and    *)
(* older DaemonSets, of changes, failures and restarts.                    *)
(***************************************************************************)
EXTENDS NodeDaemon, TLAPS

\* What a leaf is tried with, if it does not say.
USE ZenonT(5), SMTT(30), Z3T(30), ZenonT(30)

(***************************************************************************)
(* The pods of the old provisioner: once they are known to be gone, they   *)
(* stay away; as long as they are waited for, the wait is for theirs too.  *)
(***************************************************************************)
ProvisionerGone == OldProvisioner \notin oldPods

PodsInv ==
    /\ oldDS \subseteq Old
    /\ cleaned => ProvisionerGone
    /\ pc \notin {"idle", "listOld", "wait"} => ProvisionerGone
    /\ pc = "wait" => OldProvisioner \in appNameList
    /\ ProvisionerGoneFirst

(***************************************************************************)
(* What the owners in the cache ask for, and the objects this makes.       *)
(***************************************************************************)
Asked == [sets |-> [o \in Sets |-> seen[o]], lvs |-> [o \in LVs |-> seen[o]]]
WantedCM(a) == [refs |-> OwnerRefs(a), nodes |-> {}, data |-> ConfigData(a)]

\* A copy that is not behind is the object.
CacheInv == ("cm" \notin late => cmSeen = cm) /\ ("ds" \notin late => dsSeen = ds)

\* What is being handled is what the cache says, or there is a further request.
AggInv ==
    \/ queued
    \/ /\ pc = "listLVs" => agg.sets = Asked.sets
       /\ pc \in {"configMap", "metrics", "daemonSet"} => agg = Asked

\* The objects are what was asked for, or there is something left to do.
ConfigMapInv ==
    pc \in {"metrics", "daemonSet"} => queued \/ "cm" \in late \/ cmSeen = WantedCM(agg)

RestInv ==
    pc = "idle" =>
        \/ queued \/ late # {} \/ OwnerRefs(Asked) = {}
        \/ cmSeen = WantedCM(Asked) /\ dsSeen = WantedDS(Asked)

DaemonInv == TypeOK /\ CacheInv /\ AggInv /\ ConfigMapInv /\ RestInv

-----------------------------------------------------------------------------
(* The old provisioner.                                                    *)

\* The DaemonSet is not created before the pods of the old provisioner are gone.
LEMMA PodsStep ==
    ASSUME PodsInv, [Next]_vars
    PROVE  PodsInv'
  <1> USE DaemonConstants
      DEF PodsInv, ProvisionerGone, ProvisionerGoneFirst, oldVars, apiVars, bounds, cacheVars
  <1>1. ASSUME UNCHANGED <<oldVars, pc>>, ds # NoObject \/ ds' \in {NoObject, ds}
        PROVE  PodsInv'
    BY <1>1
  <1>2. ASSUME NEW o \in Owners, PutOwner(o) \/ RemoveOwner(o) \/ SeeOwner(o)
        PROVE  PodsInv'
    BY <1>1, <1>2 DEF PutOwner, RemoveOwner, SeeOwner
  <1>3. CASE TamperDS \/ TamperCM \/ CollectDS \/ CollectCM \/ SeeCM \/ SeeDS
    BY <1>1, <1>3 DEF TamperDS, TamperCM, CollectDS, CollectCM, SeeCM, SeeDS
  <1>4. ASSUME NEW p \in Old, OldPodDies(p)
        PROVE  PodsInv'
    BY <1>4 DEF OldPodDies
  <1>5. CASE Begin
    BY <1>5 DEF Begin
  <1>6. CASE DeleteOld
    BY <1>6 DEF DeleteOld, Retry
  <1>7. CASE OldPodsGone
    BY <1>7 DEF OldPodsGone
  <1>8. CASE WaitFails
    BY <1>8 DEF WaitFails, Retry
  <1>9. CASE ListSets \/ ListLVs
    BY <1>9 DEF ListSets, ListLVs
  <1>10. CASE ReconcileConfigMap
    BY <1>10 DEF ReconcileConfigMap, Retry
  <1>11. CASE EnableMetrics
    BY <1>11 DEF EnableMetrics, Retry
  <1>12. CASE ReconcileDaemonSet
    BY <1>12 DEF ReconcileDaemonSet, Retry
  <1>13. CASE Restart
    BY <1>13 DEF Restart
  <1>14. CASE UNCHANGED vars
    BY <1>14 DEF vars
  <1> QED
    BY <1>2, <1>3, <1>4, <1>5, <1>6, <1>7, <1>8, <1>9, <1>10, <1>11, <1>12, <1>13, <1>14
       DEF Next, Reconcile

(***************************************************************************)
(* The diskmaker DaemonSet exists only after the pods of the old           *)
(* provisioner are gone: whatever fails, times out or restarts, and        *)
(* whoever deletes the DaemonSet, it is created only by a Reconcile that   *)
(* has waited for them or follows one that has.                            *)
(***************************************************************************)
THEOREM OldProvisionerGoesFirst == Spec => []ProvisionerGoneFirst
  <1>1. Init => PodsInv
    BY DEF Init, PodsInv, ProvisionerGoneFirst
  <1>2. PodsInv /\ [Next]_vars => PodsInv'
    BY PodsStep
  <1>3. PodsInv => ProvisionerGoneFirst
    BY DEF PodsInv
  <1> QED
    BY <1>1, <1>2, <1>3, PTL DEF Spec

-----------------------------------------------------------------------------
(* Types.                                                                  *)

Aggs == [sets : [Sets -> Spec0], lvs : [LVs -> Spec0]]
Objects == Object \cup {NoObject}

\* What the cache holds of owners, and what is made of it.
LEMMA OwnerTypes ==
    /\ Absent \in Spec0 /\ NoAgg \in Aggs
    /\ \A s \in Spec0 : /\ s.uid \in 0..MaxChanges /\ (s.uid = 0 <=> s = Absent)
                        /\ s.mode \in Modes \cup {"none"}
                        /\ s # Absent => s.mode \in Modes /\ (s.sel = Nil \/ s.sel \subseteq Nodes)
  <1>1. Absent \in Spec0 /\ NoAgg \in Aggs
    BY DEF Spec0, NoAgg, Aggs
  <1>2. ASSUME NEW s \in Spec0
        PROVE  /\ s.uid \in 0..MaxChanges /\ (s.uid = 0 <=> s = Absent)
               /\ s.mode \in Modes \cup {"none"}
               /\ s # Absent => s.mode \in Modes /\ (s.sel = Nil \/ s.sel \subseteq Nodes)
    <2>1. CASE s = Absent
      BY <2>1, DaemonConstants DEF Absent
    <2>2. CASE s \in [uid : 1..MaxChanges, sel : {spec.sel : spec \in Specs}, mode : Modes]
      <3>1. s.uid \in 1..MaxChanges /\ s.mode \in Modes /\ s.sel \in {spec.sel : spec \in Specs}
        BY <2>2
      <3>2. s # Absent
        BY <3>1, DaemonConstants DEF Absent
      <3> QED
        BY <3>1, <3>2, DaemonConstants
    <2> QED
      BY <2>1, <2>2 DEF Spec0
  <1> QED
    BY <1>1, <1>2

\* A choice from a set is in it.
LEMMA ChooseMember ==
    ASSUME NEW S, S # {}
    PROVE  (CHOOSE o \in S : TRUE) \in S
  OBVIOUS

\* What is aggregated makes objects.
LEMMA WantedTypes ==
    ASSUME NEW a \in Aggs
    PROVE  /\ OwnerRefs(a) \in SUBSET (Owners \X (1..MaxChanges))
           /\ NodeSelector(a) \in SUBSET Nodes
           /\ ConfigData(a) \in Config
           /\ WantedCM(a) \in Objects /\ WantedDS(a) \in Objects
  <1>1. a.sets \in [Sets -> Spec0] /\ a.lvs \in [LVs -> Spec0]
    BY DEF Aggs
  <1>2. ASSUME NEW o \in Sets, Exists(o, a.sets)
        PROVE  <<o, a.sets[o].uid>> \in Owners \X (1..MaxChanges)
    <2>1. a.sets[o].uid \in 0..MaxChanges /\ a.sets[o].uid # 0 /\ o \in Owners
      BY <1>1, <1>2, OwnerTypes DEF Exists, Owners
    <2> QED
      BY <2>1, DaemonConstants
  <1>3. ASSUME NEW o \in LVs, Exists(o, a.lvs)
        PROVE  <<o, a.lvs[o].uid>> \in Owners \X (1..MaxChanges)
    <2>1. a.lvs[o].uid \in 0..MaxChanges /\ a.lvs[o].uid # 0 /\ o \in Owners
      BY <1>1, <1>3, OwnerTypes DEF Exists, Owners
    <2> QED
      BY <2>1, DaemonConstants
  <1>4. OwnerRefs(a) \in SUBSET (Owners \X (1..MaxChanges))
    BY <1>2, <1>3 DEF OwnerRefs
  <1>5. ASSUME NEW K, NEW l \in [K -> Spec0]
        PROVE  \A t \in Terms(l) : t \subseteq Nodes
    <2> SUFFICES ASSUME NEW o \in K, Exists(o, l), l[o].sel # Nil
                 PROVE  l[o].sel \subseteq Nodes
      BY DEF Terms
    <2>1. l[o] \in Spec0 /\ l[o].uid # 0
      BY DEF Exists
    <2> QED
      BY <2>1, OwnerTypes
  <1>6. NodeSelector(a) \in SUBSET Nodes
    <2>1. \A t \in Terms(a.sets) \cup Terms(a.lvs) : t \subseteq Nodes
      BY <1>1, <1>5
    <2> QED
      BY <2>1 DEF NodeSelector
  <1>7. ConfigData(a) \in Config
    <2> SUFFICES ASSUME NEW c \in Classes
                 PROVE  ConfigData(a)[c] \in Modes \cup {"none"}
      BY DEF ConfigData, Config
    <2> DEFINE lvs == {o \in LVs : Exists(o, a.lvs) /\ ClassOf[o] = c}
               sets == {o \in Sets : Exists(o, a.sets) /\ ClassOf[o] = c}
    <2>1. ConfigData(a)[c] = IF lvs # {} THEN a.lvs[CHOOSE o \in lvs : TRUE].mode
                             ELSE IF sets # {} THEN a.sets[CHOOSE o \in sets : TRUE].mode
                             ELSE "none"
      BY DEF ConfigData
    <2>2. lvs # {} => (CHOOSE o \in lvs : TRUE) \in LVs
      BY ChooseMember
    <2>3. sets # {} => (CHOOSE o \in sets : TRUE) \in Sets
      BY ChooseMember
    <2> HIDE DEF lvs, sets
    <2> QED
      BY <1>1, <2>1, <2>2, <2>3, OwnerTypes
  <1> QED
    BY <1>4, <1>6, <1>7 DEF WantedCM, WantedDS, Objects, Object

\* Types, at first ...
LEMMA TypeInit == Init => TypeOK
  <1> SUFFICES ASSUME Init PROVE TypeOK
    OBVIOUS
  <1>1. owner \in [Owners -> Spec0] /\ seen \in [Owners -> Spec0] /\ agg \in Aggs
    BY OwnerTypes DEF Init
  <1>2. {cm, ds, cmSeen, dsSeen} \subseteq Object \cup {NoObject}
    BY DEF Init
  <1>3. queued \in BOOLEAN /\ cleaned \in BOOLEAN
    BY DEF Init
  <1> QED
    BY <1>1, <1>2, <1>3, DaemonConstants DEF Init, TypeOK, Aggs

\* ... and after every step.
LEMMA TypeStep ==
    ASSUME TypeOK, [Next]_vars
    PROVE  TypeOK'
  <1> USE DaemonConstants DEF oldVars, apiVars, bounds, cacheVars, Aggs, Change, Retry
  <1>0. NoAgg \in Aggs /\ agg \in Aggs
    BY OwnerTypes DEF TypeOK
  <1>1. ASSUME NEW o \in Owners, PutOwner(o)
        PROVE  TypeOK'
    <2>1. PICK spec \in Specs :
              owner' = [owner EXCEPT ![o] = [uid |-> IF owner[o].uid = 0 THEN changes + 1
                                                     ELSE owner[o].uid,
                                             sel |-> spec.sel, mode |-> spec.mode]]
      BY <1>1 DEF PutOwner
    <2> DEFINE u == IF owner[o].uid = 0 THEN changes + 1 ELSE owner[o].uid
    <2>2. owner[o] \in Spec0
      BY DEF TypeOK
    <2>3. owner[o].uid \in 0..MaxChanges
      BY <2>2, OwnerTypes
    <2>4. u \in 1..MaxChanges /\ changes' \in 0..MaxChanges
      BY <1>1, <2>3 DEF PutOwner, TypeOK
    <2>5. [uid |-> u, sel |-> spec.sel, mode |-> spec.mode] \in Spec0
      BY <2>4 DEF Spec0
    <2> HIDE DEF u
    <2>6. owner' \in [Owners -> Spec0]
      BY <2>1, <2>5 DEF TypeOK, u
    <2> QED
      BY <1>1, <2>4, <2>6 DEF PutOwner, TypeOK
  <1>2. ASSUME NEW o \in Owners, RemoveOwner(o)
        PROVE  TypeOK'
    <2>1. owner' \in [Owners -> Spec0]
      BY <1>2, OwnerTypes DEF RemoveOwner, TypeOK
    <2> QED
      BY <1>2, <2>1 DEF RemoveOwner, TypeOK
  <1>3. ASSUME NEW o \in Owners, SeeOwner(o)
        PROVE  TypeOK'
    <2>1. seen' \in [Owners -> Spec0]
      BY <1>3 DEF SeeOwner, TypeOK
    <2> QED
      BY <1>3, <2>1 DEF SeeOwner, TypeOK
  <1>4. CASE TamperDS
    <2>1. PICK nodes \in SUBSET Nodes : ds' \in {NoObject, [ds EXCEPT !.nodes = nodes]}
      BY <1>4 DEF TamperDS
    <2>2. ds \in Object
      BY <1>4 DEF TamperDS, TypeOK
    <2>3. ds' \in Object \cup {NoObject}
      BY <2>1, <2>2 DEF Object
    <2> QED
      BY <1>4, <2>3 DEF TamperDS, TypeOK
  <1>5. CASE TamperCM
    <2>1. PICK m \in Modes : cm' \in {NoObject, [cm EXCEPT !.data = [c \in Classes |-> m]]}
      BY <1>5 DEF TamperCM
    <2>2. cm \in Object /\ [c \in Classes |-> m] \in Config
      BY <1>5 DEF TamperCM, TypeOK, Config
    <2>3. cm' \in Object \cup {NoObject}
      BY <2>1, <2>2 DEF Object
    <2> QED
      BY <1>5, <2>3 DEF TamperCM, TypeOK
  <1>6. CASE CollectDS \/ CollectCM \/ SeeCM \/ SeeDS
    BY <1>6, ZenonT(60) DEF CollectDS, CollectCM, SeeCM, SeeDS, TypeOK
  <1>7. ASSUME NEW p \in Old, OldPodDies(p)
        PROVE  TypeOK'
    BY <1>7 DEF OldPodDies, TypeOK
  <1>8. CASE Begin \/ OldPodsGone
    BY <1>8 DEF Begin, OldPodsGone, TypeOK
  <1>9. CASE DeleteOld \/ WaitFails \/ EnableMetrics
    <2>1. agg' \in Aggs
      <3>1. agg' = agg \/ agg' = NoAgg
        BY <1>9 DEF DeleteOld, WaitFails, EnableMetrics
      <3> QED
        BY <1>0, <3>1
    <2>2. queued' \in BOOLEAN
      BY <1>9 DEF DeleteOld, WaitFails, EnableMetrics, TypeOK
    <2>3. fails' \in 0..MaxFails
      <3>1. fails' = fails \/ (fails < MaxFails /\ fails' = fails + 1)
        BY <1>9 DEF DeleteOld, WaitFails, EnableMetrics
      <3> QED
        BY <3>1 DEF TypeOK
    <2>4. oldDS' \subseteq Old /\ appNameList' \subseteq Old
      BY <1>9 DEF DeleteOld, WaitFails, EnableMetrics, TypeOK
    <2> QED
      BY <1>9, <2>1, <2>2, <2>3, <2>4 DEF DeleteOld, WaitFails, EnableMetrics, TypeOK
  <1>10. CASE ListSets
    <2>1. [o \in Sets |-> seen[o]] \in [Sets -> Spec0]
      BY DEF TypeOK, Owners
    <2>2. agg' \in Aggs
      BY <1>0, <1>10, <2>1 DEF ListSets
    <2> QED
      BY <1>10, <2>2 DEF ListSets, TypeOK
  <1>11. CASE ListLVs
    <2>1. [o \in LVs |-> seen[o]] \in [LVs -> Spec0]
      BY DEF TypeOK, Owners
    <2>2. [agg EXCEPT !.lvs = [o \in LVs |-> seen[o]]] \in Aggs
      BY <1>0, <2>1
    <2>3. agg' \in Aggs
      BY <1>0, <1>11, <2>2 DEF ListLVs
    <2> QED
      BY <1>11, <2>3 DEF ListLVs, TypeOK
  <1>12. CASE ReconcileConfigMap
    <2>1. WantedCM(agg) \in Objects
      BY <1>0, WantedTypes
    <2>2. cm' \in Objects /\ agg' \in Aggs
      BY <1>0, <1>12, <2>1 DEF ReconcileConfigMap, TypeOK, Objects, WantedCM
    <2> QED
      BY <1>12, <2>2 DEF ReconcileConfigMap, TypeOK, Objects
  <1>13. CASE ReconcileDaemonSet
    <2>1. WantedDS(agg) \in Objects
      BY <1>0, WantedTypes
    <2>2. ds' \in Objects /\ agg' \in Aggs
      BY <1>0, <1>13, <2>1 DEF ReconcileDaemonSet, TypeOK, Objects
    <2> QED
      BY <1>13, <2>2 DEF ReconcileDaemonSet, TypeOK, Objects
  <1>14. CASE Restart
    <2>1. queued' \in BOOLEAN
      BY <1>14 DEF Restart
    <2>2. agg' \in Aggs /\ seen' = owner /\ changes' \in 0..MaxChanges
      BY <1>0, <1>14 DEF Restart, TypeOK
    <2> QED
      BY <1>14, <2>1, <2>2 DEF Restart, TypeOK
  <1>15. CASE UNCHANGED vars
    BY <1>15 DEF vars, TypeOK
  <1> QED
    BY <1>1, <1>2, <1>3, <1>4, <1>5, <1>6, <1>7, <1>8, <1>9, <1>10, <1>11, <1>12, <1>13, <1>14, <1>15
       DEF Next, Reconcile

-----------------------------------------------------------------------------
(* What is left when nothing is left to do.                                *)

RestOfInv == CacheInv /\ AggInv /\ ConfigMapInv /\ RestInv

\* The invariant of the objects, at first ...
LEMMA DaemonInit == Init => DaemonInv
  <1> SUFFICES ASSUME Init PROVE DaemonInv
    OBVIOUS
  <1>1. TypeOK
    BY TypeInit
  <1>2. OwnerRefs(Asked) = {}
    <2>1. /\ \A o \in Sets : ~Exists(o, Asked.sets)
          /\ \A o \in LVs : ~Exists(o, Asked.lvs)
      BY DEF Init, Asked, Exists, Absent, Owners
    <2> QED
      BY <2>1 DEF OwnerRefs
  <1> QED
    BY <1>1, <1>2 DEF DaemonInv, Init, CacheInv, AggInv, ConfigMapInv, RestInv

\* ... and after every step.
LEMMA DaemonStep ==
    ASSUME DaemonInv, [Next]_vars
    PROVE  DaemonInv'
  <1> USE DEF oldVars, apiVars, bounds, cacheVars, Change, Retry
  <1>0. TypeOK' /\ RestOfInv
    BY TypeStep DEF DaemonInv, RestOfInv
  <1> SUFFICES RestOfInv'
    BY <1>0 DEF DaemonInv, RestOfInv
  \* A request is waiting.
  <1>1. ASSUME queued', CacheInv'
        PROVE  RestOfInv'
    BY <1>1 DEF RestOfInv, AggInv, ConfigMapInv, RestInv
  \* The objects change behind the back of the controller.
  <1>2. ASSUME UNCHANGED <<seen, cmSeen, dsSeen, queued, pc, agg>>, late \subseteq late',
               cm' = cm \/ "cm" \in late', ds' = ds \/ "ds" \in late'
        PROVE  RestOfInv'
    <2>1. CacheInv'
      BY <1>0, <1>2 DEF RestOfInv, CacheInv
    <2>2. Asked' = Asked
      BY <1>2 DEF Asked
    <2>3. AggInv' /\ ConfigMapInv'
      <3>1. WantedCM(agg)' = WantedCM(agg)
        BY <1>2
      <3> QED
        BY <1>0, <1>2, <2>2, <3>1 DEF RestOfInv, AggInv, ConfigMapInv
    <2>4. RestInv'
      <3>1. /\ OwnerRefs(Asked)' = OwnerRefs(Asked) /\ WantedCM(Asked)' = WantedCM(Asked)
            /\ WantedDS(Asked)' = WantedDS(Asked)
        BY <2>2
      <3> QED
        BY <1>0, <1>2, <3>1 DEF RestOfInv, RestInv
    <2> QED
      BY <2>1, <2>3, <2>4 DEF RestOfInv
  \* A step of Reconcile that reads and writes no object.
  <1>3. ASSUME UNCHANGED <<cm, ds, seen, cmSeen, dsSeen, late>>
        PROVE  CacheInv' /\ Asked' = Asked
    BY <1>0, <1>3 DEF RestOfInv, CacheInv, Asked
  <1>4. ASSUME NEW o \in Owners, PutOwner(o) \/ RemoveOwner(o)
        PROVE  RestOfInv'
    BY <1>2, <1>4 DEF PutOwner, RemoveOwner
  <1>5. ASSUME NEW o \in Owners, SeeOwner(o)
        PROVE  RestOfInv'
    BY <1>0, <1>1, <1>5 DEF SeeOwner, CacheInv, RestOfInv
  <1>6. CASE TamperDS \/ TamperCM \/ CollectDS \/ CollectCM
    BY <1>2, <1>6 DEF TamperDS, TamperCM, CollectDS, CollectCM
  <1>7. ASSUME NEW p \in Old, OldPodDies(p)
        PROVE  RestOfInv'
    BY <1>2, <1>7 DEF OldPodDies
  <1>8. CASE SeeCM \/ SeeDS
    BY <1>0, <1>1, <1>8 DEF SeeCM, SeeDS, CacheInv, RestOfInv
  <1>9. CASE Begin \/ OldPodsGone
    <2>1. CacheInv' /\ pc' \in {"listSets", "listOld"}
      BY <1>3, <1>9 DEF Begin, OldPodsGone
    <2> QED
      BY <2>1 DEF RestOfInv, AggInv, ConfigMapInv, RestInv
  <1>10. CASE DeleteOld
    <2>1. CacheInv' /\ (pc' = "wait" \/ queued')
      BY <1>3, <1>10 DEF DeleteOld
    <2> QED
      BY <1>1, <2>1 DEF RestOfInv, AggInv, ConfigMapInv, RestInv
  <1>11. CASE WaitFails
    BY <1>1, <1>3, <1>11 DEF WaitFails
  <1>12. CASE ListSets
    <2>1. /\ CacheInv' /\ Asked' = Asked /\ pc' = "listLVs"
          /\ agg' = [agg EXCEPT !.sets = [o \in Sets |-> seen[o]]]
      BY <1>3, <1>12 DEF ListSets
    <2>2. agg \in Aggs
      BY DEF DaemonInv, TypeOK, Aggs
    <2>3. agg'.sets = Asked.sets
      BY <2>1, <2>2 DEF Asked, Aggs
    <2> QED
      BY <2>1, <2>3 DEF RestOfInv, AggInv, ConfigMapInv, RestInv
  <1>13. CASE ListLVs
    <2> DEFINE a == [agg EXCEPT !.lvs = [o \in LVs |-> seen[o]]]
    <2>1. /\ CacheInv' /\ Asked' = Asked /\ queued' = queued /\ pc = "listLVs"
          /\ IF OwnerRefs(a) = {} THEN agg' = NoAgg /\ pc' = "idle"
                                  ELSE agg' = a /\ pc' = "configMap"
      BY <1>3, <1>13 DEF ListLVs
    <2>2. agg \in Aggs
      BY DEF DaemonInv, TypeOK, Aggs
    <2>3. CASE queued
      BY <1>1, <2>1, <2>3
    <2>4. CASE ~queued
      <3>1. a.sets = Asked.sets /\ a.lvs = Asked.lvs /\ a \in [sets : {agg.sets}, lvs : {Asked.lvs}]
        BY <1>0, <2>1, <2>2, <2>4 DEF RestOfInv, AggInv, Asked, Aggs
      <3>2. a = Asked
        BY <3>1 DEF Asked
      <3> HIDE DEF a
      <3>3. CASE OwnerRefs(a) = {}
        <4>1. OwnerRefs(Asked)' = OwnerRefs(Asked)
          BY <2>1
        <4> QED
          BY <2>1, <3>2, <3>3, <4>1 DEF RestOfInv, AggInv, ConfigMapInv, RestInv
      <3>4. CASE OwnerRefs(a) # {}
        BY <2>1, <3>2, <3>4 DEF RestOfInv, AggInv, ConfigMapInv, RestInv
      <3> QED
        BY <3>3, <3>4
    <2> QED
      BY <2>3, <2>4
  <1>14. CASE ReconcileConfigMap
    <2>1. CASE Retry /\ UNCHANGED <<cm, late>>
      BY <1>1, <1>3, <1>14, <2>1 DEF ReconcileConfigMap
    <2>2. CASE /\ pc' = "metrics" /\ UNCHANGED <<queued, agg>>
               /\ \/ WantedCM(agg) = cmSeen /\ UNCHANGED <<cm, late>>
                  \/ "cm" \in late' /\ late' = late \cup {"cm"}
      <3>1. CacheInv' /\ Asked' = Asked /\ cmSeen' = cmSeen /\ pc = "configMap"
        BY <1>0, <1>14, <2>2 DEF ReconcileConfigMap, CacheInv, RestOfInv, Asked
      <3>2. AggInv'
        BY <1>0, <2>2, <3>1 DEF AggInv, RestOfInv
      <3>3. WantedCM(agg)' = WantedCM(agg)
        BY <2>2
      <3>4. ConfigMapInv' /\ RestInv'
        BY <2>2, <3>1, <3>3 DEF ConfigMapInv, RestInv
      <3> QED
        BY <3>1, <3>2, <3>4 DEF RestOfInv
    <2> QED
      BY <1>14, <2>1, <2>2 DEF ReconcileConfigMap, WantedCM
  <1>15. CASE EnableMetrics
    <2>1. CacheInv' /\ Asked' = Asked
      BY <1>3, <1>15 DEF EnableMetrics
    <2>2. CASE queued'
      BY <1>1, <2>1, <2>2
    <2>3. CASE pc' = "daemonSet" /\ UNCHANGED <<queued, agg>>
      <3>1. WantedCM(agg)' = WantedCM(agg)
        BY <2>3
      <3> QED
        BY <1>0, <1>15, <2>1, <2>3, <3>1
           DEF EnableMetrics, RestOfInv, AggInv, ConfigMapInv, RestInv
    <2> QED
      BY <1>15, <2>2, <2>3 DEF EnableMetrics
  <1>16. CASE ReconcileDaemonSet
    <2>1. CASE Retry /\ UNCHANGED <<ds, late>>
      BY <1>1, <1>3, <1>16, <2>1 DEF ReconcileDaemonSet
    <2>2. CASE /\ pc' = "idle" /\ queued' = queued
               /\ \/ WantedDS(agg) = dsSeen /\ UNCHANGED <<ds, late>>
                  \/ "ds" \in late' /\ late' = late \cup {"ds"}
      <3>1. /\ CacheInv' /\ Asked' = Asked /\ cmSeen' = cmSeen /\ dsSeen' = dsSeen
            /\ pc = "daemonSet"
        BY <1>0, <1>16, <2>2 DEF ReconcileDaemonSet, CacheInv, RestOfInv, Asked
      <3>2. AggInv' /\ ConfigMapInv'
        BY <2>2 DEF AggInv, ConfigMapInv
      <3>3. RestInv'
        <4> SUFFICES ASSUME ~queued, late' = {}
                     PROVE  cmSeen' = WantedCM(Asked)' /\ dsSeen' = WantedDS(Asked)'
          BY <2>2 DEF RestInv
        <4>1. late = {} /\ WantedDS(agg) = dsSeen
          BY <2>2
        <4>2. agg = Asked
          BY <1>0, <3>1 DEF RestOfInv, AggInv
        <4>3. cmSeen = WantedCM(agg)
          BY <1>0, <3>1, <4>1 DEF RestOfInv, ConfigMapInv
        <4>4. WantedCM(Asked)' = WantedCM(Asked) /\ WantedDS(Asked)' = WantedDS(Asked)
          BY <3>1
        <4> QED
          BY <3>1, <4>1, <4>2, <4>3, <4>4
      <3> QED
        BY <3>1, <3>2, <3>3 DEF RestOfInv
    <2> QED
      BY <1>16, <2>1, <2>2 DEF ReconcileDaemonSet
  <1>17. CASE Restart
    <2>1. CacheInv' /\ pc' = "idle" /\ seen' = owner
      BY <1>17 DEF Restart, CacheInv
    <2>2. CASE queued'
      BY <1>1, <2>1, <2>2
    <2>3. CASE ~queued'
      <3>1. \A o \in Owners : owner[o] = Absent
        BY <1>17, <2>3 DEF Restart
      <3>2. OwnerRefs(Asked)' = {}
        <4>1. /\ \A o \in Sets : ~Exists(o, Asked.sets)'
              /\ \A o \in LVs : ~Exists(o, Asked.lvs)'
          BY <2>1, <3>1 DEF Asked, Exists, Absent, Owners
        <4> QED
          BY <4>1 DEF OwnerRefs
      <3> QED
        BY <2>1, <3>2 DEF RestOfInv, AggInv, ConfigMapInv, RestInv
    <2> QED
      BY <2>2, <2>3
  <1>18. CASE UNCHANGED vars
    BY <1>2, <1>18 DEF vars
  <1> QED
    BY <1>4, <1>5, <1>6, <1>7, <1>8, <1>9, <1>10, <1>11, <1>12, <1>13, <1>14, <1>15, <1>16, <1>17, <1>18
       DEF Next, Reconcile

\* With a current cache, what is aggregated is what the present owners ask for.
LEMMA AskedByPresent ==
    ASSUME TypeOK, seen = owner
    PROVE  /\ \A o \in Sets : Asked.sets[o] = owner[o] /\ (Exists(o, Asked.sets) <=> o \in Present)
           /\ \A o \in LVs : Asked.lvs[o] = owner[o] /\ (Exists(o, Asked.lvs) <=> o \in Present)
           /\ OwnerRefs(Asked) = {<<o, owner[o].uid>> : o \in Present}
           /\ Asked \in Aggs
  <1>1. \A o \in Owners : owner[o] \in Spec0
    BY DEF TypeOK
  <1>2. Sets \subseteq Owners /\ LVs \subseteq Owners /\ Owners = LVs \cup Sets
    BY DEF Owners
  <1>3. \A o \in Owners : owner[o].uid # 0 <=> o \in Present
    BY <1>1, OwnerTypes DEF Present
  <1>4. \A o \in Sets : Asked.sets[o] = owner[o] /\ (Exists(o, Asked.sets) <=> o \in Present)
    BY <1>2, <1>3 DEF Asked, Exists
  <1>5. \A o \in LVs : Asked.lvs[o] = owner[o] /\ (Exists(o, Asked.lvs) <=> o \in Present)
    BY <1>2, <1>3 DEF Asked, Exists
  <1>6. OwnerRefs(Asked) = {<<o, owner[o].uid>> : o \in Present}
    <2>1. Present \subseteq Owners
      BY DEF Present
    <2>2. ASSUME NEW r \in OwnerRefs(Asked)
          PROVE  r \in {<<o, owner[o].uid>> : o \in Present}
      BY <1>4, <1>5 DEF OwnerRefs
    <2>3. ASSUME NEW o \in Present
          PROVE  <<o, owner[o].uid>> \in OwnerRefs(Asked)
      BY <1>2, <1>4, <1>5, <2>1 DEF OwnerRefs
    <2> QED
      BY <2>2, <2>3
  <1>7. Asked \in Aggs
    BY <1>1, <1>2 DEF Asked, Aggs
  <1> QED
    BY <1>4, <1>5, <1>6, <1>7

\* When nothing is left to do, the objects are the ones that the owners ask for.
LEMMA AtRest ==
    ASSUME DaemonInv, Quiet
    PROVE  /\ seen = owner
           /\ Present = {} => cm = NoObject /\ ds = NoObject
           /\ Present # {} => cm = WantedCM(Asked) /\ ds = WantedDS(Asked)
  <1> USE DEF DaemonInv
  <1>1. seen = owner /\ cmSeen = cm /\ dsSeen = ds
    BY DEF Quiet, CacheInv
  <1>2. ASSUME Present = {}
        PROVE  cm = NoObject /\ ds = NoObject
    <2>1. \A o \in Owners : owner[o].uid = 0
      BY <1>2 DEF Present, Absent
    <2>2. ASSUME NEW obj \in Object
          PROVE  Orphaned(obj) \/ obj = NoObject
      <3>1. \A r \in obj.refs : r[1] \in Owners /\ r[2] \in 1..MaxChanges
        BY DEF Object
      <3>2. \A r \in obj.refs : owner[r[1]].uid # r[2]
        BY <2>1, <3>1
      <3> QED
        BY <3>2 DEF Orphaned
    <2>3. cm \in Object \cup {NoObject} /\ ds \in Object \cup {NoObject}
      BY DEF TypeOK
    <2> QED
      BY <2>2, <2>3 DEF Quiet
  <1>3. ASSUME Present # {}
        PROVE  cm = WantedCM(Asked) /\ ds = WantedDS(Asked)
    <2>1. OwnerRefs(Asked) # {}
      BY <1>1, <1>3, AskedByPresent
    <2> QED
      BY <1>1, <2>1 DEF RestInv, Quiet
  <1> QED
    BY <1>1, <1>2, <1>3

\* The invariant of the objects holds always.
LEMMA DaemonAlways == Spec => []DaemonInv
  <1>1. DaemonInv /\ [Next]_vars => DaemonInv'
    BY DaemonStep
  <1> QED
    BY <1>1, DaemonInit, PTL DEF Spec

(***************************************************************************)
(* When nothing is left to do, the ConfigMap and the DaemonSet refer to    *)
(* exactly the owners there are, and are gone when there are none.         *)
(***************************************************************************)
THEOREM OwnersOwnTheObjects == Spec => []OwnedByAll
  <1>1. DaemonInv => OwnedByAll
    <2> SUFFICES ASSUME DaemonInv, Quiet
                 PROVE  /\ Present = {} => cm = NoObject /\ ds = NoObject
                        /\ Present # {} => /\ ds.refs = {<<o, owner[o].uid>> : o \in Present}
                                           /\ cm.refs = ds.refs
      BY DEF OwnedByAll
    <2>1. OwnerRefs(Asked) = {<<o, owner[o].uid>> : o \in Present}
      BY AtRest, AskedByPresent DEF DaemonInv
    <2>2. Present # {} => ds.refs = OwnerRefs(Asked) /\ cm.refs = OwnerRefs(Asked)
      BY AtRest DEF WantedCM, WantedDS
    <2>3. Present = {} => cm = NoObject /\ ds = NoObject
      BY AtRest
    <2> QED
      BY <2>1, <2>2, <2>3
  <1> QED
    BY <1>1, DaemonAlways, PTL

(***************************************************************************)
(* When nothing is left to do, the ConfigMap has the classes of all the    *)
(* owners as they configure them, and the DaemonSet, which is rolled out   *)
(* again when the hash changes, carries the hash of that ConfigMap.        *)
(***************************************************************************)
THEOREM ConfigIsCurrent == Spec => []ConfigCurrent
  <1>1. DaemonInv => ConfigCurrent
    <2> SUFFICES ASSUME DaemonInv, Quiet, Present # {}
                 PROVE  /\ ds.data = cm.data
                        /\ \A o \in Present : \E p \in Present :
                              /\ ClassOf[p] = ClassOf[o] /\ cm.data[ClassOf[o]] = owner[p].mode
                              /\ o \in LVs => p \in LVs
      BY DEF ConfigCurrent
    <2>1. ds.data = cm.data /\ cm.data = ConfigData(Asked)
      BY AtRest DEF WantedCM, WantedDS
    <2>2. /\ \A o \in Sets : Asked.sets[o] = owner[o] /\ (Exists(o, Asked.sets) <=> o \in Present)
          /\ \A o \in LVs : Asked.lvs[o] = owner[o] /\ (Exists(o, Asked.lvs) <=> o \in Present)
      BY AtRest, AskedByPresent DEF DaemonInv
    <2>3. ASSUME NEW o \in Present
          PROVE  \E p \in Present : /\ ClassOf[p] = ClassOf[o]
                                    /\ ConfigData(Asked)[ClassOf[o]] = owner[p].mode
                                    /\ o \in LVs => p \in LVs
      <3> DEFINE c == ClassOf[o]
                 lvs == {p \in LVs : Exists(p, Asked.lvs) /\ ClassOf[p] = c}
                 sets == {p \in Sets : Exists(p, Asked.sets) /\ ClassOf[p] = c}
      <3>1. c \in Classes /\ o \in LVs \cup Sets
        BY DEF Present, Classes, Owners
      <3>2. ConfigData(Asked)[c] = IF lvs # {} THEN Asked.lvs[CHOOSE p \in lvs : TRUE].mode
                                   ELSE IF sets # {} THEN Asked.sets[CHOOSE p \in sets : TRUE].mode
                                   ELSE "none"
        BY <3>1 DEF ConfigData
      <3>3. lvs # {} => (CHOOSE p \in lvs : TRUE) \in lvs
        BY ChooseMember
      <3>4. sets # {} => (CHOOSE p \in sets : TRUE) \in sets
        BY ChooseMember
      <3>5. (o \in LVs => lvs # {}) /\ (o \in Sets => sets # {})
        BY <2>2, <2>3
      <3>6. /\ \A p \in lvs : p \in LVs /\ p \in Present /\ ClassOf[p] = c /\ Asked.lvs[p] = owner[p]
            /\ \A p \in sets : p \in Sets /\ p \in Present /\ ClassOf[p] = c /\ Asked.sets[p] = owner[p]
        BY <2>2
      <3> HIDE DEF lvs, sets
      <3>7. CASE lvs # {}
        BY <3>2, <3>3, <3>6, <3>7
      <3>8. CASE lvs = {}
        BY <3>1, <3>2, <3>4, <3>5, <3>6, <3>8
      <3> QED
        BY <3>7, <3>8
    <2> QED
      BY <2>1, <2>3
  <1> QED
    BY <1>1, DaemonAlways, PTL

(***************************************************************************)
(* When nothing is left to do, the diskmaker runs on exactly the nodes     *)
(* that its owners select, all of them if one has no selector, unless the  *)
(* terms that aggregateDeamonInfo appends for the other kind of owner      *)
(* narrow this.                                                            *)
(***************************************************************************)
THEOREM RunsOnSelectedNodes == Spec => []RunsWhereSelected
  <1>1. DaemonInv => RunsWhereSelected
    <2> SUFFICES ASSUME DaemonInv, Quiet, Present # {}, ~Narrowed
                 PROVE  ds.nodes = UNION {Selected(o) : o \in Present}
      BY DEF RunsWhereSelected
    <2> DEFINE A == Asked.sets
               B == Asked.lvs
    <2>1. ds.nodes = NodeSelector(Asked)
      BY AtRest DEF WantedDS
    <2>2. /\ \A o \in Sets : A[o] = owner[o] /\ (Exists(o, A) <=> o \in Present)
          /\ \A o \in LVs : B[o] = owner[o] /\ (Exists(o, B) <=> o \in Present)
          /\ DOMAIN A = Sets /\ DOMAIN B = LVs
      BY AtRest, AskedByPresent DEF DaemonInv, Asked
    <2>3. Present \subseteq Owners /\ Owners = LVs \cup Sets
      BY DEF Present, Owners
    <2>4. \A o \in Present : owner[o].sel = Nil \/ owner[o].sel \subseteq Nodes
      <3>1. \A o \in Present : owner[o] \in Spec0 /\ owner[o] # Absent
        BY DEF DaemonInv, TypeOK, Present
      <3> QED
        BY <3>1, OwnerTypes
    <2>5. \A o \in Present : Selected(o) = IF owner[o].sel = Nil THEN Nodes ELSE owner[o].sel
      BY DEF Selected
    <2> HIDE DEF A, B
    <2>6. /\ Terms(A) = IF \E o \in Sets \cap Present : owner[o].sel = Nil THEN {}
                        ELSE {owner[o].sel : o \in Sets \cap Present}
          /\ Terms(B) = IF \E o \in LVs \cap Present : owner[o].sel = Nil THEN {}
                        ELSE {owner[o].sel : o \in LVs \cap Present}
      <3>1. Terms(A) = IF \E o \in Sets \cap Present : owner[o].sel = Nil THEN {}
                       ELSE {owner[o].sel : o \in Sets \cap Present}
        <4>1. {o \in DOMAIN A : Exists(o, A)} = Sets \cap Present
          BY <2>2
        <4>2. \A o \in Sets \cap Present : A[o] = owner[o]
          BY <2>2
        <4> QED
          BY <4>1, <4>2 DEF Terms
      <3>2. Terms(B) = IF \E o \in LVs \cap Present : owner[o].sel = Nil THEN {}
                       ELSE {owner[o].sel : o \in LVs \cap Present}
        <4>1. {o \in DOMAIN B : Exists(o, B)} = LVs \cap Present
          BY <2>2
        <4>2. \A o \in LVs \cap Present : B[o] = owner[o]
          BY <2>2
        <4> QED
          BY <4>1, <4>2 DEF Terms
      <3> QED
        BY <3>1, <3>2
    <2> DEFINE T == Terms(A) \cup Terms(B)
    <2>7. NodeSelector(Asked) = IF T = {} THEN Nodes ELSE UNION T
      BY DEF NodeSelector, A, B
    <2>8. CASE \A o \in Present : owner[o].sel # Nil
      <3>1. T = {owner[o].sel : o \in Present}
        BY <2>3, <2>6, <2>8
      <3>2. T # {}
        BY <3>1
      <3>3. UNION T = UNION {Selected(o) : o \in Present}
        BY <2>5, <2>8, <3>1
      <3> QED
        BY <2>1, <2>7, <3>2, <3>3
    <2>9. CASE \E o \in Present : owner[o].sel = Nil
      <3>1. PICK o \in Present : owner[o].sel = Nil
        BY <2>9
      <3>2. /\ AsksForAll(Sets) \/ Sets \cap Present = {}
            /\ AsksForAll(LVs) \/ LVs \cap Present = {}
        <4>1. Owners \ LVs = Sets /\ Owners \ Sets = LVs
          BY <2>3, DaemonConstants
        <4>2. AsksForAll(LVs) \/ AsksForAll(Sets)
          BY <2>3, <3>1 DEF AsksForAll
        <4> QED
          BY <4>1, <4>2 DEF Narrowed
      <3>3. T = {}
        BY <2>6, <3>2 DEF AsksForAll
      <3>4. Nodes = UNION {Selected(p) : p \in Present}
        <4>1. Selected(o) = Nodes
          BY <2>5, <3>1
        <4>2. \A p \in Present : Selected(p) \subseteq Nodes
          BY <2>4, <2>5
        <4> QED
          BY <4>1, <4>2
      <3> QED
        BY <2>1, <2>7, <3>3, <3>4
    <2> QED
      BY <2>8, <2>9
  <1> QED
    BY <1>1, DaemonAlways, PTL
=============================================================================

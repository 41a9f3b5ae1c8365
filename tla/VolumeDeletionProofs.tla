------------------------ MODULE VolumeDeletionProofs ------------------------
(***************************************************************************)
(* Proofs about VolumeDeletion for any number of volumes, incarnations of  *)
(* their PVs and restarts of the diskmaker.                                *)
(*                                                                         *)
(* The reconciler acts on copies of PVs: r.Cache, the versions on their    *)
(* way to it, and the list that fills it.  The invariants say which copies *)
(* may be out of date, and at which points of Reconcile none of those that *)
(* make DeletePVs or CleanupSymlinks act is.                               *)
(***************************************************************************)
EXTENDS VolumeDeletion, TLAPS

\* What a leaf is tried with, if it does not say.
USE ZenonT(5), SMTT(30), Z3T(30), ZenonT(30)

\* The copies of a PV in r.Cache and on the way to it.
Copies(v) == {cache[v]} \cup {feed[v][i] : i \in 1..Len(feed[v])}

FeedInv == \A v \in Volumes : feed[v] # <<>> => feed[v][Len(feed[v])] = pv[v]

BootInv ==
    /\ boot = "new" => dm = Idle /\ cache = [v \in Volumes |-> NoPV]
    /\ boot = "named" <=> dm.pc \in {"list", "fill"}

BaseInv == TypeOK /\ FeedInv /\ BootInv

\* Waits for the deleter; deleted, so that CleanupSymlinks acts; claimed or to be
\* claimed.
Old(p) == p.phase = "Released" /\ ~p.deleted
Gone(p) == p.deleted /\ p.phase \in {"Released", "Available"}
Live(p) == p.phase = "Bound" \/ (p.phase = "Available" /\ ~p.deleted)

(***************************************************************************)
(* No copy that makes CleanupSymlinks act is of an incarnation before the  *)
(* one that is offered now.                                                *)
(***************************************************************************)
SymlinkInv(v) ==
    /\ Gone(cache[v]) /\ Live(pv[v]) => feed[v] # <<>>
    /\ dm.pc = "fill" /\ Gone(dm.list[v]) => ~Live(pv[v])
    /\ boot # "synced" \/ (~lagging /\ dm.pc \in {"delete", "cleanup"}) =>
           \A c \in Copies(v) : Gone(c) => ~Live(pv[v])
    /\ ~lagging /\ Live(pv[v]) => v \in symlink

(***************************************************************************)
(* A copy that makes DeletePVs act is the current version, and the entry   *)
(* of a PV in the process table goes before the PV changes again.          *)
(***************************************************************************)
CleanInv(v) ==
    /\ Old(cache[v]) /\ cache[v] # pv[v] => feed[v] # <<>>
    /\ dm.pc = "fill" /\ Old(dm.list[v]) => dm.list[v] = pv[v]
    /\ boot # "synced" \/ (~lagging /\ dm.pc = "delete") =>
           \A c \in Copies(v) : Old(c) => c = pv[v]
    /\ ~lagging /\ proc[v] # "none" => Old(pv[v])

\* The data of a claim is there until the deleter has cleaned the device.
DataInv(v) ==
    ~lagging /\ v \notin retained /\ v \in dirty =>
        \/ pv[v].phase = "Bound" /\ ~pv[v].deleted
        \/ Old(pv[v]) /\ proc[v] # "succeeded"

RetainInv == \A v \in retained : proc[v] = "none"

SInv == BaseInv /\ \A v \in Volumes : SymlinkInv(v)
CInv == BaseInv /\ \A v \in Volumes : CleanInv(v)
DInv == CInv /\ \A v \in Volumes : DataInv(v)
RInv == BaseInv /\ RetainInv
-----------------------------------------------------------------------------
(* What one step can do to one volume.                                     *)

CopiesMove(v) ==
    /\ \A c \in Copies(v)' : \/ c \in Copies(v) \/ c \in {pv'[v], NoPV}
                             \/ dm.pc = "fill" /\ c = dm.list[v]
    /\ feed'[v] = <<>> => \/ cache'[v] \in {pv'[v], NoPV}
                          \/ /\ feed[v] = <<>> /\ pv'[v] = pv[v]
                             /\ \/ cache'[v] = cache[v]
                                \/ dm.pc = "fill" /\ cache'[v] = dm.list[v]

ReconcileMoves(v) ==
    /\ UNCHANGED <<lagging, retained>>
    /\ dm'.pc = "fill" => \/ dm.pc = "fill" /\ dm'.list = dm.list
                          \/ dm'.list[v] = pv[v] /\ pv'[v] = pv[v]
    /\ boot' # "synced" => boot # "synced" \/ Copies(v)' \subseteq {pv'[v], NoPV}
    /\ dm'.pc = "delete" => \/ dm.pc = "delete" \/ boot # "synced" \/ lagging
                            \/ feed[v] = <<>> /\ UNCHANGED <<pv, feed, cache>>
    /\ dm'.pc = "cleanup" => dm.pc \in {"delete", "cleanup"}

OthersMovePV(v) ==
    \/ pv[v].phase = "Available" /\ pv'[v] = [pv[v] EXCEPT !.claimed = TRUE]
    \/ pv[v].phase \in {"Available", "Bound"} /\ pv'[v] = [pv[v] EXCEPT !.phase = "Released"]
    \/ /\ pv[v].phase = "Available" /\ ~pv[v].deleted
       /\ pv'[v] = [pv[v] EXCEPT !.phase = "Bound", !.claimed = TRUE]
    \/ pv[v].phase \in UserDeletes /\ pv'[v] = [pv[v] EXCEPT !.deleted = TRUE]

PVMoves(v) ==
    \/ pv'[v] = pv[v]
    \/ /\ dm.pc = "delete" /\ dm'.pc = "cleanup" /\ Old(cache[v])
       /\ proc[v] = "succeeded" /\ proc'[v] = "none"
       /\ pv[v] # NoPV /\ pv'[v] = [pv[v] EXCEPT !.deleted = TRUE]
    \/ dm.pc = "cleanup" /\ Gone(pv[v]) /\ pv'[v] = NoPV
    \/ /\ dm.pc = "sync" /\ dm'.pc \in {"idle", "sync"} /\ pv[v] = NoPV
       /\ pv'[v].phase = "Available" /\ ~pv'[v].deleted /\ v \in symlink' /\ feed'[v] # <<>>
       /\ boot' = boot
    \/ OthersMovePV(v) /\ UNCHANGED dm

NodeMoves(v) ==
    /\ v \in symlink /\ v \notin symlink' => dm.pc = "cleanup" /\ Gone(cache[v])
    /\ proc'[v] # "none" =>
           \/ /\ proc[v] # "none"
              /\ proc'[v] = "succeeded" => proc[v] = "succeeded" \/ v \notin dirty'
           \/ /\ dm.pc = "delete" /\ Old(cache[v]) /\ v \notin retained
              /\ proc'[v] = "running" /\ pv'[v] = pv[v]
    /\ v \in dirty' =>
           v \in dirty \/ (pv[v].phase = "Available" /\ pv'[v].phase = "Bound" /\ ~pv'[v].deleted)
    /\ v \in dirty /\ v \notin dirty' => proc[v] = "running"

VolumeStep(v) == CopiesMove(v) /\ ReconcileMoves(v) /\ PVMoves(v) /\ NodeMoves(v)

\* A queue is empty if its length is zero.
LEMMA EmptyQueue ==
    ASSUME NEW S, NEW q \in Seq(S)
    PROVE  q = <<>> <=> Len(q) = 0
  OBVIOUS

\* What the steps write to a volume is of its type.
LEMMA PVFields ==
    ASSUME NEW p \in PVs
    PROVE  /\ [p EXCEPT !.deleted = TRUE] \in PVs
           /\ [p EXCEPT !.claimed = TRUE] \in PVs
           /\ [p EXCEPT !.phase = "Released"] \in PVs
           /\ [p EXCEPT !.phase = "Bound", !.claimed = TRUE] \in PVs
           /\ [p EXCEPT !.phase = "Bound", !.claimed = TRUE].phase = "Bound"
           /\ [p EXCEPT !.phase = "Bound", !.claimed = TRUE].deleted = p.deleted
  BY ZenonT(60) DEF PVs

\* A write reaches r.Cache last.
LEMMA WriteLemma ==
    ASSUME BaseInv, NEW p \in [Volumes -> PVs], Write(p), UNCHANGED cache
    PROVE  /\ pv' = p
           /\ feed' \in [Volumes -> Seq(PVs)]
           /\ FeedInv'
           /\ \A v \in Volumes : CopiesMove(v) /\ (p[v] # pv[v] => feed'[v] # <<>>)
  <1> USE DEF BaseInv
  <1>1. pv' = p
    BY DEF Write
  <1>2. ASSUME NEW v \in Volumes
        PROVE  /\ feed'[v] \in Seq(PVs)
               /\ feed'[v] # <<>> => feed'[v][Len(feed'[v])] = pv'[v]
               /\ CopiesMove(v)
               /\ p[v] # pv[v] => feed'[v] # <<>>
    <2>1. feed[v] \in Seq(PVs) /\ p[v] \in PVs
      BY DEF TypeOK
    <2>2. CASE p[v] = pv[v]
      <3>1. feed'[v] = feed[v]
        BY <2>2 DEF Write
      <3> QED
        BY <1>1, <2>1, <2>2, <3>1 DEF FeedInv, CopiesMove, Copies
    <2>3. CASE p[v] # pv[v]
      <3>1. feed'[v] = Append(feed[v], p[v])
        BY <2>3 DEF Write
      <3>2. /\ feed'[v] \in Seq(PVs) /\ feed'[v] # <<>>
            /\ feed'[v][Len(feed'[v])] = p[v]
            /\ \A i \in 1..Len(feed'[v]) :
                   feed'[v][i] = p[v] \/ (i \in 1..Len(feed[v]) /\ feed'[v][i] = feed[v][i])
        <4>1. /\ feed'[v] \in Seq(PVs) /\ feed'[v] # <<>>
              /\ Len(feed'[v]) = Len(feed[v]) + 1 /\ Len(feed[v]) \in Nat
              /\ feed'[v][Len(feed[v]) + 1] = p[v]
              /\ \A i \in 1..Len(feed[v]) : feed'[v][i] = feed[v][i]
          BY <2>1, <3>1
        <4>2. \A i \in 1..Len(feed'[v]) : i = Len(feed[v]) + 1 \/ i \in 1..Len(feed[v])
          BY <4>1
        <4> QED
          BY <4>1, <4>2
      <3> QED
        BY <1>1, <3>2 DEF CopiesMove, Copies
    <2> QED
      BY <2>2, <2>3
  <1>3. feed' \in [Volumes -> Seq(PVs)]
    <2>1. feed' = [v \in Volumes |-> feed'[v]]
      BY DEF Write
    <2> QED
      BY <1>2, <2>1
  <1> QED
    BY <1>1, <1>2, <1>3 DEF FeedInv

\* Types and copies, at first.
LEMMA BaseInit == Init => BaseInv
  <1> SUFFICES ASSUME Init
               PROVE  BaseInv
    OBVIOUS
  <1>1. NoPV \in PVs
    BY DeletionConstants DEF NoPV, PVs
  <1>2. Idle \in [pc : {"idle", "list", "fill", "delete", "cleanup", "sync"},
                  seen : {"live", "deleting"}, todo : SUBSET Volumes, list : [Volumes -> PVs]]
        /\ Idle.pc = "idle"
    BY <1>1 DEF Idle
  <1>3. TypeOK
    BY <1>1, <1>2, DeletionConstants DEF Init, TypeOK
  <1> QED
    BY <1>2, <1>3 DEF Init, BaseInv, FeedInv, BootInv

\* What follows is the case analysis over the actions.
LEMMA StepView ==
    ASSUME BaseInv, [Next]_vars
    PROVE  BaseInv' /\ \A v \in Volumes : VolumeStep(v)
  <1> USE DeletionConstants DEF BaseInv, api, node, maker, bounds
  <1>a. NoPV \in PVs /\ NoPV.phase = "none" /\ ~NoPV.deleted
    BY DEF NoPV, PVs
  <1>b. /\ Idle \in [pc : {"idle", "list", "fill", "delete", "cleanup", "sync"},
                     seen : {"live", "deleting"}, todo : SUBSET Volumes, list : [Volumes -> PVs]]
        /\ Idle.pc = "idle" /\ Idle.list \in [Volumes -> PVs]
    BY <1>a DEF Idle
  <1>d. dm.pc # "idle" => boot # "new"
    BY <1>b DEF BootInv
  \* The PVs and the copies of them stay as they are.
  <1>c. ASSUME UNCHANGED <<pv, feed, cache>>
        PROVE  FeedInv' /\ \A v \in Volumes : CopiesMove(v)
    BY <1>c DEF FeedInv, CopiesMove, Copies
  <1>1. ASSUME BeginReconcile
        PROVE  BaseInv' /\ \A v \in Volumes : VolumeStep(v)
    <2>1. /\ dm' \in [pc : {"idle", "list", "fill", "delete", "cleanup", "sync"},
                      seen : {"live", "deleting"}, todo : SUBSET Volumes, list : [Volumes -> PVs]]
          /\ dm'.pc = IF boot = "synced" THEN "delete" ELSE "list"
      BY <1>1, <1>b DEF BeginReconcile, TypeOK
    <2>2. TypeOK' /\ BootInv'
      BY <1>1, <2>1 DEF BeginReconcile, TypeOK, BootInv
    <2>3. ASSUME NEW v \in Volumes
          PROVE  ReconcileMoves(v) /\ PVMoves(v) /\ NodeMoves(v)
      BY <1>1, <2>1 DEF BeginReconcile, BootInv, TypeOK, ReconcileMoves, PVMoves, NodeMoves
    <2> QED
      BY <1>1, <1>c, <2>2, <2>3 DEF BeginReconcile, VolumeStep
  <1>2. ASSUME ListPVs
        PROVE  BaseInv' /\ \A v \in Volumes : VolumeStep(v)
    <2>1. dm'.pc = "fill" /\ dm'.list = pv
      BY <1>2 DEF ListPVs, TypeOK
    <2>2. TypeOK' /\ BootInv'
      BY <1>2, <2>1 DEF ListPVs, TypeOK, BootInv
    <2>3. ASSUME NEW v \in Volumes
          PROVE  ReconcileMoves(v) /\ PVMoves(v) /\ NodeMoves(v)
      BY <1>2, <2>1 DEF ListPVs, ReconcileMoves, PVMoves, NodeMoves
    <2> QED
      BY <1>2, <1>c, <2>2, <2>3 DEF ListPVs, VolumeStep
  <1>3. ASSUME FillCache
        PROVE  BaseInv' /\ \A v \in Volumes : VolumeStep(v)
    <2>1. dm'.pc = "delete" /\ dm.pc = "fill" /\ boot = "named"
      BY <1>3 DEF FillCache, TypeOK, BootInv
    <2>2. cache' \in [Volumes -> PVs]
      BY <1>3 DEF FillCache, TypeOK
    <2>3. TypeOK' /\ BootInv' /\ FeedInv'
      BY <1>3, <1>b, <2>1, <2>2 DEF FillCache, TypeOK, BootInv, FeedInv
    <2>4. ASSUME NEW v \in Volumes
          PROVE  CopiesMove(v)
      BY <1>3 DEF FillCache, CopiesMove, Copies
    <2>5. ASSUME NEW v \in Volumes
          PROVE  ReconcileMoves(v) /\ PVMoves(v) /\ NodeMoves(v)
      BY <1>3, <2>1 DEF FillCache, ReconcileMoves, PVMoves, NodeMoves
    <2> QED
      BY <2>3, <2>4, <2>5 DEF VolumeStep
  <1>4. ASSUME NEW failed \in SUBSET Volumes, DeletePVs(failed)
        PROVE  BaseInv' /\ \A v \in Volumes : VolumeStep(v)
    <2> DEFINE due == {v \in Volumes : Due(v)}
               cleaned == {v \in due : proc[v] = "succeeded"}
               p == [v \in Volumes |-> IF v \in cleaned \ failed /\ pv[v] # NoPV
                                       THEN [pv[v] EXCEPT !.deleted = TRUE] ELSE pv[v]]
    <2>1. /\ dm.pc = "delete" /\ Write(p)
          /\ proc' = [v \in Volumes |-> IF v \in cleaned THEN "none"
                                        ELSE IF v \in due THEN "running" ELSE proc[v]]
          /\ UNCHANGED <<made, symlink, dirty, owner, ownerSeen, cache, boot, opview, bounds>>
      BY <1>4 DEF DeletePVs
    <2>2. p \in [Volumes -> PVs]
      BY PVFields, ZenonT(60) DEF TypeOK
    <2>3. dm'.pc = "cleanup" /\ dm'.todo = Volumes /\ dm'.seen = dm.seen /\ dm'.list = dm.list
      BY <1>4 DEF DeletePVs, TypeOK
    <2>4. \A v \in due : Old(cache[v]) /\ v \notin retained
      BY DEF Due, Old
    <2>5. ASSUME NEW v \in Volumes
          PROVE  NodeMoves(v) /\ PVMoves(v)
      <3>1. \/ v \in cleaned /\ proc'[v] = "none" /\ (p[v] = pv[v] \/
                    (pv[v] # NoPV /\ p[v] = [pv[v] EXCEPT !.deleted = TRUE]))
            \/ v \in due /\ v \notin cleaned /\ proc'[v] = "running" /\ p[v] = pv[v]
            \/ v \notin due /\ proc'[v] = proc[v] /\ p[v] = pv[v]
        BY <2>1
      <3>2. pv' = p /\ v \in cleaned => proc[v] = "succeeded" /\ v \in due
        OBVIOUS
      <3>3. pv' = p
        BY <2>1 DEF Write
      <3> HIDE DEF p, cleaned, due
      <3> QED
        BY <2>1, <2>3, <2>4, <3>1, <3>2, <3>3 DEF NodeMoves, PVMoves
    <2> HIDE DEF p, cleaned, due
    <2>6. /\ pv' = p /\ feed' \in [Volumes -> Seq(PVs)] /\ FeedInv'
          /\ \A v \in Volumes : CopiesMove(v)
      BY <2>1, <2>2, WriteLemma
    <2>7. TypeOK' /\ BootInv'
      <3>1. proc' \in [Volumes -> {"none", "running", "succeeded", "failed"}]
        BY <2>1 DEF TypeOK
      <3>2. dm' \in [pc : {"idle", "list", "fill", "delete", "cleanup", "sync"},
                      seen : {"live", "deleting"}, todo : SUBSET Volumes, list : [Volumes -> PVs]]
        BY <1>4 DEF DeletePVs, TypeOK
      <3> QED
        BY <1>d, <2>1, <2>2, <2>3, <2>6, <3>1, <3>2 DEF TypeOK, BootInv
    <2>8. ASSUME NEW v \in Volumes
          PROVE  ReconcileMoves(v)
      BY <2>1, <2>3, <2>7 DEF ReconcileMoves, BootInv
    <2> QED
      BY <2>5, <2>6, <2>7, <2>8 DEF VolumeStep
  <1>5. ASSUME NEW w \in Volumes, CleanupSkips(w)
        PROVE  BaseInv' /\ \A v \in Volumes : VolumeStep(v)
    <2>1. dm'.pc = "cleanup" /\ dm.pc = "cleanup"
      BY <1>5 DEF CleanupSkips, TypeOK
    <2>2. TypeOK' /\ BootInv'
      BY <1>5, <1>d, <2>1 DEF CleanupSkips, TypeOK, BootInv
    <2>3. ASSUME NEW v \in Volumes
          PROVE  ReconcileMoves(v) /\ PVMoves(v) /\ NodeMoves(v)
      BY <1>5, <2>1 DEF CleanupSkips, ReconcileMoves, PVMoves, NodeMoves
    <2> QED
      BY <1>5, <1>c, <2>2, <2>3 DEF CleanupSkips, VolumeStep
  <1>6. ASSUME NEW w \in Volumes, CleanupSymlink(w)
        PROVE  BaseInv' /\ \A v \in Volumes : VolumeStep(v)
    <2>1. dm'.pc = "cleanup" /\ dm.pc = "cleanup"
      BY <1>6 DEF CleanupSymlink, TypeOK
    <2> DEFINE p == [pv EXCEPT ![w] = NoPV]
    <2>2. /\ p \in [Volumes -> PVs] /\ p[w] = NoPV
          /\ \A v \in Volumes : v # w => p[v] = pv[v]
      BY <1>a DEF TypeOK
    <2>3. /\ Write(p) /\ cache' = cache /\ Gone(pv[w]) /\ Gone(cache[w])
          /\ UNCHANGED <<proc, dirty, boot, bounds>>
      BY <1>6 DEF CleanupSymlink, Cleanable, Gone
    <2> HIDE DEF p
    <2>4. /\ pv' = p /\ feed' \in [Volumes -> Seq(PVs)] /\ FeedInv'
          /\ \A v \in Volumes : CopiesMove(v)
      BY <2>2, <2>3, WriteLemma
    <2>5. TypeOK' /\ BootInv'
      BY <1>6, <1>d, <2>1, <2>2, <2>4 DEF CleanupSymlink, TypeOK, BootInv
    <2>6. ASSUME NEW v \in Volumes
          PROVE  ReconcileMoves(v) /\ PVMoves(v) /\ NodeMoves(v)
      <3>1. v \in symlink /\ v \notin symlink' => v = w
        BY <1>6 DEF CleanupSymlink
      <3> QED
        BY <2>1, <2>2, <2>3, <2>4, <2>5, <3>1
           DEF ReconcileMoves, PVMoves, NodeMoves, BootInv
    <2> QED
      BY <2>4, <2>5, <2>6 DEF VolumeStep
  <1>7. ASSUME NEW w \in Volumes, CleanupSymlinkError(w)
        PROVE  BaseInv' /\ \A v \in Volumes : VolumeStep(v)
    <2>1. TypeOK' /\ BootInv'
      BY <1>7, <1>b DEF CleanupSymlinkError, TypeOK, BootInv
    <2>2. ASSUME NEW v \in Volumes
          PROVE  ReconcileMoves(v) /\ PVMoves(v) /\ NodeMoves(v)
      <3>1. v \in symlink /\ v \notin symlink' => v = w
        BY <1>7 DEF CleanupSymlinkError
      <3> QED
        BY <1>7, <1>b, <3>1
           DEF CleanupSymlinkError, Cleanable, Gone, ReconcileMoves, PVMoves, NodeMoves
    <2> QED
      BY <1>7, <1>c, <2>1, <2>2 DEF CleanupSymlinkError, VolumeStep
  <1>8. ASSUME CleanupDone
        PROVE  BaseInv' /\ \A v \in Volumes : VolumeStep(v)
    <2>1. dm'.pc \in {"idle", "sync"} /\ dm.pc = "cleanup"
      BY <1>8, <1>b DEF CleanupDone, TypeOK
    <2>2. TypeOK' /\ BootInv'
      BY <1>8, <1>b, <2>1 DEF CleanupDone, TypeOK, BootInv
    <2>3. ASSUME NEW v \in Volumes
          PROVE  ReconcileMoves(v) /\ PVMoves(v) /\ NodeMoves(v)
      BY <1>8, <2>1 DEF CleanupDone, ReconcileMoves, PVMoves, NodeMoves
    <2> QED
      BY <1>8, <1>c, <2>2, <2>3 DEF CleanupDone, VolumeStep
  <1>9. ASSUME NEW w \in Volumes, SyncPVAndLVDL(w)
        PROVE  BaseInv' /\ \A v \in Volumes : VolumeStep(v)
    <2> DEFINE create == pv[w] = NoPV /\ made[w] < MaxIncarnations
               new == NewPV(made[w] + 1)
               p == IF create THEN [pv EXCEPT ![w] = new] ELSE pv
    <2>1. dm'.pc \in {"idle", "sync"} /\ dm.pc = "sync"
      BY <1>9, <1>b DEF SyncPVAndLVDL, TypeOK
    <2>2. made[w] \in 0..MaxIncarnations
      BY DEF TypeOK
    <2>3. create => new \in PVs /\ new.phase = "Available" /\ ~new.deleted /\ new # NoPV
      BY <2>2, <1>a DEF NewPV, PVs
    <2>4. /\ p \in [Volumes -> PVs]
          /\ \A v \in Volumes : v # w => p[v] = pv[v]
          /\ p[w] = pv[w] \/ (pv[w] = NoPV /\ p[w] = new /\ create)
      BY <2>3 DEF TypeOK
    <2>5. /\ Write(p) /\ w \in symlink' /\ symlink \subseteq symlink' /\ symlink' \subseteq Volumes
          /\ UNCHANGED <<cache, boot, dirty, proc, owner, ownerSeen, opview, bounds>>
      BY <1>9 DEF SyncPVAndLVDL, TypeOK
    <2>6. made' \in [Volumes -> 0..MaxIncarnations]
      BY <1>9, <2>2 DEF SyncPVAndLVDL, TypeOK
    <2> HIDE DEF p, create, new
    <2>7. /\ pv' = p /\ feed' \in [Volumes -> Seq(PVs)] /\ FeedInv'
          /\ \A v \in Volumes : CopiesMove(v) /\ (p[v] # pv[v] => feed'[v] # <<>>)
      BY <2>4, <2>5, WriteLemma
    <2>8. dm' \in [pc : {"idle", "list", "fill", "delete", "cleanup", "sync"},
                   seen : {"live", "deleting"}, todo : SUBSET Volumes, list : [Volumes -> PVs]]
      BY <1>9, <1>b DEF SyncPVAndLVDL, TypeOK
    <2>9. TypeOK' /\ BootInv'
      BY <1>d, <2>1, <2>4, <2>5, <2>6, <2>7, <2>8 DEF TypeOK, BootInv
    <2>10. ASSUME NEW v \in Volumes
           PROVE  ReconcileMoves(v) /\ PVMoves(v) /\ NodeMoves(v)
      BY <2>1, <2>3, <2>4, <2>5, <2>7, <2>9 DEF ReconcileMoves, PVMoves, NodeMoves, BootInv
    <2> QED
      BY <2>7, <2>9, <2>10 DEF VolumeStep
  <1>10. ASSUME NEW w \in Volumes, HandlePVChange(w)
         PROVE  BaseInv' /\ \A v \in Volumes : VolumeStep(v)
    <2> DEFINE q == feed[w]
    <2>1. q \in Seq(PVs) /\ q # <<>>
      BY <1>10 DEF HandlePVChange, TypeOK
    <2>2. /\ Head(q) \in PVs /\ Head(q) = q[1] /\ Tail(q) \in Seq(PVs)
          /\ Len(q) \in Nat /\ Len(q) > 0 /\ Len(Tail(q)) = Len(q) - 1
          /\ \A i \in 1..Len(Tail(q)) : Tail(q)[i] = q[i + 1]
      BY <2>1
    <2>3. /\ Tail(q) = <<>> <=> Len(q) = 1
          /\ Tail(q) # <<>> => Tail(q)[Len(Tail(q))] = q[Len(q)]
          /\ \A i \in 1..Len(Tail(q)) : i + 1 \in 1..Len(q)
      <3>1. Tail(q) = <<>> <=> Len(Tail(q)) = 0
        BY <2>2, EmptyQueue
      <3> HIDE DEF q
      <3>2. Len(q) # 1 => Len(q) - 1 \in 1..Len(Tail(q)) /\ (Len(q) - 1) + 1 = Len(q)
        BY <2>2
      <3> QED
        BY <2>2, <3>1, <3>2
    <2>4. /\ feed'[w] = Tail(q) /\ \A v \in Volumes : v # w => feed'[v] = feed[v]
          /\ cache'[w] = (IF boot = "new" THEN cache[w] ELSE Head(q))
          /\ \A v \in Volumes : v # w => cache'[v] = cache[v]
          /\ UNCHANGED <<pv, made, node, owner, ownerSeen, boot, dm, opview, bounds>>
      BY <1>10 DEF HandlePVChange, TypeOK
    <2>5. feed' \in [Volumes -> Seq(PVs)] /\ cache' \in [Volumes -> PVs]
      BY <1>10, <2>2 DEF HandlePVChange, TypeOK
    <2>6. TypeOK' /\ BootInv'
      BY <1>10, <2>5 DEF HandlePVChange, TypeOK, BootInv
    <2> HIDE DEF q
    <2>7. FeedInv'
      BY <2>1, <2>3, <2>4 DEF FeedInv, q
    <2>8. boot = "new" => cache[w] = NoPV
      BY DEF BootInv
    <2>9. CopiesMove(w)
      <3>1. \A c \in Copies(w)' : c \in Copies(w)
        <4>1. \A i \in 1..Len(feed'[w]) : feed'[w][i] \in Copies(w)
          BY <2>2, <2>3, <2>4 DEF Copies, q
        <4>2. cache'[w] \in Copies(w)
          <5>1. 1 \in 1..Len(q)
            BY <2>2
          <5> QED
            BY <2>2, <2>4, <5>1 DEF Copies, q
        <4> QED
          BY <4>1, <4>2 DEF Copies
      <3>2. feed'[w] = <<>> => cache'[w] \in {pv'[w], NoPV}
        BY <2>1, <2>2, <2>3, <2>4, <2>8 DEF FeedInv, q
      <3> QED
        BY <3>1, <3>2 DEF CopiesMove
    <2>10. ASSUME NEW v \in Volumes, v # w
           PROVE  CopiesMove(v)
      BY <2>4, <2>10 DEF CopiesMove, Copies
    <2>11. ASSUME NEW v \in Volumes
           PROVE  ReconcileMoves(v) /\ PVMoves(v) /\ NodeMoves(v)
      BY <2>4 DEF ReconcileMoves, PVMoves, NodeMoves
    <2> QED
      BY <2>6, <2>7, <2>9, <2>10, <2>11 DEF VolumeStep
  <1>11. ASSUME OwnerEvent \/ DeleteOwner \/ (\E w \in Volumes : OperatorSees(w))
         PROVE  BaseInv' /\ \A v \in Volumes : VolumeStep(v)
    <2>1. UNCHANGED <<api, node, maker, bounds>>
      BY <1>11 DEF OwnerEvent, DeleteOwner, OperatorSees
    <2>2. TypeOK' /\ BootInv'
      <3>1. CASE OwnerEvent
        BY <2>1, <3>1 DEF OwnerEvent, TypeOK, BootInv
      <3>2. CASE DeleteOwner
        BY <2>1, <3>2 DEF DeleteOwner, TypeOK, BootInv
      <3>3. ASSUME NEW w \in Volumes, OperatorSees(w)
            PROVE  TypeOK' /\ BootInv'
        BY <2>1, <3>3 DEF OperatorSees, TypeOK, BootInv
      <3> QED
        BY <1>11, <3>1, <3>2, <3>3
    <2>3. ASSUME NEW v \in Volumes
          PROVE  ReconcileMoves(v) /\ PVMoves(v) /\ NodeMoves(v)
      BY <2>1 DEF ReconcileMoves, PVMoves, NodeMoves
    <2> QED
      BY <1>c, <2>1, <2>2, <2>3 DEF VolumeStep
  <1>12. ASSUME NEW w \in Volumes, Resync(w)
         PROVE  BaseInv' /\ \A v \in Volumes : VolumeStep(v)
    <2>1. /\ feed'[w] = <<pv[w]>> /\ \A v \in Volumes : v # w => feed'[v] = feed[v]
          /\ UNCHANGED <<pv, made, node, owner, ownerSeen, maker, opview, bounds>>
      BY <1>12 DEF Resync, TypeOK
    <2>2. <<pv[w]>> \in Seq(PVs) /\ Len(<<pv[w]>>) = 1 /\ <<pv[w]>>[1] = pv[w] /\ <<pv[w]>> # <<>>
      BY DEF TypeOK
    <2>3. TypeOK' /\ BootInv' /\ FeedInv'
      BY <1>12, <2>1, <2>2 DEF Resync, TypeOK, BootInv, FeedInv
    <2>4. ASSUME NEW v \in Volumes
          PROVE  CopiesMove(v)
      BY <2>1, <2>2 DEF CopiesMove, Copies
    <2>5. ASSUME NEW v \in Volumes
          PROVE  ReconcileMoves(v) /\ PVMoves(v) /\ NodeMoves(v)
      BY <2>1 DEF ReconcileMoves, PVMoves, NodeMoves
    <2> QED
      BY <2>3, <2>4, <2>5 DEF VolumeStep
  <1>13. ASSUME Restart
         PROVE  BaseInv' /\ \A v \in Volumes : VolumeStep(v)
    <2>1. ASSUME NEW v \in Volumes
          PROVE  /\ feed'[v] \in Seq(PVs) /\ cache'[v] = NoPV /\ proc'[v] = "none"
                 /\ feed'[v] # <<>> => feed'[v][Len(feed'[v])] = pv[v]
                 /\ Copies(v)' \subseteq {pv[v], NoPV}
      <3>1. <<pv[v]>> \in Seq(PVs) /\ Len(<<pv[v]>>) = 1 /\ <<pv[v]>>[1] = pv[v] /\ Len(<<>>) = 0
        BY DEF TypeOK
      <3> QED
        BY <1>13, <3>1 DEF Restart, Copies
    <2>2. feed' \in [Volumes -> Seq(PVs)]
      BY <1>13, <2>1 DEF Restart
    <2>3. TypeOK' /\ BootInv' /\ FeedInv'
      BY <1>13, <1>a, <1>b, <2>1, <2>2 DEF Restart, TypeOK, BootInv, FeedInv
    <2>4. ASSUME NEW v \in Volumes
          PROVE  VolumeStep(v)
      BY <1>13, <1>b, <2>1 DEF Restart, VolumeStep, CopiesMove, ReconcileMoves, PVMoves, NodeMoves
    <2> QED
      BY <2>3, <2>4
  <1>14. ASSUME NEW w \in Volumes, CleanSucceeds(w) \/ CleanFails(w)
         PROVE  BaseInv' /\ \A v \in Volumes : VolumeStep(v)
    <2>1. UNCHANGED <<api, symlink, owner, ownerSeen, maker, opview, bounds>>
      BY <1>14 DEF CleanSucceeds, CleanFails
    <2>2. TypeOK' /\ BootInv'
      BY <1>14, <2>1, ZenonT(60) DEF CleanSucceeds, CleanFails, TypeOK, BootInv
    <2>3. ASSUME NEW v \in Volumes
          PROVE  ReconcileMoves(v) /\ PVMoves(v) /\ NodeMoves(v)
      BY <1>14, <2>1 DEF CleanSucceeds, CleanFails, TypeOK, ReconcileMoves, PVMoves, NodeMoves
    <2> QED
      BY <1>c, <2>1, <2>2, <2>3 DEF VolumeStep
  \* The operator, the volume controller and users change a PV.
  <1>15. ASSUME NEW p \in [Volumes -> PVs], Write(p),
                UNCHANGED <<made, symlink, proc, maker, opview, bounds>>,
                {owner', ownerSeen'} \subseteq {"live", "deleting", "gone"}, dirty' \subseteq Volumes,
                dirty \subseteq dirty',
                \A v \in Volumes : pv'[v] = pv[v] \/ OthersMovePV(v),
                \A v \in dirty' \ dirty :
                    pv[v].phase = "Available" /\ pv'[v].phase = "Bound" /\ ~pv'[v].deleted
         PROVE  BaseInv' /\ \A v \in Volumes : VolumeStep(v)
    <2>1. /\ pv' = p /\ feed' \in [Volumes -> Seq(PVs)] /\ FeedInv'
          /\ \A v \in Volumes : CopiesMove(v)
      BY <1>15, WriteLemma
    <2>2. TypeOK' /\ BootInv'
      BY <1>15, <2>1 DEF TypeOK, BootInv
    <2>3. ASSUME NEW v \in Volumes
          PROVE  ReconcileMoves(v) /\ PVMoves(v) /\ NodeMoves(v)
      BY <1>15, <2>2 DEF ReconcileMoves, PVMoves, NodeMoves, BootInv
    <2> QED
      BY <2>1, <2>2, <2>3 DEF VolumeStep
  <1>16. ASSUME CleanupOwner
         PROVE  BaseInv' /\ \A v \in Volumes : VolumeStep(v)
    <2> DEFINE avail == {v \in Volumes : Releasable(v)}
               stale == {v \in avail : opview[v] # pv[v]}
               pOf(released) == [v \in Volumes |-> IF v \in released
                                                   THEN [pv[v] EXCEPT !.claimed = TRUE] ELSE pv[v]]
    <2>1. PICK released \in SUBSET (avail \ stale) : Write(pOf(released))
      BY <1>16 DEF CleanupOwner
    <2>2. \A v \in released : pv[v].phase = "Available"
      BY DEF Releasable
    <2>3. pOf(released) \in [Volumes -> PVs] /\ pv' = pOf(released)
      BY <2>1, PVFields, ZenonT(60) DEF TypeOK, Write
    <2>4. \A v \in Volumes : pv'[v] = pv[v] \/ OthersMovePV(v)
      BY <2>2, <2>3 DEF OthersMovePV
    <2> QED
      BY <1>15, <1>16, <2>1, <2>3, <2>4 DEF CleanupOwner, TypeOK
  <1>17. ASSUME NEW w \in Volumes, KCMRelease(w) \/ Unclaim(w)
         PROVE  BaseInv' /\ \A v \in Volumes : VolumeStep(v)
    <2> DEFINE p == [pv EXCEPT ![w].phase = "Released"]
    <2>1. p \in [Volumes -> PVs] /\ p[w] = [pv[w] EXCEPT !.phase = "Released"]
          /\ \A v \in Volumes : v # w => p[v] = pv[v]
      BY PVFields, ZenonT(60) DEF TypeOK
    <2>2. Write(p) /\ pv' = p /\ pv[w].phase \in {"Available", "Bound"}
      BY <1>17 DEF KCMRelease, Unclaim, Write
    <2> HIDE DEF p
    <2>3. \A v \in Volumes : pv'[v] = pv[v] \/ OthersMovePV(v)
      BY <2>1, <2>2 DEF OthersMovePV
    <2> QED
      BY <1>15, <1>17, <2>1, <2>2, <2>3, ZenonT(60) DEF KCMRelease, Unclaim, TypeOK
  <1>18. ASSUME NEW w \in Volumes, Claim(w)
         PROVE  BaseInv' /\ \A v \in Volumes : VolumeStep(v)
    <2> DEFINE p == [pv EXCEPT ![w].phase = "Bound", ![w].claimed = TRUE]
    <2>1. p \in [Volumes -> PVs] /\ p[w] = [pv[w] EXCEPT !.phase = "Bound", !.claimed = TRUE]
          /\ \A v \in Volumes : v # w => p[v] = pv[v]
      BY PVFields, ZenonT(60) DEF TypeOK
    <2>2. /\ Write(p) /\ pv' = p /\ pv[w].phase = "Available" /\ ~pv[w].deleted
          /\ dirty' = dirty \cup {w}
      BY <1>18 DEF Claim, Write
    <2> HIDE DEF p
    <2>3. \A v \in Volumes : pv'[v] = pv[v] \/ OthersMovePV(v)
      BY <2>1, <2>2 DEF OthersMovePV
    <2>4. pv'[w].phase = "Bound" /\ ~pv'[w].deleted
      <3>1. pv[w] \in PVs
        BY DEF TypeOK
      <3> QED
        BY <2>1, <2>2, <3>1, PVFields
    <2> QED
      BY <1>15, <1>18, <2>1, <2>2, <2>3, <2>4, ZenonT(60) DEF Claim, TypeOK
  <1>19. ASSUME NEW w \in Volumes, UserDeletesPV(w)
         PROVE  BaseInv' /\ \A v \in Volumes : VolumeStep(v)
    <2> DEFINE p == [pv EXCEPT ![w].deleted = TRUE]
    <2>1. p \in [Volumes -> PVs] /\ p[w] = [pv[w] EXCEPT !.deleted = TRUE]
          /\ \A v \in Volumes : v # w => p[v] = pv[v]
      BY PVFields, ZenonT(60) DEF TypeOK
    <2>2. Write(p) /\ pv' = p /\ pv[w].phase \in UserDeletes
      BY <1>19 DEF UserDeletesPV, Write
    <2> HIDE DEF p
    <2>3. \A v \in Volumes : pv'[v] = pv[v] \/ OthersMovePV(v)
      BY <2>1, <2>2 DEF OthersMovePV
    <2> QED
      BY <1>15, <1>19, <2>1, <2>2, <2>3 DEF UserDeletesPV, TypeOK
  <1>20. ASSUME UNCHANGED vars
         PROVE  BaseInv' /\ \A v \in Volumes : VolumeStep(v)
    <2>1. TypeOK' /\ BootInv'
      BY <1>20 DEF vars, TypeOK, BootInv
    <2>2. ASSUME NEW v \in Volumes
          PROVE  ReconcileMoves(v) /\ PVMoves(v) /\ NodeMoves(v)
      BY <1>20 DEF vars, ReconcileMoves, PVMoves, NodeMoves
    <2> QED
      BY <1>c, <1>20, <2>1, <2>2 DEF vars, VolumeStep
  <1> QED
    BY <1>1, <1>2, <1>3, <1>4, <1>5, <1>6, <1>7, <1>8, <1>9, <1>10, <1>11, <1>12, <1>13, <1>14,
       <1>16, <1>17, <1>18, <1>19, <1>20 DEF Next

-----------------------------------------------------------------------------
(* The theorems.                                                           *)

\* At first no copy of a volume exists.
LEMMA CopiesAtFirst == Init => \A v \in Volumes : Copies(v) = {NoPV}
  <1> SUFFICES ASSUME Init, NEW v \in Volumes
               PROVE  Copies(v) = {NoPV}
    BY Zenon
  <1>1. cache[v] = NoPV /\ Len(feed[v]) = 0
    BY DEF Init
  <1>2. 1..Len(feed[v]) = {}
    BY <1>1
  <1> QED
    BY <1>1, <1>2 DEF Copies

\* The invariant of symlinks, at first ...
LEMMA SInit == Init => SInv
  <1> SUFFICES ASSUME Init
               PROVE  SInv
    OBVIOUS
  <1>1. \A v \in Volumes : pv[v] = NoPV /\ Copies(v) = {NoPV}
    BY CopiesAtFirst DEF Init
  <1>2. ~Live(NoPV) /\ ~Gone(NoPV)
    BY DEF NoPV, Live, Gone
  <1> QED
    BY <1>1, <1>2, BaseInit DEF SInv, SymlinkInv

\* ... and after every step.
LEMMA SStep ==
    ASSUME SInv, [Next]_vars
    PROVE  SInv'
  <1>1. BaseInv' /\ \A v \in Volumes : VolumeStep(v)
    BY StepView DEF SInv
  <1>2. ASSUME NEW v \in Volumes
        PROVE  SymlinkInv(v)'
    <2>1. SymlinkInv(v) /\ VolumeStep(v)
      BY <1>1 DEF SInv
    <2>2. /\ pv[v] \in PVs
          /\ NoPV.phase = "none" /\ ~NoPV.deleted
          /\ dm.pc \notin {"idle", "list", "fill"} => boot = "synced"
          /\ dm.pc = "fill" => boot # "synced"
          /\ dm'.pc = "fill" => boot' # "synced"
      BY <1>1 DEF SInv, BaseInv, BootInv, TypeOK, NoPV, Idle
    <2>3. ~(Gone(pv'[v]) /\ Live(pv'[v])) /\ ~Gone(NoPV)
      BY <2>2 DEF Gone, Live
    \* Only SyncPVAndLVDL brings a PV to life.
    <2>4. Live(pv'[v]) => \/ Live(pv[v])
                          \/ /\ dm.pc = "sync" /\ dm'.pc \in {"idle", "sync"} /\ boot' = boot
                             /\ v \in symlink' /\ feed'[v] # <<>>
      <3>1. \A p \in PVs : /\ Live([p EXCEPT !.deleted = TRUE]) => Live(p)
                           /\ Live([p EXCEPT !.claimed = TRUE]) => Live(p)
                           /\ ~Live([p EXCEPT !.phase = "Released"])
        BY DEF PVs, Live
      <3> QED
        BY <2>1, <2>2, <3>1, ZenonT(60) DEF VolumeStep, PVMoves, OthersMovePV, Live
    <2> DEFINE Sure == boot # "synced" \/ (~lagging /\ dm.pc \in {"delete", "cleanup"})
    <2>5. ASSUME Live(pv'[v]), Live(pv[v]), Sure', NEW c \in Copies(v)', Gone(c)
          PROVE  FALSE
      <3>1. c # pv'[v] /\ c # NoPV
        BY <2>3, <2>5
      <3>2. CASE Sure
        BY <2>1, <2>5, <3>1, <3>2 DEF VolumeStep, CopiesMove, SymlinkInv
      <3>3. CASE ~Sure
        <4>1. boot = "synced" /\ boot' = "synced"
          BY <2>1, <2>5, <3>1, <3>3 DEF VolumeStep, ReconcileMoves
        <4>2. feed[v] = <<>> /\ UNCHANGED <<pv, feed, cache>>
          BY <2>1, <2>5, <3>3, <4>1 DEF VolumeStep, ReconcileMoves
        <4>3. Copies(v)' = {cache[v]}
          BY <4>2 DEF Copies
        <4> QED
          BY <2>1, <2>5, <4>2, <4>3 DEF SymlinkInv
      <3> QED
        BY <3>2, <3>3
    <2>6. Sure' /\ Live(pv'[v]) => \A c \in Copies(v)' : ~Gone(c)
      BY <2>2, <2>4, <2>5 DEF BootInv
    <2>7. Gone(cache'[v]) /\ Live(pv'[v]) => feed'[v] # <<>>
      <3>1. ASSUME Gone(cache'[v]), Live(pv'[v]), feed'[v] = <<>>
            PROVE  FALSE
        <4>1. /\ feed[v] = <<>> /\ Live(pv[v])
              /\ cache'[v] = cache[v] \/ (dm.pc = "fill" /\ cache'[v] = dm.list[v])
          BY <2>1, <2>3, <2>4, <3>1 DEF VolumeStep, CopiesMove
        <4> QED
          BY <2>1, <3>1, <4>1 DEF SymlinkInv
      <3> QED
        BY <3>1
    <2>8. dm'.pc = "fill" /\ Gone(dm'.list[v]) => ~Live(pv'[v])
      BY <2>1, <2>3, <2>4 DEF VolumeStep, ReconcileMoves, SymlinkInv
    <2>9. ~lagging' /\ Live(pv'[v]) => v \in symlink'
      <3>1. cache[v] \in Copies(v)
        BY DEF Copies
      <3> QED
        BY <2>1, <2>4, <3>1 DEF VolumeStep, ReconcileMoves, NodeMoves, SymlinkInv
    <2> QED
      BY <2>6, <2>7, <2>8, <2>9 DEF SymlinkInv
  <1> QED
    BY <1>1, <1>2 DEF SInv

(***************************************************************************)
(* When Reconcile starts with no PV events pending, CleanupSymlinks never  *)
(* removes the symlink of a PV that a claim uses, although events come in  *)
(* while it runs and whatever PVs users delete.                            *)
(***************************************************************************)
THEOREM ClaimsKeepTheirSymlink == Spec => []BoundKeepsSymlink
  <1>1. SInv => BoundKeepsSymlink
    BY DEF SInv, SymlinkInv, Live, BoundKeepsSymlink
  <1>2. SInv /\ [Next]_vars => SInv'
    BY SStep
  <1> QED
    BY <1>1, <1>2, SInit, PTL DEF Spec

\* The invariant of cleaning, at first ...
LEMMA CInit == Init => CInv
  <1> SUFFICES ASSUME Init
               PROVE  CInv
    OBVIOUS
  <1>1. \A v \in Volumes : pv[v] = NoPV /\ Copies(v) = {NoPV} /\ proc[v] = "none"
    BY CopiesAtFirst DEF Init
  <1>2. ~Old(NoPV)
    BY DEF NoPV, Old
  <1> QED
    BY <1>1, <1>2, BaseInit DEF CInv, CleanInv, Init, Idle

\* ... and after every step, if users delete no released volume.
LEMMA CStep ==
    ASSUME "Released" \notin UserDeletes, CInv, [Next]_vars
    PROVE  CInv'
  <1>1. BaseInv' /\ \A v \in Volumes : VolumeStep(v)
    BY StepView DEF CInv
  <1>2. ASSUME NEW v \in Volumes
        PROVE  CleanInv(v)'
    <2>1. CleanInv(v) /\ VolumeStep(v) /\ cache[v] \in Copies(v)
      BY <1>1 DEF CInv, Copies
    <2>2. /\ ~Old(NoPV)
          /\ dm.pc \notin {"idle", "list", "fill"} => boot = "synced"
          /\ dm.pc = "fill" => boot # "synced"
          /\ dm'.pc = "fill" => boot' # "synced"
      BY <1>1 DEF CInv, BaseInv, BootInv, TypeOK, NoPV, Idle, Old
    \* A released PV waits for the deleter.
    <2>3. Old(pv[v]) => \/ pv'[v] = pv[v]
                        \/ /\ dm.pc = "delete" /\ dm'.pc = "cleanup"
                           /\ proc'[v] = "none"
      BY <2>1, <2>2 DEF VolumeStep, PVMoves, OthersMovePV, Old, Gone
    <2> DEFINE Sure == boot # "synced" \/ (~lagging /\ dm.pc = "delete")
    <2>4. ASSUME Sure', NEW c \in Copies(v)', Old(c)
          PROVE  c = pv'[v]
      <3> SUFFICES ASSUME c # pv'[v]
                   PROVE  FALSE
        OBVIOUS
      <3>1. CASE Sure
        <4>1. c = pv[v]
          BY <2>1, <2>2, <2>4, <3>1 DEF VolumeStep, CopiesMove, CleanInv
        <4>2. dm.pc = "delete" /\ dm'.pc = "cleanup" /\ boot = "synced"
          BY <2>2, <2>3, <2>4, <4>1
        <4>3. boot' # "synced"
          BY <2>4, <4>2
        <4> QED
          BY <2>1, <2>2, <2>4, <4>2, <4>3 DEF VolumeStep, ReconcileMoves
      <3>2. CASE ~Sure
        <4>1. boot = "synced" /\ boot' = "synced"
          BY <2>1, <2>2, <2>4, <3>2 DEF VolumeStep, ReconcileMoves
        <4>2. feed[v] = <<>> /\ UNCHANGED <<pv, feed, cache>>
          BY <2>1, <2>4, <3>2, <4>1 DEF VolumeStep, ReconcileMoves
        <4>3. Copies(v)' = {cache[v]}
          BY <4>2 DEF Copies
        <4> QED
          BY <2>1, <2>4, <4>2, <4>3 DEF CleanInv
      <3> QED
        BY <3>1, <3>2
    <2>5. Old(cache'[v]) /\ cache'[v] # pv'[v] => feed'[v] # <<>>
      BY <2>1, <2>2 DEF VolumeStep, CopiesMove, CleanInv
    <2>6. dm'.pc = "fill" /\ Old(dm'.list[v]) => dm'.list[v] = pv'[v]
      BY <2>1, <2>3 DEF VolumeStep, ReconcileMoves, CleanInv
    <2>7. ~lagging' /\ proc'[v] # "none" => Old(pv'[v])
      BY <2>1, <2>3 DEF VolumeStep, ReconcileMoves, NodeMoves, CleanInv
    <2> QED
      BY <2>4, <2>5, <2>6, <2>7 DEF CleanInv
  <1> QED
    BY <1>1, <1>2 DEF CInv

(***************************************************************************)
(* When Reconcile starts with no PV events pending and nobody deletes a    *)
(* Released PV by hand, DeletePVs never has a device cleaned that a PV     *)
(* offers or a claim uses.                                                 *)
(***************************************************************************)
THEOREM LiveIsNeverCleaned ==
    ASSUME "Released" \notin UserDeletes
    PROVE  Spec => []NeverCleansLive
  <1>1. CInv => NeverCleansLive
    BY DEF CInv, CleanInv, Old, NeverCleansLive
  <1>2. CInv /\ [Next]_vars => CInv'
    BY CStep
  <1> QED
    BY <1>1, <1>2, CInit, PTL DEF Spec

\* The invariant of the data, if users delete available volumes only.
LEMMA DStep ==
    ASSUME UserDeletes \subseteq {"Available"}, DInv, [Next]_vars
    PROVE  DInv'
  <1>1. CInv' /\ \A v \in Volumes : VolumeStep(v)
    BY CStep, StepView DEF CInv, DInv
  <1>2. ASSUME NEW v \in Volumes
        PROVE  DataInv(v)'
    <2>1. /\ CleanInv(v) /\ DataInv(v) /\ VolumeStep(v) /\ pv[v] \in PVs
          /\ CleanInv(v)' /\ NoPV.phase = "none"
      BY <1>1 DEF DInv, CInv, BaseInv, TypeOK, NoPV
    <2> SUFFICES ASSUME ~lagging', v \notin retained', v \in dirty'
                 PROVE  \/ pv'[v].phase = "Bound" /\ ~pv'[v].deleted
                        \/ Old(pv'[v]) /\ proc'[v] # "succeeded"
      BY DEF DataInv
    <2>2. ~lagging /\ v \notin retained
      BY <2>1 DEF VolumeStep, ReconcileMoves
    <2>3. CASE v \notin dirty
      BY <2>1, <2>3 DEF VolumeStep, NodeMoves
    <2>4. CASE v \in dirty /\ pv[v].phase = "Bound" /\ ~pv[v].deleted
      <3>1. proc[v] = "none"
        BY <2>1, <2>2, <2>4 DEF CleanInv, Old
      <3>2. proc'[v] # "succeeded"
        BY <2>1, <3>1 DEF VolumeStep, NodeMoves
      <3>3. pv'[v] = pv[v] \/ pv'[v] = [pv[v] EXCEPT !.phase = "Released"]
        BY <2>1, <2>4, <3>1 DEF VolumeStep, PVMoves, OthersMovePV, Gone
      <3> QED
        BY <2>1, <2>4, <3>2, <3>3 DEF Old, PVs
    <2>5. CASE v \in dirty /\ Old(pv[v]) /\ proc[v] # "succeeded"
      <3>1. pv'[v] = pv[v]
        BY <2>1, <2>5 DEF VolumeStep, PVMoves, OthersMovePV, Gone, Old
      <3> QED
        BY <2>1, <2>5, <3>1 DEF VolumeStep, NodeMoves
    <2> QED
      BY <2>1, <2>2, <2>3, <2>4, <2>5 DEF DataInv
  <1> QED
    BY <1>1, <1>2 DEF DInv

(***************************************************************************)
(* When Reconcile starts with no PV events pending and people delete       *)
(* Available PVs only, a PV that can be claimed never holds the data of an *)
(* earlier claim: a PV with the policy Delete goes after its cleaning.     *)
(***************************************************************************)
THEOREM PublishedIsClean ==
    ASSUME UserDeletes \subseteq {"Available"}
    PROVE  Spec => []PublishedClean
  <1>1. Init => DInv
    BY CInit DEF DInv, DataInv, Init
  <1>2. DInv => PublishedClean
    BY DEF DInv, DataInv, Old, PublishedClean
  <1>3. DInv /\ [Next]_vars => DInv'
    BY DStep
  <1> QED
    BY <1>1, <1>2, <1>3, PTL DEF Spec

(***************************************************************************)
(* However old its copies of the PVs are, DeletePVs never has a device     *)
(* cleaned whose reclaim policy is Retain.                                 *)
(***************************************************************************)
THEOREM RetainedIsNeverCleaned == Spec => RetainKeepsData
  <1>1. Init => RInv
    BY BaseInit DEF Init, RInv, RetainInv
  <1>2. ASSUME RInv, [Next]_vars
        PROVE  RInv' /\ [\A v \in retained : v \in dirty => v \in dirty']_vars
    <2>1. BaseInv' /\ (\A v \in Volumes : VolumeStep(v)) /\ retained \subseteq Volumes
      BY <1>2, StepView DEF RInv, BaseInv, TypeOK
    <2>2. retained' = retained
      <3>1. CASE Volumes = {}
        BY <1>2, <2>1, <3>1 DEF RInv, BaseInv, TypeOK
      <3>2. CASE Volumes # {}
        BY <2>1, <3>2 DEF VolumeStep, ReconcileMoves
      <3> QED
        BY <3>1, <3>2
    <2> QED
      BY <1>2, <2>1, <2>2 DEF RInv, RetainInv, VolumeStep, NodeMoves
  <1>3. RInv /\ [Next]_vars => RInv'
    BY <1>2
  <1>4. RInv /\ [Next]_vars => [\A v \in retained : v \in dirty => v \in dirty']_vars
    BY <1>2
  <1> QED
    BY <1>1, <1>3, <1>4, PTL DEF Spec, RetainKeepsData

(***************************************************************************)
(* However old its copies of the PVs are, the diskmaker never ends a PV    *)
(* that a claim uses: the update that removes the finalizer carries the    *)
(* version CleanupSymlinks looked at.                                      *)
(***************************************************************************)
THEOREM BoundStays == Spec => BoundNeverVanishes
  <1>1. ASSUME BaseInv, [Next]_vars
        PROVE  [\A v \in Volumes : pv[v].phase = "Bound" => pv'[v].uid = pv[v].uid]_vars
    <2>1. ASSUME NEW v \in Volumes, pv[v].phase = "Bound"
          PROVE  pv'[v].uid = pv[v].uid
      <3>1. VolumeStep(v) /\ pv[v] \in PVs
        BY <1>1, StepView DEF BaseInv, TypeOK
      <3> QED
        BY <2>1, <3>1 DEF VolumeStep, PVMoves, OthersMovePV, Gone, PVs, NoPV
    <2> QED
      BY <2>1
  <1>2. BaseInv /\ [Next]_vars => BaseInv'
    BY StepView
  <1> QED
    BY <1>1, <1>2, BaseInit, PTL DEF Spec, BoundNeverVanishes
=============================================================================

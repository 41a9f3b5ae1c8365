------------------------- MODULE DeviceClaimProofs -------------------------
(***************************************************************************)
(* Proofs about DeviceClaim for any number of devices, names, storage      *)
(* classes and reconcilers, and about CapacityRounding, the capacity of    *)
(* the volumes, for all units and capacities.                              *)
(***************************************************************************)
EXTENDS DeviceClaim, CapacityRounding, TLAPS

\* What a leaf is tried with, if it does not say.
USE ZenonT(5), SMTT(30), Z3T(30), ZenonT(30)

(***************************************************************************)
(* A reconciler about to create its symlink has the device open.           *)
(***************************************************************************)
LinkerHoldsLock ==
    \A w \in Workers : pc[w] = "link" => holder[Dev(path[w])] = w

LockInv == TypeOK /\ LinkerHoldsLock

\* Unlocking takes the device from its holder only.
LEMMA UnlockLemma ==
    ASSUME TypeOK, NEW w \in Workers, Unlock(w)
    PROVE  /\ holder' \in [Devices -> Workers \cup {NoOne, Kubelet}]
           /\ \A d \in Devices : holder'[d] \in {holder[d], NoOne}
           /\ \A d \in Devices : holder[d] # w => holder'[d] = holder[d]
  BY DEF TypeOK, Unlock

\* A busy reconciler works on a path.
LEMMA BusyPath ==
    ASSUME TypeOK, NEW w \in Workers, pc[w] # "idle"
    PROVE  path[w] \in Paths /\ Dev(path[w]) \in Devices
  <1>1. path[w] \in Paths
    BY DEF TypeOK
  <1>2. path[w][2] \in Names
    BY <1>1 DEF Paths
  <1> QED
    BY <1>1, <1>2, ClaimAssumption DEF Dev

\* Types and the lock of a linking reconciler survive every step: only the
\* holder gives a device up, and it leaves "link" when it does.
LEMMA LockInvStep == LockInv /\ [Next]_vars => LockInv'
  <1> SUFFICES ASSUME LockInv, [Next]_vars
               PROVE  LockInv'
    OBVIOUS
  <1> USE ClaimAssumption DEF LockInv
  <1>1. ASSUME NEW w \in Workers, NEW c \in Classes, NEW n \in Names,
               ConsiderDevice(w, c, n)
        PROVE  LockInv'
    <2>1. PICK p \in Paths, step \in {"readlink", "lock"} : Begin(w, step, p)
      BY <1>1 DEF ConsiderDevice, GetSymlinkedForCurrentSC, TypeOK, Paths
    <2>2. UNCHANGED <<links, holder, pvOwner, dying, lvdlOwner, ownerDeleted>>
      BY <1>1 DEF ConsiderDevice
    <2>3. TypeOK'
      BY <2>1, <2>2 DEF TypeOK, Begin, Steps
    <2>4. LinkerHoldsLock'
      BY <2>1, <2>2 DEF TypeOK, Begin, LinkerHoldsLock, Dev
    <2> QED
      BY <2>3, <2>4
  <1>2. ASSUME NEW w \in Workers, LockDevice(w)
        PROVE  LockInv'
    <2>1. Dev(path[w]) \in Devices
      BY <1>2, BusyPath DEF LockDevice
    <2>2. TypeOK'
      BY <1>2, <2>1 DEF LockDevice, Goto, TypeOK, Steps
    <2>3. LinkerHoldsLock'
      BY <1>2, <2>1 DEF LockDevice, Goto, TypeOK, LinkerHoldsLock, Dev
    <2> QED
      BY <2>2, <2>3
  <1>3. ASSUME NEW w \in Workers, FindSymlinks(w)
        PROVE  LockInv'
    <2>1. Dev(path[w]) \in Devices
      BY <1>3, BusyPath DEF FindSymlinks
    <2>2. CASE Goto(w, "readlink") /\ (Unlock(w) \/ UNCHANGED holder)
      <3>1. TypeOK'
        BY <1>3, <2>2 DEF FindSymlinks, Goto, TypeOK, Steps, Unlock
      <3>2. LinkerHoldsLock'
        BY <1>3, <2>2, BusyPath DEF FindSymlinks, Goto, TypeOK, Unlock, LinkerHoldsLock, Dev
      <3> QED
        BY <3>1, <3>2
    <2>3. CASE Goto(w, "link") /\ Locked(w) /\ UNCHANGED holder
      BY <1>3, <2>3 DEF FindSymlinks, Goto, Locked, TypeOK, Steps, LinkerHoldsLock, Dev
    <2>4. CASE Finish(w) /\ Unlock(w)
      <3>1. TypeOK'
        BY <1>3, <2>4 DEF FindSymlinks, Finish, Begin, TypeOK, Steps, Unlock
      <3>2. LinkerHoldsLock'
        BY <1>3, <2>4, BusyPath DEF FindSymlinks, Finish, Begin, TypeOK, Unlock, LinkerHoldsLock, Dev
      <3> QED
        BY <3>1, <3>2
    <2> QED
      BY <1>3, <2>2, <2>3, <2>4 DEF FindSymlinks
  <1>4. ASSUME NEW w \in Workers, CreateSymlink(w)
        PROVE  LockInv'
    <2>1. path[w] \in Paths
      BY <1>4, BusyPath DEF CreateSymlink
    <2>2. TypeOK'
      BY <1>4, <2>1 DEF CreateSymlink, Goto, TypeOK, Steps, Unlock
    <2>3. LinkerHoldsLock'
      BY <1>4, BusyPath DEF CreateSymlink, Goto, TypeOK, Unlock, LinkerHoldsLock, Dev
    <2> QED
      BY <2>2, <2>3
  <1>5. ASSUME NEW w \in Workers, ReadSymlink(w)
        PROVE  LockInv'
    <2>1. TypeOK'
      BY <1>5 DEF ReadSymlink, Goto, Finish, Begin, TypeOK, Steps, Unlock
    <2>2. LinkerHoldsLock'
      BY <1>5, BusyPath DEF ReadSymlink, Goto, Finish, Begin, TypeOK, Unlock, LinkerHoldsLock, Dev
    <2> QED
      BY <2>1, <2>2
  <1>6. ASSUME NEW w \in Workers, CreateOrUpdatePV(w)
        PROVE  LockInv'
    <2>1. path[w] \in Paths
      BY <1>6, BusyPath DEF CreateOrUpdatePV
    <2> QED
      BY <1>6, <2>1 DEF CreateOrUpdatePV, Goto, TypeOK, Steps, LinkerHoldsLock, Dev
  <1>7. ASSUME NEW w \in Workers, ApplyStatus(w)
        PROVE  LockInv'
    <2>1. path[w] \in Paths
      BY <1>7, BusyPath DEF ApplyStatus
    <2>2. TypeOK'
      BY <1>7, <2>1 DEF ApplyStatus, Finish, Begin, TypeOK, Steps, Unlock
    <2>3. LinkerHoldsLock'
      BY <1>7, BusyPath DEF ApplyStatus, Finish, Begin, TypeOK, Unlock, LinkerHoldsLock, Dev
    <2> QED
      BY <2>2, <2>3
  <1>8. ASSUME NEW w \in Workers, StepFails(w)
        PROVE  LockInv'
    <2>1. TypeOK'
      BY <1>8 DEF StepFails, Finish, Begin, TypeOK, Steps, Unlock
    <2>2. LinkerHoldsLock'
      BY <1>8, BusyPath DEF StepFails, Finish, Begin, TypeOK, Unlock, LinkerHoldsLock, Dev
    <2> QED
      BY <2>1, <2>2
  <1>9. ASSUME NEW w \in Workers, Cleanup(w)
        PROVE  LockInv'
    <2>1. ASSUME NEW p \in Paths, CleanupSymlink(w, p)
          PROVE  LockInv'
      BY <2>1 DEF CleanupSymlink, Begin, TypeOK, Steps, LinkerHoldsLock, Dev
    <2>2. ASSUME RemoveSymlinkFinalizer(w)
          PROVE  LockInv'
      <3>1. path[w] \in Paths
        BY <2>2, BusyPath DEF RemoveSymlinkFinalizer
      <3> QED
        BY <2>2, <3>1 DEF RemoveSymlinkFinalizer, Finish, Begin, TypeOK, Steps, LinkerHoldsLock, Dev
    <2> QED
      BY <1>9, <2>1, <2>2 DEF Cleanup
  <1>10. ASSUME Environment
         PROVE  LockInv'
    <2>1. ASSUME NEW p \in Paths, DeletePV(p)
          PROVE  LockInv'
      BY <2>1 DEF DeletePV, TypeOK, LinkerHoldsLock, Dev
    <2>2. ASSUME NEW w \in Workers, DeleteOwner(w)
          PROVE  LockInv'
      BY <2>2 DEF DeleteOwner, TypeOK, LinkerHoldsLock, Dev
    <2>3. ASSUME NEW w \in Workers, FinalizeOwner(w)
          PROVE  LockInv'
      BY <2>3 DEF FinalizeOwner, TypeOK, LinkerHoldsLock, Dev
    <2>4. ASSUME NEW d \in Devices, Mount(d) \/ Unmount(d)
          PROVE  LockInv'
      <3>1. TypeOK'
        BY <2>4 DEF Mount, Unmount, TypeOK
      <3>2. \A w \in Workers : holder[d] # w
        BY <2>4 DEF Mount, Unmount
      <3>3. \A e \in Devices : e # d => holder'[e] = holder[e]
        BY <2>4 DEF Mount, Unmount, TypeOK
      <3>4. UNCHANGED <<pc, path>>
        BY <2>4 DEF Mount, Unmount
      <3>5. LinkerHoldsLock'
        BY <3>2, <3>3, <3>4, BusyPath DEF LinkerHoldsLock, Dev
      <3> QED
        BY <3>1, <3>5
    <2>5. ASSUME Crash
          PROVE  LockInv'
      BY <2>5 DEF Crash, TypeOK, Steps, LinkerHoldsLock
    <2> QED
      BY <1>10, <2>1, <2>2, <2>3, <2>4, <2>5 DEF Environment
  <1>11. CASE UNCHANGED vars
    BY <1>11 DEF vars, TypeOK, LinkerHoldsLock, Dev
  <1> QED
    BY <1>1, <1>2, <1>3, <1>4, <1>5, <1>6, <1>7, <1>8, <1>9, <1>10, <1>11
       DEF Next, Provision

\* At first no device is open.
LEMMA LockInvInit == Init => LockInv
  BY DEF Init, LockInv, TypeOK, LinkerHoldsLock, Steps

\* Every variable keeps its type: a step never leaves a reconciler busy without
\* a path, or idle with one.
THEOREM TypeCorrect == Spec => []TypeOK
  <1>1. LockInv => TypeOK
    BY DEF LockInv
  <1> QED
    BY <1>1, LockInvInit, LockInvStep, PTL DEF Spec

-----------------------------------------------------------------------------
(***************************************************************************)
(* One claim per device.  AtMostOneClaim is not inductive: a reconciler    *)
(* at "link" must also know that nothing resolves to its device, which     *)
(* stays true because only a holder of the device can add a symlink.       *)
(***************************************************************************)
LinkerSeesFree ==
    \A w \in Workers : pc[w] = "link" => \A p \in links : Dev(p) # Dev(path[w])

ClaimInv == LockInv /\ LinkerSeesFree /\ AtMostOneClaim

\* A step that adds no symlink and sends no reconciler to "link" keeps claims
\* exclusive.
LEMMA QuietStep ==
    ASSUME ClaimInv,
           links' \subseteq links,
           \A w \in Workers : pc'[w] = "link" => pc[w] = "link" /\ path'[w] = path[w]
    PROVE  LinkerSeesFree' /\ AtMostOneClaim'
  <1>1. LinkerSeesFree'
    BY DEF ClaimInv, LinkerSeesFree, Dev
  <1>2. AtMostOneClaim'
    BY DEF ClaimInv, AtMostOneClaim, Dev
  <1> QED
    BY <1>1, <1>2

\* The reconcile loop never enters "link" except through `find'.
LEMMA OtherStepsQuiet ==
    ASSUME TypeOK, [Next]_vars,
           \A w \in Workers : ~FindSymlinks(w) /\ ~CreateSymlink(w)
    PROVE  /\ links' \subseteq links
           /\ \A v \in Workers : pc'[v] = "link" => pc[v] = "link" /\ path'[v] = path[v]
  <1> DEFINE Quiet == /\ links' \subseteq links
                      /\ \A v \in Workers : pc'[v] = "link" => pc[v] = "link" /\ path'[v] = path[v]
  <1>1. ASSUME NEW w \in Workers, Provision(w)
        PROVE  Quiet
    <2>1. ASSUME NEW c \in Classes, NEW n \in Names, ConsiderDevice(w, c, n)
          PROVE  Quiet
      BY <2>1 DEF ConsiderDevice, Begin, TypeOK
    <2>2. CASE LockDevice(w)
      BY <2>2 DEF LockDevice, Goto, TypeOK
    <2>3. CASE ReadSymlink(w)
      BY <2>3 DEF ReadSymlink, Goto, Finish, Begin, TypeOK
    <2>4. CASE CreateOrUpdatePV(w)
      BY <2>4 DEF CreateOrUpdatePV, Goto, TypeOK
    <2>5. CASE ApplyStatus(w)
      BY <2>5 DEF ApplyStatus, Finish, Begin, TypeOK
    <2>6. CASE StepFails(w)
      BY <2>6 DEF StepFails, Finish, Begin, TypeOK
    <2> QED
      BY <1>1, <2>1, <2>2, <2>3, <2>4, <2>5, <2>6 DEF Provision
  <1>2. ASSUME NEW w \in Workers, Cleanup(w)
        PROVE  Quiet
    BY <1>2 DEF Cleanup, CleanupSymlink, RemoveSymlinkFinalizer, Finish, Begin, TypeOK
  <1>3. CASE Environment
    BY <1>3 DEF Environment, DeletePV, DeleteOwner, FinalizeOwner, Mount, Unmount, Crash, TypeOK
  <1>4. CASE UNCHANGED vars
    BY <1>4 DEF vars
  <1> QED
    BY <1>1, <1>2, <1>3, <1>4 DEF Next

\* A reconciler that finds no symlink creates the only one.
LEMMA ClaimInvStep ==
    ASSUME FindErrors = {FALSE}, ClaimInv, [Next]_vars
    PROVE  ClaimInv'
  <1>1. LockInv'
    BY LockInvStep DEF ClaimInv
  <1>2. ASSUME NEW w \in Workers, FindSymlinks(w)
        PROVE  LinkerSeesFree' /\ AtMostOneClaim'
    <2>1. UNCHANGED links
      BY <1>2 DEF FindSymlinks
    <2>2. CASE Goto(w, "link") /\ GetMatchingSymlinksInDirs(Dev(path[w])) = {}
      <3>1. \A p \in links : Dev(p) # Dev(path[w])
        BY <2>2 DEF GetMatchingSymlinksInDirs
      <3>2. \A v \in Workers : v # w => pc'[v] = pc[v]
        BY <2>2 DEF Goto, ClaimInv, LockInv, TypeOK
      <3>3. LinkerSeesFree'
        BY <2>1, <2>2, <3>1, <3>2 DEF ClaimInv, LinkerSeesFree, Goto, Dev
      <3>4. AtMostOneClaim'
        BY <2>1 DEF ClaimInv, AtMostOneClaim, Dev
      <3> QED
        BY <3>3, <3>4
    <2>3. CASE Goto(w, "readlink") \/ Finish(w)
      <3>1. \A v \in Workers : pc'[v] = "link" => pc[v] = "link" /\ path'[v] = path[v]
        BY <2>3 DEF Goto, Finish, Begin, ClaimInv, LockInv, TypeOK
      <3> QED
        BY <2>1, <3>1, QuietStep
    <2> QED
      BY <1>2, <2>2, <2>3 DEF FindSymlinks
  <1>3. ASSUME NEW w \in Workers, CreateSymlink(w)
        PROVE  LinkerSeesFree' /\ AtMostOneClaim'
    <2> USE DEF ClaimInv, LockInv
    <2>1. /\ pc[w] = "link"
          /\ links' = links \cup {path[w]}
          /\ Goto(w, "readlink")
      BY <1>3 DEF CreateSymlink
    <2>2. \A p \in links : Dev(p) # Dev(path[w])
      BY <2>1 DEF LinkerSeesFree
    <2>3. AtMostOneClaim'
      BY <2>1, <2>2 DEF AtMostOneClaim, Dev
    <2>4. \A v \in Workers : pc'[v] = "link" => v # w /\ pc[v] = "link" /\ path'[v] = path[v]
      BY <2>1 DEF Goto, TypeOK
    <2>5. \A v \in Workers : v # w /\ pc[v] = "link" => Dev(path[v]) # Dev(path[w])
      BY <2>1 DEF LinkerHoldsLock
    <2>6. LinkerSeesFree'
      BY <2>1, <2>4, <2>5 DEF LinkerSeesFree, Dev
    <2> QED
      BY <2>3, <2>6
  <1>4. ASSUME \A w \in Workers : ~FindSymlinks(w) /\ ~CreateSymlink(w)
        PROVE  LinkerSeesFree' /\ AtMostOneClaim'
    BY <1>4, OtherStepsQuiet, QuietStep DEF ClaimInv, LockInv
  <1> QED
    BY <1>1, <1>2, <1>3, <1>4 DEF ClaimInv

\* Unless `find' itself fails, no two symlinks resolve to one device: for every
\* number of reconcilers, devices and classes, at every crash and failure.
THEOREM OneClaimPerDevice ==
    ASSUME FindErrors = {FALSE}
    PROVE  Spec => []AtMostOneClaim
  <1>1. Init => ClaimInv
    BY LockInvInit DEF Init, ClaimInv, LinkerSeesFree, AtMostOneClaim
  <1>2. ClaimInv /\ [Next]_vars => ClaimInv'
    BY ClaimInvStep
  <1>3. ClaimInv => AtMostOneClaim
    BY DEF ClaimInv
  <1> QED
    BY <1>1, <1>2, <1>3, PTL DEF Spec

\* A mounted device is never claimed, whatever `find' answers: the reconciler
\* that creates the symlink has the device open exclusively at that moment.
THEOREM MountedNeverClaimed == Spec => NeverClaimMounted
  <1> DEFINE Unclaimed == \A p \in links' \ links : holder[Dev(p)] # Kubelet
  <1>1. ASSUME LockInv, [Next]_vars
        PROVE  [Unclaimed]_vars
    <2>1. ASSUME NEW w \in Workers, CreateSymlink(w)
          PROVE  Unclaimed
      BY <1>1, <2>1, ClaimAssumption DEF CreateSymlink, LockInv, LinkerHoldsLock
    <2>2. ASSUME NEW w \in Workers, FindSymlinks(w)
          PROVE  Unclaimed
      BY <2>2 DEF FindSymlinks
    <2>3. ASSUME \A w \in Workers : ~FindSymlinks(w) /\ ~CreateSymlink(w)
          PROVE  Unclaimed
      BY <1>1, <2>3, OtherStepsQuiet DEF LockInv
    <2> QED
      BY <2>1, <2>2, <2>3
  <1> QED
    BY <1>1, LockInvInit, LockInvStep, PTL DEF Spec, NeverClaimMounted

-----------------------------------------------------------------------------
(***************************************************************************)
(* A live PV keeps its symlink, provided no two reconcilers share a        *)
(* storage class.  The strengthening says whose class a path or a PV is    *)
(* in, so that only the reconciler itself could remove the symlink it is   *)
(* about to publish.                                                       *)
(***************************************************************************)
DisjointClasses ==
    \A v, w \in Workers : v # w => ClassesOf[v] \cap ClassesOf[w] = {}

OwnPaths ==
    \A w \in Workers : pc[w] # "idle" => path[w][1] \in ClassesOf[w]

OwnPVs ==
    \A p \in Paths, w \in Workers : pvOwner[p] = w => p[1] \in ClassesOf[w]

PublisherHasSymlink ==
    \A w \in Workers : pc[w] = "pv" => path[w] \in links

LiveInv == LockInv /\ OwnPaths /\ OwnPVs /\ PublisherHasSymlink /\ LivePVHasSymlink

\* A live volume keeps its symlink, if classes share no device.
LEMMA LiveInvStep ==
    ASSUME DisjointClasses, LiveInv, [Next]_vars
    PROVE  LiveInv'
  <1> USE DEF LiveInv, LockInv
  <1> DEFINE Rest == OwnPaths /\ OwnPVs /\ PublisherHasSymlink /\ LivePVHasSymlink
  <1>0. LockInv'
    BY LockInvStep
  <1>1. ASSUME NEW w \in Workers, NEW c \in Classes, NEW n \in Names,
               ConsiderDevice(w, c, n)
        PROVE  Rest'
    <2>1. UNCHANGED <<links, pvOwner, dying>>
      BY <1>1 DEF ConsiderDevice
    <2>2. PICK p \in Paths, step \in {"readlink", "lock"} :
             Begin(w, step, p) /\ p[1] = c
      BY <1>1 DEF ConsiderDevice, GetSymlinkedForCurrentSC, TypeOK, Paths
    <2>3. OwnPaths'
      BY <1>1, <2>2 DEF ConsiderDevice, Begin, TypeOK, OwnPaths
    <2>4. PublisherHasSymlink'
      BY <2>1, <2>2 DEF Begin, TypeOK, PublisherHasSymlink
    <2> QED
      BY <2>1, <2>3, <2>4 DEF OwnPVs, LivePVHasSymlink, Live
  <1>2. ASSUME NEW w \in Workers, LockDevice(w) \/ FindSymlinks(w) \/ ReadSymlink(w)
                                  \/ ApplyStatus(w) \/ StepFails(w)
        PROVE  Rest'
    <2>1. UNCHANGED <<links, pvOwner, dying>>
      BY <1>2 DEF LockDevice, FindSymlinks, ReadSymlink, ApplyStatus, StepFails
    <2>2. pc[w] # "idle"
      BY <1>2 DEF LockDevice, FindSymlinks, ReadSymlink, ApplyStatus, StepFails
    <2>3. \/ Finish(w)
          \/ \E step \in Steps : Goto(w, step) /\ (step = "pv" => path[w] \in links)
      BY <1>2 DEF LockDevice, FindSymlinks, ReadSymlink, ApplyStatus, StepFails, Steps
    <2>4. OwnPaths' /\ PublisherHasSymlink'
      BY <2>1, <2>2, <2>3 DEF Goto, Finish, Begin, TypeOK, OwnPaths, PublisherHasSymlink
    <2> QED
      BY <2>1, <2>4 DEF OwnPVs, LivePVHasSymlink, Live
  <1>3. ASSUME NEW w \in Workers, CreateSymlink(w)
        PROVE  Rest'
    BY <1>3 DEF CreateSymlink, Goto, TypeOK, OwnPaths, OwnPVs, PublisherHasSymlink,
                LivePVHasSymlink, Live
  <1>4. ASSUME NEW w \in Workers, CreateOrUpdatePV(w)
        PROVE  Rest'
    <2>1. path[w] \in Paths /\ path[w] \in links /\ path[w][1] \in ClassesOf[w]
      BY <1>4, BusyPath DEF CreateOrUpdatePV, PublisherHasSymlink, OwnPaths
    <2>2. OwnPaths' /\ PublisherHasSymlink'
      BY <1>4 DEF CreateOrUpdatePV, Goto, TypeOK, OwnPaths, PublisherHasSymlink
    <2>3. \A p \in Paths : pvOwner'[p] = IF p = path[w] /\ pvOwner[p] = NoOne
                                         THEN w ELSE pvOwner[p]
      BY <1>4, <2>1 DEF CreateOrUpdatePV, TypeOK
    <2>4. OwnPVs'
      BY <2>1, <2>3 DEF OwnPVs
    <2>5. LivePVHasSymlink'
      BY <1>4, <2>1, <2>3 DEF CreateOrUpdatePV, LivePVHasSymlink, Live
    <2> QED
      BY <2>2, <2>4, <2>5
  <1>5. ASSUME NEW w \in Workers, NEW p \in Paths, CleanupSymlink(w, p)
        PROVE  Rest'
    <2>1. pc[w] = "idle" /\ pvOwner[p] = w /\ p \in dying /\ p[1] \in ClassesOf[w]
      BY <1>5 DEF CleanupSymlink, OwnPVs
    <2>2. UNCHANGED <<pvOwner, dying>> /\ links \ {p} \subseteq links'
      BY <1>5 DEF CleanupSymlink
    <2>3. OwnPaths'
      BY <1>5, <2>1 DEF CleanupSymlink, Begin, TypeOK, OwnPaths
    <2>4. \A v \in Workers : pc[v] = "pv" => path[v] # p
      BY <2>1 DEF DisjointClasses, OwnPaths
    <2>5. PublisherHasSymlink'
      BY <1>5, <2>2, <2>4 DEF CleanupSymlink, Begin, TypeOK, PublisherHasSymlink
    <2>6. LivePVHasSymlink'
      BY <2>1, <2>2 DEF LivePVHasSymlink, Live
    <2> QED
      BY <2>2, <2>3, <2>5, <2>6 DEF OwnPVs
  <1>6. ASSUME NEW w \in Workers, RemoveSymlinkFinalizer(w)
        PROVE  Rest'
    <2>1. path[w] \in Paths
      BY <1>6, BusyPath DEF RemoveSymlinkFinalizer
    <2>2. OwnPaths' /\ PublisherHasSymlink'
      BY <1>6 DEF RemoveSymlinkFinalizer, Finish, Begin, TypeOK, OwnPaths, PublisherHasSymlink
    <2>3. OwnPVs' /\ LivePVHasSymlink'
      BY <1>6, <2>1, ClaimAssumption
         DEF RemoveSymlinkFinalizer, TypeOK, OwnPVs, LivePVHasSymlink, Live
    <2> QED
      BY <2>2, <2>3
  <1>7. ASSUME Environment
        PROVE  Rest'
    <2>1. UNCHANGED <<links, pvOwner>> /\ dying \subseteq dying'
      BY <1>7 DEF Environment, DeletePV, DeleteOwner, FinalizeOwner, Mount, Unmount, Crash
    <2>2. UNCHANGED <<pc, path>> \/ Crash
      BY <1>7 DEF Environment, DeletePV, DeleteOwner, FinalizeOwner, Mount, Unmount
    <2>3. OwnPaths' /\ PublisherHasSymlink'
      BY <2>1, <2>2 DEF Crash, OwnPaths, PublisherHasSymlink
    <2> QED
      BY <2>1, <2>3 DEF OwnPVs, LivePVHasSymlink, Live
  <1>8. CASE UNCHANGED vars
    <2>1. OwnPaths' /\ OwnPVs'
      BY <1>8 DEF vars, OwnPaths, OwnPVs
    <2>2. PublisherHasSymlink' /\ LivePVHasSymlink'
      BY <1>8 DEF vars, PublisherHasSymlink, LivePVHasSymlink, Live
    <2> QED
      BY <1>0, <2>1, <2>2
  <1> QED
    BY <1>0, <1>1, <1>2, <1>3, <1>4, <1>5, <1>6, <1>7, <1>8
       DEF Next, Provision, Cleanup

\* With storage classes of their own, the reconcilers never leave a PV that
\* nobody deleted without its symlink, even between two steps.
THEOREM LivePVKeepsSymlink ==
    ASSUME DisjointClasses
    PROVE  Spec => []LivePVHasSymlink
  <1>1. Init => LiveInv
    BY LockInvInit, ClaimAssumption
       DEF Init, LiveInv, OwnPaths, OwnPVs, PublisherHasSymlink, LivePVHasSymlink, Live
  <1>2. LiveInv /\ [Next]_vars => LiveInv'
    BY LiveInvStep
  <1>3. LiveInv => LivePVHasSymlink
    BY DEF LiveInv
  <1> QED
    BY <1>1, <1>2, <1>3, PTL DEF Spec

-----------------------------------------------------------------------------
(***************************************************************************)
(* DeviceClaim implements ExclusiveVolumes.  Only four steps are visible   *)
(* there: CreateSymlink claims, CreateOrUpdatePV publishes, DeletePV       *)
(* retires, CleanupSymlink releases.  All others leave claims and live     *)
(* PVs as they are.                                                        *)
(***************************************************************************)
Claims == [d \in Devices |-> GetMatchingSymlinksInDirs(d)]

\* Every step is a step of ExclusiveVolumes, or changes nothing that it sees.
LEMMA VolumesStep ==
    ASSUME ClaimInv, LiveInv, [Next]_vars
    PROVE  [Volumes!Next]_<<Claims, Live>>
  <1> USE ClaimAssumption DEF ClaimInv, LiveInv, LockInv
  <1> DEFINE T == [p \in Paths |-> Dev(p)]
  <1>0. \A p \in Paths : T[p] = Dev(p) /\ Dev(p) \in Devices
    BY DEF Dev, Paths
  <1>1. ASSUME NEW w \in Workers, CreateSymlink(w)
        PROVE  Volumes!Claim(path[w]) /\ path[w] \in Paths
    <2>1. /\ pc[w] = "link" /\ path[w] \in Paths
          /\ links' = links \cup {path[w]}
          /\ UNCHANGED <<pvOwner, dying>>
      BY <1>1, BusyPath DEF CreateSymlink
    <2>2. Claims[T[path[w]]] = {}
      BY <1>0, <2>1 DEF Claims, GetMatchingSymlinksInDirs, LinkerSeesFree
    <2>3. Claims' = [Claims EXCEPT ![T[path[w]]] = {path[w]}]
      <3>1. ASSUME NEW d \in Devices
            PROVE  {p \in links' : Dev(p) = d} =
                   IF d = Dev(path[w]) THEN {path[w]} ELSE {p \in links : Dev(p) = d}
        BY <2>1 DEF LinkerSeesFree
      <3> QED
        BY <1>0, <2>1, <3>1, ZenonT(60) DEF Claims, GetMatchingSymlinksInDirs, Dev
    <2>4. UNCHANGED Live
      BY <2>1 DEF Live
    <2> QED
      BY <2>1, <2>2, <2>3, <2>4 DEF Volumes!Claim, Claims
  <1>2. ASSUME NEW w \in Workers, CreateOrUpdatePV(w)
        PROVE  \/ UNCHANGED <<Claims, Live>>
               \/ Volumes!Publish(path[w]) /\ path[w] \in Paths
    <2>1. path[w] \in Paths /\ path[w] \in links
      BY <1>2, BusyPath DEF CreateOrUpdatePV, PublisherHasSymlink
    <2>2. UNCHANGED Claims
      BY <1>2 DEF CreateOrUpdatePV, Claims, GetMatchingSymlinksInDirs, Dev
    <2>3. Claims[T[path[w]]] = {path[w]}
      BY <1>0, <2>1 DEF Claims, GetMatchingSymlinksInDirs, AtMostOneClaim
    <2>4. UNCHANGED Live \/ Live' = Live \cup {path[w]}
      BY <1>2, <2>1 DEF CreateOrUpdatePV, Live, TypeOK
    <2> QED
      BY <2>1, <2>2, <2>3, <2>4 DEF Volumes!Publish, Claims
  <1>3. ASSUME NEW p \in Paths, DeletePV(p)
        PROVE  Volumes!Retire(p)
    <2>1. UNCHANGED Claims
      BY <1>3 DEF DeletePV, Claims, GetMatchingSymlinksInDirs, Dev
    <2>2. Live' = Live \ {p}
      BY <1>3 DEF DeletePV, Live
    <2> QED
      BY <2>1, <2>2 DEF Volumes!Retire, Claims
  <1>4. ASSUME NEW w \in Workers, NEW p \in Paths, CleanupSymlink(w, p)
        PROVE  UNCHANGED <<Claims, Live>> \/ Volumes!Release(p)
    <2>1. UNCHANGED Live /\ p \notin Live
      BY <1>4 DEF CleanupSymlink, Live
    <2>2. CASE links' = links
      BY <2>1, <2>2 DEF Claims, GetMatchingSymlinksInDirs, Dev
    <2>3. CASE p \in links /\ links' = links \ {p}
      <3>1. Claims[T[p]] = {p}
        BY <1>0, <2>3 DEF Claims, GetMatchingSymlinksInDirs, AtMostOneClaim
      <3>2. ASSUME NEW d \in Devices
            PROVE  {q \in links' : Dev(q) = d} =
                   IF d = Dev(p) THEN {} ELSE {q \in links : Dev(q) = d}
        BY <2>3 DEF AtMostOneClaim
      <3>3. Claims' = [Claims EXCEPT ![T[p]] = {}]
        BY <1>0, <3>2, ZenonT(60) DEF Claims, GetMatchingSymlinksInDirs, Dev
      <3> QED
        BY <2>1, <3>1, <3>3 DEF Volumes!Release, Claims
    <2> QED
      BY <1>4, <2>2, <2>3 DEF CleanupSymlink
  <1>5. ASSUME NEW w \in Workers, RemoveSymlinkFinalizer(w)
        PROVE  UNCHANGED <<Claims, Live>> \/ (path[w] \in Paths /\ Volumes!Retire(path[w]))
    <2>1. path[w] \in Paths
      BY <1>5, BusyPath DEF RemoveSymlinkFinalizer
    <2>2. UNCHANGED Claims
      BY <1>5 DEF RemoveSymlinkFinalizer, Claims, GetMatchingSymlinksInDirs, Dev
    <2>3. Live' = Live \ {path[w]}
      BY <1>5, <2>1 DEF RemoveSymlinkFinalizer, Live, TypeOK
    <2> QED
      BY <2>1, <2>2, <2>3 DEF Volumes!Retire, Claims
  <1>6. ASSUME UNCHANGED <<links, pvOwner, dying>>
        PROVE  UNCHANGED <<Claims, Live>>
    BY <1>6 DEF Claims, GetMatchingSymlinksInDirs, Dev, Live
  <1>7. \/ \E w \in Workers : CreateSymlink(w) \/ CreateOrUpdatePV(w) \/ RemoveSymlinkFinalizer(w)
        \/ \E p \in Paths : DeletePV(p)
        \/ \E w \in Workers, p \in Paths : CleanupSymlink(w, p)
        \/ UNCHANGED <<links, pvOwner, dying>>
    <2>1. ASSUME NEW w \in Workers, Provision(w)
          PROVE  CreateSymlink(w) \/ CreateOrUpdatePV(w) \/ UNCHANGED <<links, pvOwner, dying>>
      BY <2>1, ZenonT(60) DEF Provision, ConsiderDevice, LockDevice, FindSymlinks, ReadSymlink,
                  ApplyStatus, StepFails
    <2>2. CASE Environment
      BY <2>2 DEF Environment, DeleteOwner, FinalizeOwner, Mount, Unmount, Crash
    <2>3. CASE UNCHANGED vars
      BY <2>3 DEF vars
    <2> QED
      BY <2>1, <2>2, <2>3 DEF Next, Cleanup
  <1> QED
    BY <1>1, <1>2, <1>3, <1>4, <1>5, <1>6, <1>7 DEF Volumes!Next, Claims

\* The diskmaker's locking, failing, crashing reconcilers implement exclusive
\* volumes, if `find' does not fail and they share no storage class.
THEOREM Refinement ==
    ASSUME FindErrors = {FALSE}, DisjointClasses
    PROVE  Spec => ImplementsVolumes
  <1>1. Init => ClaimInv /\ LiveInv
    BY LockInvInit, ClaimAssumption
       DEF Init, ClaimInv, LinkerSeesFree, AtMostOneClaim, LiveInv, OwnPaths, OwnPVs,
           PublisherHasSymlink, LivePVHasSymlink, Live
  <1>2. ClaimInv /\ LiveInv /\ [Next]_vars => (ClaimInv /\ LiveInv)'
    BY ClaimInvStep, LiveInvStep
  <1>3. Init => Volumes!Init
    BY DEF Init, Volumes!Init, GetMatchingSymlinksInDirs, Live
  <1>4. ClaimInv /\ LiveInv /\ [Next]_vars => [Volumes!Next]_<<Claims, Live>>
    BY VolumesStep
  <1> QED
    BY <1>1, <1>2, <1>3, <1>4, PTL DEF Spec, ImplementsVolumes, Volumes!Spec, Claims

-----------------------------------------------------------------------------
(* The capacity of a volume.                                               *)

(* Rounding down to whole units loses less than one unit (the division of    *)
(* RoundDownCapacityPretty).                                                 *)
LEMMA DivideDown ==
    ASSUME NEW c \in Nat, NEW u \in Nat \ {0}
    PROVE  /\ Units(c, u) \in Nat
           /\ Units(c, u) * u <= c
           /\ c < Units(c, u) * u + u
  BY SMTT(30) DEF Units

(* Less than one unit is less than a tenth once there are ten units.         *)
LEMMA UnitIsTenth ==
    ASSUME NEW c \in Nat, NEW u \in Nat \ {0}, NEW q \in Nat,
           q >= 10, q * u <= c, c < q * u + u
    PROVE  10 * (c - q * u) < c
  <1>1. q * u >= 10 * u
    BY SMTT(30)
  <1>2. q * u \in Nat
    BY SMT
  <1> QED BY <1>1, <1>2, SMT

(* The capacity that RoundDownCapacityPretty returns for any device.         *)
LEMMA RoundingLoss ==
    ASSUME NEW c \in Nat
    PROVE  /\ RoundDownCapacityPretty(c) <= c
           /\ c > 0 => 10 * (c - RoundDownCapacityPretty(c)) < c
  <1>1. CASE Units(c, GiB) >= 10
    <2>1. RoundDownCapacityPretty(c) = Units(c, GiB) * GiB
      BY <1>1 DEF RoundDownCapacityPretty
    <2> QED BY <1>1, <2>1, DivideDown, UnitIsTenth, UnitAssumption
  <1>2. CASE ~(Units(c, GiB) >= 10) /\ Units(c, MiB) >= 10
    <2>1. RoundDownCapacityPretty(c) = Units(c, MiB) * MiB
      BY <1>2 DEF RoundDownCapacityPretty
    <2> QED BY <1>2, <2>1, DivideDown, UnitIsTenth, UnitAssumption
  <1>3. CASE ~(Units(c, GiB) >= 10) /\ ~(Units(c, MiB) >= 10)
    <2>1. RoundDownCapacityPretty(c) = c
      BY <1>3 DEF RoundDownCapacityPretty
    <2> QED BY <2>1
  <1> QED BY <1>1, <1>2, <1>3

(* The volume that is created for a device (RoundDownCapacityPretty) is      *)
(* never larger than the device and loses less than a tenth of it.           *)
THEOREM CapacityKept == CapacitySpec => []LosesLessThanTenth
  <1>1. CapacityInit => capacityBytes \in Nat
    BY DEF CapacityInit
  <1>2. capacityBytes \in Nat /\ [Grow]_capacityBytes => (capacityBytes \in Nat)'
    BY DEF Grow
  <1>3. capacityBytes \in Nat => LosesLessThanTenth
    BY RoundingLoss DEF LosesLessThanTenth
  <1> QED BY <1>1, <1>2, <1>3, PTL DEF CapacitySpec
=============================================================================

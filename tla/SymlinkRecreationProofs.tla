---------------------- MODULE SymlinkRecreationProofs ----------------------
(***************************************************************************)
(* Proofs about SymlinkRecreation for any number of devices and by-id      *)
(* links and any points at which the diskmaker may be killed or a call may *)
(* fail.                                                                   *)
(***************************************************************************)
EXTENDS SymlinkRecreation, TLAPS

\* What a leaf is tried with, if it does not say.
USE ZenonT(5), SMTT(30), Z3T(30), ZenonT(30)

(***************************************************************************)
(* The links that an LVDL lists belong to the device of its path, wherever *)
(* a copy of the LVDL is kept.                                             *)
(***************************************************************************)
ListsOwn(p, l) == l # NoLVDL => \A i \in l.valid : OwnerOf[i] = OwnerOf[p[1]]
Lists == \A p \in Paths : ListsOwn(p, lvdl[p]) /\ ListsOwn(p, cache[p])

(***************************************************************************)
(* The reconciler works for the device its path was created for, and swaps *)
(* in links of that device only.                                           *)
(***************************************************************************)
JobInv ==
    pc # "idle" =>
        /\ OwnerOf[job.path[1]] = job.dev
        /\ pc \in {"tmp", "rename"} => job.target \in Ids /\ OwnerOf[job.target] = job.dev
        /\ pc \in {"check", "tmp", "rename", "status", "update"} => job.seen # NoLVDL

DeviceInv ==
    /\ TypeOK
    /\ SymlinkKeepsDevice
    /\ Lists
    /\ JobInv

(***************************************************************************)
(* What keeps a device from getting a second symlink after its links have  *)
(* changed: one of its symlinks resolves, or an LVDL lists a link that it  *)
(* has now, and the cache lists what the LVDLs list.                       *)
(***************************************************************************)
Listed(d) ==
    \E q \in Paths : lvdl[q] # NoLVDL /\ \E i \in lvdl[q].valid \cap present : OwnerOf[i] = d

Found ==
    \A p \in Paths : link[p] # NoId => link[p] \in present \/ Listed(OwnerOf[p[1]])

CacheLists ==
    \A p \in Paths :
        IF cache[p] = NoLVDL THEN lvdl[p] = NoLVDL \/ lvdl[p].valid = {}
        ELSE lvdl[p] # NoLVDL /\ lvdl[p].valid = cache[p].valid

(***************************************************************************)
(* A .tmp exists only between its creation and its renaming; whatever has  *)
(* a PV or an LVDL, or is worked on, is no .tmp and has a symlink.         *)
(***************************************************************************)
TmpInv ==
    /\ \A p \in Paths : p[2] /\ link[p] # NoId => pc = "rename" /\ p = Tmp(job.path)
    /\ \A p \in pvs : ~p[2] /\ link[p] # NoId
    /\ \A p \in Paths : lvdl[p] # NoLVDL => p \in pvs
    /\ pc # "idle" => ~job.path[2] /\ link[job.path] # NoId

OneSymlink ==
    \A p, q \in Paths :
        /\ ~p[2] /\ ~q[2] /\ link[p] # NoId /\ link[q] # NoId
        /\ OwnerOf[p[1]] = OwnerOf[q[1]]
        => p = q

SwapFound ==
    pc \in {"tmp", "rename"} => job.target \in present \/ Listed(job.dev)

OneInv ==
    /\ DeviceInv
    /\ TmpInv
    /\ CacheLists
    /\ Found
    /\ SwapFound
    /\ OneSymlink

-----------------------------------------------------------------------------
(* The operators of the model.                                             *)

\* Of some by-id links there is a best one.  This is so because ranks are natural
\* numbers; see LEMMA BestOfRanks at the end.
HaveBest == \A S \in SUBSET Ids : S # {} => \E i \in S : \A j \in S : Rank[i] <= Rank[j]

\* GetPathByID returns one of the device's links if it has any.
LEMMA PathByIDLemma ==
    ASSUME HaveBest, TypeOK, NEW d, PathByID(d) # NoId
    PROVE  PathByID(d) \in Ids /\ PathByID(d) \in present /\ OwnerOf[PathByID(d)] = d
  <1>1. ValidIds(d) # {} /\ ValidIds(d) \subseteq Ids
    BY DEF PathByID, Best, ValidIds, TypeOK
  <1>2. \E i \in ValidIds(d) : \A j \in ValidIds(d) : Rank[i] <= Rank[j]
    BY <1>1 DEF HaveBest
  <1>3. PathByID(d) \in ValidIds(d)
    BY <1>1, <1>2 DEF PathByID, Best
  <1> QED
    BY <1>1, <1>3 DEF ValidIds

\* A status update writes one LVDL, to the API server and to the cache, or
\* nothing.
Written(p, new) ==
    \/ UNCHANGED <<lvdl, cache>>
    \/ /\ lvdl[p] # NoLVDL
       /\ lvdl' = [lvdl EXCEPT ![p] = new]
       /\ cache' = [cache EXCEPT ![p] = new]

\* A status update writes the new object or nothing.
LEMMA WrittenLemma ==
    ASSUME NEW p, NEW old, NEW new, old # NoLVDL,
           WriteStatus(p, old, new) \/ WriteChangedStatus(p, old, new)
    PROVE  Written(p, new)
  BY DEF Written, WriteStatus, WriteChangedStatus, Refused

-----------------------------------------------------------------------------
(* Symlinks keep their device.                                             *)

\* A status update keeps types and lists.
LEMMA WriteLists ==
    ASSUME TypeOK, Lists, NEW p \in Paths, NEW new \in LVDLs,
           \A i \in new.valid : OwnerOf[i] = OwnerOf[p[1]],
           Written(p, new)
    PROVE  /\ lvdl' \in [Paths -> LVDLs \cup {NoLVDL}]
           /\ cache' \in [Paths -> LVDLs \cup {NoLVDL}]
           /\ Lists'
  BY DEF TypeOK, Lists, ListsOwn, Written

\* updateStatus of a failed recreation writes a status of the device at hand
\* and ends the handling or goes on to the PV.
LEMMA ReportLemma ==
    ASSUME DeviceInv, pc \in {"check", "tmp", "rename"}, ReportFailure
    PROVE  /\ lvdl' \in [Paths -> LVDLs \cup {NoLVDL}]
           /\ cache' \in [Paths -> LVDLs \cup {NoLVDL}]
           /\ Lists'
           /\ Finish \/ (pc' = "pv" /\ job' = job)
           /\ \E new \in LVDLs : new.valid = ValidIds(job.dev) /\ Written(job.path, new)
  <1> USE DEF DeviceInv
  <1>1. job \in Jobs /\ job.seen # NoLVDL /\ OwnerOf[job.path[1]] = job.dev
    BY DEF TypeOK, JobInv
  <1>2. job.seen \in LVDLs /\ job.path \in Paths
    BY <1>1 DEF Jobs
  <1>3. job.seen.current \in Ids \cup {NoId}
    BY <1>2 DEF LVDLs
  <1> DEFINE new == [SetStatus(job.seen, job.dev, job.seen.current) EXCEPT !.failed = TRUE]
  <1>4. new \in LVDLs /\ new.valid = ValidIds(job.dev)
    BY <1>2 DEF SetStatus, LVDLs, ValidIds, TypeOK
  <1>5. Written(job.path, new)
    BY <1>1, WrittenLemma DEF ReportFailure
  <1>6. \A i \in new.valid : OwnerOf[i] = OwnerOf[job.path[1]]
    BY <1>1, <1>4 DEF ValidIds
  <1>7. Finish \/ (pc' = "pv" /\ job' = job)
    BY DEF ReportFailure, ThenPV, Goto
  <1> HIDE DEF new
  <1> QED
    BY <1>2, <1>4, <1>5, <1>6, <1>7, WriteLists

\* At first every symlink leads to its device.
LEMMA DeviceInvInit == Init => DeviceInv
  BY RecreationAssumption
     DEF Init, DeviceInv, TypeOK, SymlinkKeepsDevice, Lists, ListsOwn, JobInv, Steps

\* What every step keeps: the reconciler takes a path only for its device, and
\* whatever it writes to the path is a link of that device.
LEMMA DeviceInvStep ==
    ASSUME HaveBest
    PROVE  DeviceInv /\ [Next]_vars => DeviceInv'
  <1> SUFFICES ASSUME DeviceInv, [Next]_vars
               PROVE  DeviceInv'
    OBVIOUS
  <1> USE RecreationAssumption DEF DeviceInv
  <1>0. pc # "idle" => /\ job \in Jobs
                       /\ job.path \in Paths /\ job.dev \in Devices
                       /\ Tmp(job.path) \in Paths /\ Tmp(job.path)[1] = job.path[1]
                       /\ job.path[1] \in Ids
                       /\ OwnerOf[job.path[1]] = job.dev
    BY DEF TypeOK, Jobs, Paths, Tmp, JobInv
  <1>1. ASSUME NEW d \in Devices, NEW inUse \in BOOLEAN, NEW p \in Paths,
               OwnerOf[p[1]] = d, Begin(d, p, inUse)
        PROVE  job' \in Jobs /\ pc' = "find" /\ JobInv'
    BY <1>1 DEF Begin, Jobs, JobInv
  <1>2. ASSUME NEW d \in Devices, NEW inUse \in BOOLEAN, UseExistingSymlink(d, inUse)
        PROVE  DeviceInv'
    <2>1. PICK p \in Paths : link[p] \in present /\ OwnerOf[link[p]] = d /\ Begin(d, p, inUse)
      BY <1>2 DEF UseExistingSymlink, Existing, Matching, Resolves
    <2>2. OwnerOf[p[1]] = d
      BY <2>1 DEF SymlinkKeepsDevice, TypeOK
    <2>3. job' \in Jobs /\ pc' = "find" /\ JobInv'
      BY <1>1, <2>1, <2>2
    <2> QED
      BY <1>2, <2>3 DEF UseExistingSymlink, TypeOK, Steps, SymlinkKeepsDevice, Lists, ListsOwn
  <1>3. ASSUME NEW d \in Devices, CreateSymlink(d)
        PROVE  DeviceInv'
    <2>1. PICK id \in ValidIds(d) :
              /\ link' = [link EXCEPT ![<<id, FALSE>>] = IF @ = NoId THEN id ELSE @]
              /\ Begin(d, <<id, FALSE>>, FALSE)
      BY <1>3 DEF CreateSymlink
    <2>2. id \in Ids /\ OwnerOf[id] = d /\ <<id, FALSE>> \in Paths
      BY DEF ValidIds, TypeOK, Paths
    <2>3. job' \in Jobs /\ pc' = "find" /\ JobInv'
      BY <1>1, <2>1, <2>2
    <2>4. link' \in [Paths -> Ids \cup {NoId}] /\ SymlinkKeepsDevice'
      <3> DEFINE p == <<id, FALSE>>
      <3>1. p \in Paths /\ p[1] = id
        BY <2>2
      <3>2. link' = [link EXCEPT ![p] = IF link[p] = NoId THEN id ELSE link[p]]
        BY <2>1
      <3> HIDE DEF p
      <3> QED
        BY <2>2, <3>1, <3>2 DEF TypeOK, SymlinkKeepsDevice
    <2> QED
      BY <1>3, <2>3, <2>4 DEF CreateSymlink, TypeOK, Steps, Lists, ListsOwn
  <1>4. ASSUME NEW d \in Devices, NEW inUse \in BOOLEAN, RecoverPVSymlinkPath(d, inUse)
        PROVE  DeviceInv'
    <2>1. PICK id \in ValidIds(d), p \in Paths :
              /\ LSOManaged(id, d) = {p}
              /\ \/ /\ WriteChangedStatus(p, cache[p], SetStatus(cache[p], d, cache[p].current))
                    /\ UNCHANGED <<pc, job>>
                 \/ Begin(d, p, inUse) /\ UNCHANGED <<lvdl, cache>>
      BY <1>4 DEF RecoverPVSymlinkPath
    <2>2. cache[p] # NoLVDL /\ \E i \in cache[p].valid : OwnerOf[i] = d
      <3>1. p \in Indexed({id}) \/ p \in Indexed(ValidIds(d))
        BY <2>1 DEF LSOManaged
      <3> QED
        BY <3>1 DEF Indexed, ValidIds
    <2>3. OwnerOf[p[1]] = d
      BY <2>2 DEF Lists, ListsOwn
    <2>4. CASE WriteChangedStatus(p, cache[p], SetStatus(cache[p], d, cache[p].current))
               /\ UNCHANGED <<pc, job>>
      <3> DEFINE new == SetStatus(cache[p], d, cache[p].current)
      <3>0. cache[p] \in LVDLs
        BY <2>2 DEF TypeOK
      <3>1. new \in LVDLs /\ new.valid = ValidIds(d)
        BY <3>0 DEF SetStatus, LVDLs, ValidIds, TypeOK
      <3>2. Written(p, new)
        BY <2>2, <2>4, WrittenLemma
      <3>3. \A i \in new.valid : OwnerOf[i] = OwnerOf[p[1]]
        BY <2>3, <3>1 DEF ValidIds
      <3> HIDE DEF new
      <3>4. /\ lvdl' \in [Paths -> LVDLs \cup {NoLVDL}]
            /\ cache' \in [Paths -> LVDLs \cup {NoLVDL}]
            /\ Lists'
        BY <3>1, <3>2, <3>3, WriteLists
      <3> QED
        BY <1>4, <2>4, <3>4 DEF RecoverPVSymlinkPath, TypeOK, SymlinkKeepsDevice, JobInv
    <2>5. CASE Begin(d, p, inUse) /\ UNCHANGED <<lvdl, cache>>
      <3>1. job' \in Jobs /\ pc' = "find" /\ JobInv'
        BY <1>1, <2>3, <2>5
      <3> QED
        BY <1>4, <2>5, <3>1
           DEF RecoverPVSymlinkPath, TypeOK, Steps, SymlinkKeepsDevice, Lists, ListsOwn
    <2> QED
      BY <2>1, <2>4, <2>5
  <1>5. ASSUME FindLVDL
        PROVE  DeviceInv'
    <2>1. lvdl[job.path] \in LVDLs \cup {NoLVDL} /\ link[job.path] \in Ids \cup {NoId}
      BY <1>0, <1>5 DEF FindLVDL, TypeOK
    <2>2. pc' \in Steps /\ IF pc' = "idle" THEN job' = <<>> ELSE job' \in Jobs
      BY <1>0, <1>5, <2>1 DEF FindLVDL, Finish, Goto, Jobs, Steps
    <2>3. JobInv'
      BY <1>0, <1>5, <2>1 DEF FindLVDL, Finish, Goto, Jobs, JobInv, Mismatch
    <2> QED
      BY <1>5, <2>2, <2>3 DEF FindLVDL, TypeOK, SymlinkKeepsDevice, Lists, ListsOwn
  <1>6. ASSUME CheckTarget
        PROVE  DeviceInv'
    <2>1. CASE ReportFailure
      <3>1. /\ lvdl' \in [Paths -> LVDLs \cup {NoLVDL}]
            /\ cache' \in [Paths -> LVDLs \cup {NoLVDL}]
            /\ Lists'
            /\ Finish \/ (pc' = "pv" /\ job' = job)
        BY <1>6, <2>1, ReportLemma DEF CheckTarget
      <3> QED
        BY <1>0, <1>6, <3>1 DEF CheckTarget, TypeOK, Steps, SymlinkKeepsDevice, JobInv, Finish
    <2>2. CASE /\ PathByID(job.dev) # NoId
               /\ pc' = "tmp"
               /\ job' = [job EXCEPT !.target = PathByID(job.dev)]
               /\ UNCHANGED <<lvdl, cache>>
      <3>1. PathByID(job.dev) \in Ids /\ OwnerOf[PathByID(job.dev)] = job.dev
        BY <2>2, PathByIDLemma
      <3>2. job' \in Jobs /\ JobInv'
        BY <1>0, <1>6, <2>2, <3>1 DEF CheckTarget, Jobs, JobInv
      <3> QED
        BY <1>6, <2>2, <3>2 DEF CheckTarget, TypeOK, Steps, SymlinkKeepsDevice, Lists, ListsOwn
    <2> QED
      BY <1>6, <2>1, <2>2 DEF CheckTarget
  <1>7. ASSUME CreateTmp
        PROVE  DeviceInv'
    <2>1. job.target \in Ids /\ OwnerOf[job.target] = job.dev
      BY <1>7 DEF CreateTmp, JobInv
    <2>2. link' \in [Paths -> Ids \cup {NoId}] /\ SymlinkKeepsDevice'
      BY <1>0, <1>7, <2>1 DEF CreateTmp, TypeOK, SymlinkKeepsDevice
    <2> QED
      BY <1>0, <1>7, <2>2 DEF CreateTmp, Goto, TypeOK, Steps, JobInv, Lists, ListsOwn
  <1>8. ASSUME RenameTmp
        PROVE  DeviceInv'
    <2>1. job.target \in Ids /\ OwnerOf[job.target] = job.dev
      BY <1>8 DEF RenameTmp, JobInv
    <2>2. link' \in [Paths -> Ids \cup {NoId}] /\ SymlinkKeepsDevice'
      BY <1>0, <1>8, <2>1 DEF RenameTmp, TypeOK, SymlinkKeepsDevice
    <2> QED
      BY <1>0, <1>8, <2>2 DEF RenameTmp, Goto, TypeOK, Steps, JobInv, Lists, ListsOwn
  <1>9. ASSUME UpdateStatus
        PROVE  DeviceInv'
    <2> DEFINE new == [SetStatus(job.seen, job.dev, job.target) EXCEPT !.failed = FALSE]
    <2>1. job.seen \in LVDLs /\ job.target \in Ids \cup {NoId}
      BY <1>0, <1>9 DEF UpdateStatus, JobInv, Jobs
    <2>2. new \in LVDLs /\ new.valid = ValidIds(job.dev)
      BY <2>1 DEF SetStatus, LVDLs, ValidIds, TypeOK
    <2>3. Written(job.path, new)
      BY <1>9, WrittenLemma DEF UpdateStatus, JobInv
    <2>4. \A i \in new.valid : OwnerOf[i] = OwnerOf[job.path[1]]
      BY <1>0, <1>9, <2>2 DEF ValidIds, UpdateStatus
    <2>5. Finish \/ (pc' = "pv" /\ job' = job)
      BY <1>9 DEF UpdateStatus, ThenPV, Goto
    <2> HIDE DEF new
    <2>6. /\ lvdl' \in [Paths -> LVDLs \cup {NoLVDL}]
          /\ cache' \in [Paths -> LVDLs \cup {NoLVDL}]
          /\ Lists'
      BY <1>0, <1>9, <2>2, <2>3, <2>4, WriteLists DEF UpdateStatus
    <2> QED
      BY <1>0, <1>9, <2>5, <2>6
         DEF UpdateStatus, TypeOK, Steps, SymlinkKeepsDevice, JobInv, Finish
  <1>10. ASSUME CreateOrUpdatePV
         PROVE  DeviceInv'
    <2>1. pvs' \subseteq Paths
      BY <1>0, <1>10 DEF CreateOrUpdatePV, TypeOK
    <2>0. link[job.path] \in Ids \cup {NoId}
      BY <1>0, <1>10 DEF CreateOrUpdatePV, TypeOK
    <2>2. pc' \in Steps /\ IF pc' = "idle" THEN job' = <<>> ELSE job' \in Jobs
      BY <1>0, <1>10, <2>0 DEF CreateOrUpdatePV, Finish, Jobs, Steps
    <2>3. JobInv'
      BY <1>0, <1>10 DEF CreateOrUpdatePV, Finish, Jobs, JobInv
    <2> QED
      BY <1>10, <2>1, <2>2, <2>3
         DEF CreateOrUpdatePV, TypeOK, SymlinkKeepsDevice, Lists, ListsOwn
  <1>11. ASSUME FindOrCreateLVDL
         PROVE  DeviceInv'
    <2> DEFINE new == [policy |-> "None", current |-> NoId, valid |-> {}, failed |-> FALSE]
               found == IF lvdl[job.path] = NoLVDL THEN new ELSE lvdl[job.path]
    <2>1. new \in LVDLs /\ new.valid = {}
      BY DEF LVDLs
    <2>2. found \in LVDLs /\ ListsOwn(job.path, found)
      BY <1>0, <1>11, <2>1 DEF FindOrCreateLVDL, TypeOK, Lists, ListsOwn
    <2>3. CASE /\ lvdl' = [lvdl EXCEPT ![job.path] = found]
               /\ job' = [job EXCEPT !.seen = found]
               /\ pc' = "update"
      <3> HIDE DEF new, found
      <3>1. lvdl' \in [Paths -> LVDLs \cup {NoLVDL}] /\ Lists'
        BY <1>0, <1>11, <2>2, <2>3 DEF FindOrCreateLVDL, TypeOK, Lists, ListsOwn
      <3>2. job' \in Jobs /\ JobInv'
        BY <1>0, <1>11, <2>2, <2>3 DEF FindOrCreateLVDL, Jobs, JobInv
      <3> QED
        BY <1>11, <2>3, <3>1, <3>2 DEF FindOrCreateLVDL, TypeOK, Steps, SymlinkKeepsDevice
    <2>4. CASE Finish /\ UNCHANGED lvdl
      BY <1>11, <2>4
         DEF FindOrCreateLVDL, Finish, TypeOK, Steps, SymlinkKeepsDevice, JobInv, Lists, ListsOwn
    <2> QED
      BY <1>11, <2>3, <2>4 DEF FindOrCreateLVDL
  <1>12. ASSUME UpdateDeviceLinks
         PROVE  DeviceInv'
    <2> DEFINE new == SetStatus(job.seen, job.dev, job.target)
    <2>1. job.seen \in LVDLs /\ job.target \in Ids \cup {NoId}
      BY <1>0, <1>12 DEF UpdateDeviceLinks, JobInv, Jobs
    <2>2. new \in LVDLs /\ new.valid = ValidIds(job.dev)
      BY <2>1, ZenonT(60) DEF SetStatus, LVDLs, ValidIds, TypeOK
    <2>3. Written(job.path, new)
      BY <1>12, WrittenLemma DEF UpdateDeviceLinks, JobInv
    <2>4. \A i \in new.valid : OwnerOf[i] = OwnerOf[job.path[1]]
      BY <1>0, <1>12, <2>2 DEF ValidIds, UpdateDeviceLinks
    <2> HIDE DEF new
    <2>5. /\ lvdl' \in [Paths -> LVDLs \cup {NoLVDL}]
          /\ cache' \in [Paths -> LVDLs \cup {NoLVDL}]
          /\ Lists'
      BY <1>0, <1>12, <2>2, <2>3, <2>4, WriteLists DEF UpdateDeviceLinks
    <2> QED
      BY <1>12, <2>5 DEF UpdateDeviceLinks, TypeOK, Steps, SymlinkKeepsDevice, JobInv, Finish
  <1>13. ASSUME NEW what \in {"udev", "policy", "faults"}, NEW max \in Nat, Spend(what, max),
                \/ what = "udev" /\ max = MaxUdev
                \/ what = "policy" /\ max = MaxPolicy
                \/ what = "faults" /\ max = MaxFaults
         PROVE  budget' \in [udev : 0..MaxUdev, policy : 0..MaxPolicy, faults : 0..MaxFaults]
    BY <1>13 DEF Spend, TypeOK
  <1>14. ASSUME CallFails
         PROVE  DeviceInv'
    <2>1. budget' \in [udev : 0..MaxUdev, policy : 0..MaxPolicy, faults : 0..MaxFaults]
      BY <1>13, <1>14 DEF CallFails
    <2>2. pc' \in Steps /\ IF pc' = "idle" THEN job' = <<>> ELSE job' \in Jobs
      BY <1>0, <1>14, ZenonT(60) DEF CallFails, Finish, Jobs, Steps, TypeOK
    <2>3. JobInv'
      BY <1>0, <1>14 DEF CallFails, Finish, Jobs, JobInv
    <2> QED
      BY <1>14, <2>1, <2>2, <2>3 DEF CallFails, TypeOK, SymlinkKeepsDevice, Lists, ListsOwn
  <1>15. ASSUME SwapFails
         PROVE  DeviceInv'
    <2>1. budget' \in [udev : 0..MaxUdev, policy : 0..MaxPolicy, faults : 0..MaxFaults]
      BY <1>13, <1>15 DEF SwapFails
    <2>2. /\ lvdl' \in [Paths -> LVDLs \cup {NoLVDL}]
          /\ cache' \in [Paths -> LVDLs \cup {NoLVDL}]
          /\ Lists'
          /\ Finish \/ (pc' = "pv" /\ job' = job)
      BY <1>15, ReportLemma DEF SwapFails
    <2>3. link' \in [Paths -> Ids \cup {NoId}] /\ SymlinkKeepsDevice'
      BY <1>0, <1>15 DEF SwapFails, TypeOK, SymlinkKeepsDevice
    <2> QED
      BY <1>0, <1>15, <2>1, <2>2, <2>3 DEF SwapFails, TypeOK, Steps, JobInv, Finish
  <1>16. ASSUME Crash
         PROVE  DeviceInv'
    <2>1. budget' \in [udev : 0..MaxUdev, policy : 0..MaxPolicy, faults : 0..MaxFaults]
      BY <1>13, <1>16 DEF Crash
    <2> QED
      BY <1>16, <2>1
         DEF Crash, Finish, TypeOK, Steps, SymlinkKeepsDevice, JobInv, Lists, ListsOwn
  <1>17. ASSUME NEW p \in Paths, InformerEvent(p)
         PROVE  DeviceInv'
    BY <1>17 DEF InformerEvent, TypeOK, SymlinkKeepsDevice, JobInv, Lists, ListsOwn
  <1>18. ASSUME NEW p \in Paths, NEW policy \in {"None", "PreferredLinkTarget"},
                SetPolicy(p, policy)
         PROVE  DeviceInv'
    <2>1. budget' \in [udev : 0..MaxUdev, policy : 0..MaxPolicy, faults : 0..MaxFaults]
      BY <1>13, <1>18 DEF SetPolicy
    <2>2. lvdl[p] \in LVDLs
      BY <1>18 DEF SetPolicy, TypeOK
    <2>3. lvdl'[p] \in LVDLs /\ lvdl'[p].valid = lvdl[p].valid
      BY <1>18, <2>2 DEF SetPolicy, TypeOK, LVDLs
    <2>4. \A q \in Paths : q # p => lvdl'[q] = lvdl[q]
      BY <1>18 DEF SetPolicy, TypeOK
    <2>5. lvdl' \in [Paths -> LVDLs \cup {NoLVDL}] /\ Lists'
      <3>1. lvdl' = [q \in Paths |-> lvdl'[q]]
        BY <1>18 DEF SetPolicy, TypeOK
      <3> QED
        BY <1>18, <2>3, <2>4, <3>1 DEF SetPolicy, TypeOK, Lists, ListsOwn
    <2> QED
      BY <1>18, <2>1, <2>5 DEF SetPolicy, TypeOK, SymlinkKeepsDevice, JobInv
  <1>19. ASSUME NEW ids \in SUBSET Ids, UdevChange(ids)
         PROVE  DeviceInv'
    <2>1. budget' \in [udev : 0..MaxUdev, policy : 0..MaxPolicy, faults : 0..MaxFaults]
      BY <1>13, <1>19 DEF UdevChange
    <2> QED
      BY <1>19, <2>1 DEF UdevChange, TypeOK, SymlinkKeepsDevice, JobInv, Lists, ListsOwn
  <1>20. ASSUME UNCHANGED vars
         PROVE  DeviceInv'
    BY <1>20 DEF vars, TypeOK, SymlinkKeepsDevice, JobInv, Lists, ListsOwn
  <1> QED
    BY <1>2, <1>3, <1>4, <1>5, <1>6, <1>7, <1>8, <1>9, <1>10, <1>11, <1>12, <1>14, <1>15,
       <1>16, <1>17, <1>18, <1>19, <1>20
       DEF Next, ChoosePath, Sync, Environment

-----------------------------------------------------------------------------
(* A device has one symlink and one PV.                                    *)

\* A status update loses no link that the device has, and keeps the cache in
\* step with the API server.
LEMMA WriteFinds ==
    ASSUME DeviceInv, CacheLists, NEW p \in Paths, NEW new \in LVDLs,
           new.valid = ValidIds(OwnerOf[p[1]]), Written(p, new), UNCHANGED present
    PROVE  /\ \A d : Listed(d) => Listed(d)'
           /\ CacheLists'
           /\ \A q \in Paths : lvdl'[q] # NoLVDL => lvdl[q] # NoLVDL
  <1> USE RecreationAssumption DEF DeviceInv
  <1>1. CASE UNCHANGED <<lvdl, cache>>
    BY <1>1 DEF Listed, CacheLists
  <1>2. CASE /\ lvdl[p] # NoLVDL
             /\ lvdl' = [lvdl EXCEPT ![p] = new]
             /\ cache' = [cache EXCEPT ![p] = new]
    <2>1. lvdl'[p] = new /\ cache'[p] = new /\ new # NoLVDL
      BY <1>2 DEF TypeOK
    <2>2. \A q \in Paths : q # p => lvdl'[q] = lvdl[q] /\ cache'[q] = cache[q]
      BY <1>2 DEF TypeOK
    <2>3. ASSUME NEW d, Listed(d)
          PROVE  Listed(d)'
      <3>1. PICK q \in Paths : /\ lvdl[q] # NoLVDL
                               /\ \E i \in lvdl[q].valid \cap present : OwnerOf[i] = d
        BY <2>3 DEF Listed
      <3>2. PICK i \in lvdl[q].valid \cap present : OwnerOf[i] = d
        BY <3>1
      <3>3. OwnerOf[i] = OwnerOf[q[1]]
        BY <3>1 DEF Lists, ListsOwn
      <3>4. q = p => i \in new.valid
        BY <3>2, <3>3 DEF ValidIds
      <3> QED
        BY <2>1, <2>2, <3>1, <3>2, <3>4 DEF Listed
    <2>4. CacheLists'
      BY <2>1, <2>2 DEF CacheLists
    <2> QED
      BY <1>2, <2>2, <2>3, <2>4
  <1> QED
    BY <1>1, <1>2 DEF Written

\* A new symlink is made only for a device that has none: one that dangles
\* would be found through the cache.
LEMMA NoneBefore ==
    ASSUME DeviceInv, CacheLists, Found, NEW d, Matching(d) = {},
           NEW id \in ValidIds(d), LSOManaged(id, d) = {},
           NEW q \in Paths, link[q] # NoId
    PROVE  OwnerOf[q[1]] # d
  <1> USE DEF DeviceInv
  <1> SUFFICES ASSUME OwnerOf[q[1]] = d
               PROVE  FALSE
    OBVIOUS
  <1>1. link[q] \notin present
    BY DEF Matching, Resolves, SymlinkKeepsDevice
  <1>2. PICK r \in Paths : /\ lvdl[r] # NoLVDL
                           /\ \E i \in lvdl[r].valid \cap present : OwnerOf[i] = d
    BY <1>1 DEF Found, Listed
  <1>3. PICK i \in lvdl[r].valid \cap present : OwnerOf[i] = d
    BY <1>2
  <1>4. cache[r] # NoLVDL /\ cache[r].valid = lvdl[r].valid
    BY <1>2, <1>3 DEF CacheLists
  <1>5. r \in Indexed(ValidIds(d))
    BY <1>3, <1>4 DEF Indexed, ValidIds
  <1> QED
    BY <1>5 DEF LSOManaged

\* At first there is one volume for each device.
LEMMA OneInvInit == Init => OneInv
  BY DeviceInvInit, RecreationAssumption
     DEF Init, OneInv, TmpInv, CacheLists, Found, SwapFound, OneSymlink

\* A step that is not a crash in the middle of a rename keeps one symlink for each
\* volume.
LEMMA OneInvStep ==
    ASSUME HaveBest, "rename" \notin CrashPoints, OneInv, [Next]_vars
    PROVE  OneInv'
  <1> USE RecreationAssumption DEF OneInv
  <1>0. pc # "idle" => /\ job \in Jobs /\ job.path \in Paths /\ job.dev \in Devices
                       /\ ~job.path[2] /\ Tmp(job.path) \in Paths
                       /\ Tmp(job.path)[1] = job.path[1] /\ Tmp(job.path)[2]
                       /\ OwnerOf[job.path[1]] = job.dev /\ link[job.path] # NoId
    BY DEF DeviceInv, TypeOK, Jobs, Paths, Tmp, JobInv, TmpInv
  <1>1. DeviceInv'
    BY DeviceInvStep
  \* Steps that touch neither links nor LVDLs.
  <1>2. ASSUME UNCHANGED <<present, link, pvs, lvdl>>
        PROVE  Found' /\ OneSymlink' /\ (\A d : Listed(d) => Listed(d)')
    BY <1>2 DEF Found, OneSymlink, Listed
  <1>3. ASSUME NEW d \in Devices, NEW inUse \in BOOLEAN, UseExistingSymlink(d, inUse)
        PROVE  OneInv'
    <2>1. PICK p \in Paths : p \in Existing(d) /\ Begin(d, p, inUse)
      BY <1>3 DEF UseExistingSymlink, Existing, Matching
    <2>2. ~p[2] /\ link[p] # NoId
      BY <1>3, <2>1 DEF UseExistingSymlink, Existing, Matching, Resolves, TmpInv, DeviceInv, TypeOK
    <2>3. TmpInv'
      BY <1>3, <2>1, <2>2, ZenonT(60) DEF UseExistingSymlink, Begin, TmpInv
    <2>4. CacheLists'
      BY <1>3 DEF UseExistingSymlink, CacheLists
    <2>5. pc' = "find"
      BY <2>1 DEF Begin
    <2>6. SwapFound'
      BY <2>5 DEF SwapFound
    <2>7. UNCHANGED <<present, link, pvs, lvdl>>
      BY <1>3 DEF UseExistingSymlink
    <2> QED
      BY <1>1, <1>2, <2>3, <2>4, <2>6, <2>7
  <1>4. ASSUME NEW d \in Devices, CreateSymlink(d)
        PROVE  OneInv'
    <2>1. PICK id \in ValidIds(d) :
              /\ LSOManaged(id, d) = {}
              /\ link' = [link EXCEPT ![<<id, FALSE>>] = IF @ = NoId THEN id ELSE @]
              /\ Begin(d, <<id, FALSE>>, FALSE)
      BY <1>4 DEF CreateSymlink
    <2> DEFINE p == <<id, FALSE>>
    <2>2. /\ id \in Ids /\ id \in present /\ OwnerOf[id] = d
          /\ p \in Paths /\ p[1] = id /\ ~p[2]
      BY DEF ValidIds, DeviceInv, TypeOK, Paths
    <2>3. \A q \in Paths : link[q] # NoId => OwnerOf[q[1]] # d
      BY <1>4, <2>1, NoneBefore DEF CreateSymlink
    <2>4. link' = [link EXCEPT ![p] = IF link[p] = NoId THEN id ELSE link[p]]
      BY <2>1
    <2>5. pc = "idle" /\ pc' = "find" /\ job'.path = p
      BY <1>4, <2>1 DEF CreateSymlink, Begin
    <2> HIDE DEF p
    <2>6. link'[p] = id /\ \A q \in Paths : q # p => link'[q] = link[q]
      BY <2>2, <2>3, <2>4 DEF DeviceInv, TypeOK
    <2>7. TmpInv'
      BY <1>4, <2>2, <2>5, <2>6, ZenonT(60) DEF CreateSymlink, TmpInv, DeviceInv, TypeOK
    <2>8. OneSymlink'
      BY <2>2, <2>3, <2>6 DEF OneSymlink
    <2>9. Found'
      BY <1>4, <2>2, <2>6, ZenonT(60) DEF CreateSymlink, Found, Listed
    <2>10. CacheLists'
      BY <1>4 DEF CreateSymlink, CacheLists
    <2>11. SwapFound'
      BY <2>5 DEF SwapFound
    <2> QED
      BY <1>1, <2>7, <2>8, <2>9, <2>10, <2>11
  <1>5. ASSUME NEW d \in Devices, NEW inUse \in BOOLEAN, RecoverPVSymlinkPath(d, inUse)
        PROVE  OneInv'
    <2>1. PICK id \in ValidIds(d), p \in Paths :
              /\ LSOManaged(id, d) = {p}
              /\ \/ /\ WriteChangedStatus(p, cache[p], SetStatus(cache[p], d, cache[p].current))
                    /\ UNCHANGED <<pc, job>>
                 \/ Begin(d, p, inUse) /\ UNCHANGED <<lvdl, cache>>
      BY <1>5 DEF RecoverPVSymlinkPath
    <2>2. cache[p] # NoLVDL /\ \E i \in cache[p].valid : OwnerOf[i] = d
      <3>1. p \in Indexed({id}) \/ p \in Indexed(ValidIds(d))
        BY <2>1 DEF LSOManaged
      <3> QED
        BY <3>1 DEF Indexed, ValidIds
    <2>3. OwnerOf[p[1]] = d
      BY <2>2 DEF DeviceInv, Lists, ListsOwn
    <2>4. CASE WriteChangedStatus(p, cache[p], SetStatus(cache[p], d, cache[p].current))
               /\ UNCHANGED <<pc, job>>
      <3> DEFINE new == SetStatus(cache[p], d, cache[p].current)
      <3>1. cache[p] \in LVDLs
        BY <2>2 DEF DeviceInv, TypeOK
      <3>2. new \in LVDLs /\ new.valid = ValidIds(d)
        BY <3>1, ZenonT(60) DEF SetStatus, LVDLs, ValidIds, DeviceInv, TypeOK
      <3>3. Written(p, new)
        BY <2>2, <2>4, WrittenLemma
      <3> HIDE DEF new
      <3>4. /\ \A e : Listed(e) => Listed(e)'
            /\ CacheLists'
            /\ \A q \in Paths : lvdl'[q] # NoLVDL => lvdl[q] # NoLVDL
        BY <1>5, <2>3, <3>2, <3>3, WriteFinds DEF RecoverPVSymlinkPath
      <3> QED
        BY <1>1, <1>5, <2>4, <3>4, ZenonT(60)
           DEF RecoverPVSymlinkPath, TmpInv, Found, SwapFound, OneSymlink
    <2>5. CASE Begin(d, p, inUse) /\ UNCHANGED <<lvdl, cache>>
      <3>1. p \in pvs /\ ~p[2] /\ link[p] # NoId
        BY <2>2 DEF CacheLists, TmpInv
      <3>2. TmpInv'
        BY <1>5, <2>5, <3>1 DEF RecoverPVSymlinkPath, Begin, TmpInv
      <3> QED
        BY <1>1, <1>2, <1>5, <2>5, <3>2, ZenonT(60) DEF RecoverPVSymlinkPath, Begin, SwapFound, CacheLists
    <2> QED
      BY <2>1, <2>4, <2>5
  <1>6. ASSUME FindLVDL
        PROVE  OneInv'
    <2>1. TmpInv'
      BY <1>0, <1>6 DEF FindLVDL, Finish, Goto, TmpInv, Jobs
    <2> QED
      BY <1>1, <1>2, <1>6, <2>1 DEF FindLVDL, Finish, Goto, SwapFound, CacheLists
  \* A failed recreation.
  <1>7. ASSUME pc \in {"check", "tmp", "rename"}, ReportFailure, UNCHANGED <<present, pvs>>,
               \A p \in Paths : ~p[2] => link'[p] = link[p],
               \A p \in Paths : p[2] => link'[p] = NoId
        PROVE  OneInv'
    <2>1. Finish \/ (pc' = "pv" /\ job' = job)
      BY <1>7, ReportLemma
    <2>2. PICK new \in LVDLs : new.valid = ValidIds(job.dev) /\ Written(job.path, new)
      BY <1>7, ReportLemma
    <2>3. /\ \A d : Listed(d) => Listed(d)'
          /\ CacheLists'
          /\ \A q \in Paths : lvdl'[q] # NoLVDL => lvdl[q] # NoLVDL
      BY <1>0, <1>7, <2>2, WriteFinds
    <2>4. TmpInv'
      BY <1>0, <1>7, <2>1, <2>3 DEF TmpInv, Finish, DeviceInv, TypeOK
    <2>5. Found'
      BY <1>7, <2>3 DEF Found
    <2>6. OneSymlink'
      BY <1>7 DEF OneSymlink
    <2> QED
      BY <1>1, <2>1, <2>3, <2>4, <2>5, <2>6 DEF Finish, SwapFound
  <1>8. ASSUME CheckTarget
        PROVE  OneInv'
    <2>1. CASE ReportFailure
      <3>1. \A p \in Paths : p[2] => link[p] = NoId
        BY <1>8 DEF CheckTarget, TmpInv
      <3> QED
        BY <1>7, <1>8, <2>1, <3>1 DEF CheckTarget
    <2>2. CASE /\ PathByID(job.dev) # NoId
               /\ pc' = "tmp"
               /\ job' = [job EXCEPT !.target = PathByID(job.dev)]
               /\ UNCHANGED <<lvdl, cache>>
      <3>1. PathByID(job.dev) \in present
        BY <2>2, PathByIDLemma DEF DeviceInv
      <3>2. job'.path = job.path /\ job'.target = PathByID(job.dev)
        BY <1>0, <1>8, <2>2 DEF CheckTarget, Jobs
      <3>3. TmpInv'
        BY <1>0, <1>8, <2>2, <3>2 DEF CheckTarget, TmpInv
      <3>4. SwapFound'
        BY <1>8, <3>1, <3>2 DEF CheckTarget, SwapFound
      <3> QED
        BY <1>1, <1>2, <1>8, <2>2, <3>3, <3>4 DEF CheckTarget, CacheLists
    <2> QED
      BY <1>8, <2>1, <2>2 DEF CheckTarget
  <1>9. ASSUME CreateTmp
        PROVE  OneInv'
    <2>1. /\ link'[Tmp(job.path)] = job.target
          /\ \A p \in Paths : p # Tmp(job.path) => link'[p] = link[p]
      BY <1>0, <1>9 DEF CreateTmp, DeviceInv, TypeOK
    <2>2. TmpInv'
      BY <1>0, <1>9, <2>1 DEF CreateTmp, Goto, TmpInv, DeviceInv, TypeOK
    <2>3. Found'
      BY <1>0, <1>9, <2>1 DEF CreateTmp, Found, SwapFound, Listed
    <2>4. OneSymlink'
      BY <1>0, <1>9, <2>1 DEF CreateTmp, OneSymlink
    <2> QED
      BY <1>1, <1>9, <2>2, <2>3, <2>4 DEF CreateTmp, Goto, SwapFound, Listed, CacheLists
  <1>10. ASSUME RenameTmp
         PROVE  OneInv'
    <2>1. /\ link'[job.path] = job.target /\ link'[Tmp(job.path)] = NoId
          /\ \A p \in Paths \ {job.path, Tmp(job.path)} : link'[p] = link[p]
      BY <1>0, <1>10 DEF RenameTmp, DeviceInv, TypeOK
    <2>2. job.target # NoId
      BY <1>10 DEF RenameTmp, DeviceInv, JobInv
    <2>3. TmpInv'
      BY <1>0, <1>10, <2>1, <2>2 DEF RenameTmp, Goto, TmpInv, DeviceInv, TypeOK
    <2>4. Found'
      <3>1. present' = present /\ \A d : Listed(d) => Listed(d)'
        BY <1>10 DEF RenameTmp, Listed
      <3>2. job.target \in present \/ Listed(OwnerOf[job.path[1]])
        BY <1>0, <1>10 DEF RenameTmp, SwapFound
      <3> QED
        BY <1>0, <2>1, <3>1, <3>2 DEF Found
    <2>5. OneSymlink'
      BY <1>0, <1>10, <2>1 DEF RenameTmp, OneSymlink
    <2> QED
      BY <1>1, <1>10, <2>3, <2>4, <2>5 DEF RenameTmp, Goto, SwapFound, CacheLists
  <1>11. ASSUME UpdateStatus
         PROVE  OneInv'
    <2> DEFINE new == [SetStatus(job.seen, job.dev, job.target) EXCEPT !.failed = FALSE]
    <2>1. job.seen \in LVDLs /\ job.target \in Ids \cup {NoId}
      BY <1>0, <1>11 DEF UpdateStatus, DeviceInv, JobInv, Jobs
    <2>2. new \in LVDLs /\ new.valid = ValidIds(job.dev)
      BY <2>1 DEF SetStatus, LVDLs, ValidIds, DeviceInv, TypeOK
    <2>3. Written(job.path, new)
      BY <1>11, WrittenLemma DEF UpdateStatus, DeviceInv, JobInv
    <2>4. Finish \/ (pc' = "pv" /\ job' = job)
      BY <1>11 DEF UpdateStatus, ThenPV, Goto
    <2> HIDE DEF new
    <2>5. /\ \A d : Listed(d) => Listed(d)'
          /\ CacheLists'
          /\ \A q \in Paths : lvdl'[q] # NoLVDL => lvdl[q] # NoLVDL
      BY <1>0, <1>11, <2>2, <2>3, WriteFinds DEF UpdateStatus
    <2>6. TmpInv'
      BY <1>0, <1>11, <2>4, <2>5 DEF UpdateStatus, Finish, TmpInv, DeviceInv, TypeOK
    <2> QED
      BY <1>1, <1>11, <2>4, <2>5, <2>6 DEF UpdateStatus, Finish, Found, SwapFound, OneSymlink
  <1>12. ASSUME CreateOrUpdatePV
         PROVE  OneInv'
    <2>1. TmpInv'
      BY <1>0, <1>12 DEF CreateOrUpdatePV, Finish, TmpInv, Jobs, DeviceInv, TypeOK
    <2> QED
      BY <1>1, <1>12, <2>1
         DEF CreateOrUpdatePV, Finish, SwapFound, CacheLists, Found, OneSymlink, Listed
  <1>13. ASSUME FindOrCreateLVDL
         PROVE  OneInv'
    <2> DEFINE new == [policy |-> "None", current |-> NoId, valid |-> {}, failed |-> FALSE]
               found == IF lvdl[job.path] = NoLVDL THEN new ELSE lvdl[job.path]
    <2>1. CASE Finish /\ UNCHANGED lvdl
      BY <1>1, <1>13, <2>1
         DEF FindOrCreateLVDL, Finish, TmpInv, SwapFound, CacheLists, Found, OneSymlink, Listed
    <2>2. CASE /\ job.path \in pvs
               /\ lvdl' = [lvdl EXCEPT ![job.path] = found]
               /\ job' = [job EXCEPT !.seen = found]
               /\ pc' = "update"
      <3>1. new \in LVDLs /\ new.valid = {}
        BY DEF LVDLs
      <3>2. /\ lvdl[job.path] # NoLVDL => found = lvdl[job.path]
            /\ lvdl[job.path] = NoLVDL => found.valid = {}
            /\ found # NoLVDL
        BY <3>1, ZenonT(60)
      <3> HIDE DEF new, found
      <3>3. /\ lvdl'[job.path] = found
            /\ \A q \in Paths : q # job.path => lvdl'[q] = lvdl[q]
            /\ job'.path = job.path
        BY <1>0, <1>13, <2>2 DEF FindOrCreateLVDL, DeviceInv, TypeOK, Jobs
      <3>4. \A d : Listed(d) => Listed(d)'
        BY <1>0, <1>13, <3>2, <3>3 DEF FindOrCreateLVDL, Listed
      <3>5. CacheLists'
        BY <1>0, <1>13, <3>2, <3>3 DEF FindOrCreateLVDL, CacheLists
      <3>6. TmpInv'
        BY <1>0, <1>13, <2>2, <3>3 DEF FindOrCreateLVDL, TmpInv
      <3> QED
        BY <1>1, <1>13, <2>2, <3>4, <3>5, <3>6 DEF FindOrCreateLVDL, SwapFound, Found, OneSymlink
    <2> QED
      BY <1>13, <2>1, <2>2 DEF FindOrCreateLVDL
  <1>14. ASSUME UpdateDeviceLinks
         PROVE  OneInv'
    <2> DEFINE new == SetStatus(job.seen, job.dev, job.target)
    <2>1. job.seen \in LVDLs /\ job.target \in Ids \cup {NoId}
      BY <1>0, <1>14 DEF UpdateDeviceLinks, DeviceInv, JobInv, Jobs
    <2>2. new \in LVDLs /\ new.valid = ValidIds(job.dev)
      BY <2>1, ZenonT(60) DEF SetStatus, LVDLs, ValidIds, DeviceInv, TypeOK
    <2>3. Written(job.path, new)
      BY <1>14, WrittenLemma DEF UpdateDeviceLinks, DeviceInv, JobInv
    <2> HIDE DEF new
    <2>4. /\ \A d : Listed(d) => Listed(d)'
          /\ CacheLists'
          /\ \A q \in Paths : lvdl'[q] # NoLVDL => lvdl[q] # NoLVDL
      BY <1>0, <1>14, <2>2, <2>3, WriteFinds DEF UpdateDeviceLinks
    <2> QED
      BY <1>1, <1>14, <2>4 DEF UpdateDeviceLinks, Finish, TmpInv, Found, SwapFound, OneSymlink
  <1>15. ASSUME CallFails
         PROVE  OneInv'
    <2>1. TmpInv'
      BY <1>0, <1>15 DEF CallFails, Finish, TmpInv, Jobs
    <2> QED
      BY <1>1, <1>2, <1>15, <2>1 DEF CallFails, Finish, SwapFound, CacheLists
  <1>16. ASSUME SwapFails
         PROVE  OneInv'
    <2>1. /\ \A p \in Paths : ~p[2] => link'[p] = link[p]
          /\ \A p \in Paths : p[2] => link'[p] = NoId
      BY <1>0, <1>16 DEF SwapFails, TmpInv, DeviceInv, TypeOK
    <2> QED
      BY <1>7, <1>16, <2>1 DEF SwapFails
  <1>17. ASSUME Crash
         PROVE  OneInv'
    <2>1. pc # "rename"
      BY <1>17 DEF Crash
    <2>2. TmpInv'
      BY <1>17, <2>1 DEF Crash, Finish, TmpInv
    <2> QED
      BY <1>1, <1>2, <1>17, <2>2 DEF Crash, Finish, SwapFound, CacheLists
  <1>18. ASSUME NEW p \in Paths, InformerEvent(p)
         PROVE  OneInv'
    <2>1. CacheLists'
      BY <1>18 DEF InformerEvent, CacheLists, DeviceInv, TypeOK
    <2> QED
      BY <1>1, <1>2, <1>18, <2>1, ZenonT(60) DEF InformerEvent, TmpInv, SwapFound
  <1>19. ASSUME NEW p \in Paths, NEW policy \in {"None", "PreferredLinkTarget"},
                SetPolicy(p, policy)
         PROVE  OneInv'
    <2>1. lvdl[p] \in LVDLs
      BY <1>19 DEF SetPolicy, DeviceInv, TypeOK
    <2>2. lvdl'[p] \in LVDLs /\ lvdl'[p].valid = lvdl[p].valid
      BY <1>19, <2>1, ZenonT(60) DEF SetPolicy, DeviceInv, TypeOK, LVDLs
    <2>3. \A q \in Paths : q # p => lvdl'[q] = lvdl[q]
      BY <1>19 DEF SetPolicy, DeviceInv, TypeOK
    <2>4. \A d : Listed(d) => Listed(d)'
      BY <1>19, <2>2, <2>3 DEF SetPolicy, Listed
    <2>5. CacheLists'
      BY <1>19, <2>1, <2>2, <2>3 DEF SetPolicy, CacheLists
    <2>6. TmpInv'
      BY <1>19, <2>1, <2>3 DEF SetPolicy, TmpInv
    <2> QED
      BY <1>1, <1>19, <2>4, <2>5, <2>6 DEF SetPolicy, SwapFound, Found, OneSymlink
  \* Here the premise on udev is used: a device that loses the link its symlink
  \* points to keeps one that an LVDL lists.
  <1>20. ASSUME NEW ids \in SUBSET Ids, UdevChange(ids)
         PROVE  OneInv'
    <2>1. ASSUME NEW p \in Paths, link[p] # NoId,
                 \E q \in Paths : /\ lvdl[q] # NoLVDL
                                  /\ \E i \in lvdl[q].valid \cap ids : OwnerOf[i] = OwnerOf[link[p]]
          PROVE  Listed(OwnerOf[p[1]])'
      BY <1>20, <2>1, ZenonT(60) DEF UdevChange, Listed, DeviceInv, SymlinkKeepsDevice
    <2>2. Found'
      BY <1>20, <2>1 DEF UdevChange, Recoverable, Found
    <2>3. SwapFound'
      <3>1. CASE pc \in {"tmp", "rename"}
        <4>1. Listed(OwnerOf[job.path[1]])'
          BY <1>0, <1>20, <2>1, <3>1 DEF UdevChange, Recoverable
        <4> QED
          BY <1>0, <1>20, <3>1, <4>1 DEF UdevChange, SwapFound
      <3>2. CASE pc \notin {"tmp", "rename"}
        BY <1>20, <3>2 DEF UdevChange, SwapFound
      <3> QED
        BY <3>1, <3>2
    <2> QED
      BY <1>1, <1>20, <2>2, <2>3 DEF UdevChange, TmpInv, CacheLists, OneSymlink
  <1>21. ASSUME UNCHANGED vars
         PROVE  OneInv'
    BY <1>1, <1>2, <1>21 DEF vars, TmpInv, CacheLists, SwapFound
  <1> QED
    BY <1>3, <1>4, <1>5, <1>6, <1>8, <1>9, <1>10, <1>11, <1>12, <1>13, <1>14, <1>15, <1>16,
       <1>17, <1>18, <1>19, <1>20, <1>21
       DEF Next, ChoosePath, Sync, Environment

-----------------------------------------------------------------------------
(* Theorems.                                                               *)

Order == INSTANCE WellFoundedInduction

\* A set of numbers has a least one.
LEMMA LeastNat ==
    ASSUME NEW T, T \subseteq Nat, T # {}
    PROVE  \E x \in T : \A y \in T : x <= y
  <1> DEFINE R == {ss \in Nat \X Nat : ss[1] < ss[2]}
  <1>1. Order!IsWellFoundedOn(R, Nat)
    BY Order!NatLessThanWellFounded DEF Order!OpToRel
  <1> HIDE DEF R
  <1>2. PICK x \in T : \A y \in T : ~ (<<y, x>> \in R)
    BY <1>1, Order!WFMin
  <1>3. \A y \in T : x <= y
    <2> TAKE y \in T
    <2>1. ~ (y < x)
      BY <1>2 DEF R
    <2>2. x \in Nat /\ y \in Nat
      OBVIOUS
    <2> QED
      BY <2>1, <2>2
  <1> QED
    BY <1>3

\* The by-id links of a set are ranked by natural numbers, one of which is least.
LEMMA BestOfRanks == HaveBest
  <1> SUFFICES ASSUME NEW S \in SUBSET Ids, S # {}
               PROVE  \E i \in S : \A j \in S : Rank[i] <= Rank[j]
    BY DEF HaveBest
  <1> DEFINE T == {Rank[i] : i \in S}
  <1>1. T \subseteq Nat /\ T # {}
    BY RecreationAssumption
  <1>2. PICK x \in T : \A y \in T : x <= y
    BY <1>1, LeastNat
  <1> QED
    BY <1>2

(***************************************************************************)
(* A symlink of the storage class directory never moves to another device, *)
(* whatever links udev shows and wherever the diskmaker is killed:         *)
(* RecoverPVSymlinkPath and RecreateSymlinkIfNeeded only use links of the  *)
(* device that the path was created for.                                   *)
(***************************************************************************)
THEOREM SymlinksKeepTheirDevice == Spec => []SymlinkKeepsDevice
  <1>1. DeviceInv => SymlinkKeepsDevice
    BY DEF DeviceInv
  <1>2. DeviceInv /\ [Next]_vars => DeviceInv'
    BY DeviceInvStep, BestOfRanks
  <1> QED
    BY <1>1, <1>2, DeviceInvInit, PTL DEF Spec

(***************************************************************************)
(* If the diskmaker is not killed between creating and renaming a .tmp, no *)
(* device ever gets a second PV: after its by-id links change, its symlink *)
(* still resolves or the LVDL cache leads to it (RecoverPVSymlinkPath).    *)
(***************************************************************************)
THEOREM OnePV ==
    ASSUME "rename" \notin CrashPoints
    PROVE  Spec => []OnePVPerDevice
  <1>1. OneInv => OnePVPerDevice
    BY DEF OneInv, DeviceInv, TypeOK, TmpInv, OneSymlink, OnePVPerDevice
  <1>2. OneInv /\ [Next]_vars => OneInv'
    BY OneInvStep, BestOfRanks
  <1> QED
    BY <1>1, <1>2, OneInvInit, PTL DEF Spec

(***************************************************************************)
(* Under the same assumption the symlink of a PV is there at every moment: *)
(* RecreateSymlinkIfNeeded renames a .tmp over it, and no .tmp has a PV.   *)
(***************************************************************************)
THEOREM SymlinksStay ==
    ASSUME "rename" \notin CrashPoints
    PROVE  Spec => SymlinkNeverVanishes
  <1>1. ASSUME OneInv, [Next]_vars
        PROVE  [\A p \in pvs : link[p] # NoId => link'[p] # NoId]_vars
    <2>1. OneInv'
      BY <1>1, OneInvStep, BestOfRanks
    <2>2. pvs \subseteq pvs'
      BY <1>1 DEF Next, ChoosePath, Sync, Environment, vars, UseExistingSymlink, CreateSymlink,
            RecoverPVSymlinkPath, FindLVDL, CheckTarget, CreateTmp, RenameTmp, UpdateStatus,
            CreateOrUpdatePV, FindOrCreateLVDL, UpdateDeviceLinks, CallFails, SwapFails, Crash,
            InformerEvent, SetPolicy, UdevChange
    <2> QED
      BY <2>1, <2>2 DEF OneInv, TmpInv
  <1>2. OneInv /\ [Next]_vars => OneInv'
    BY OneInvStep, BestOfRanks
  <1> QED
    BY <1>1, <1>2, OneInvInit, PTL DEF Spec, SymlinkNeverVanishes
=============================================================================

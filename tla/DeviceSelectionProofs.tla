----------------------- MODULE DeviceSelectionProofs -----------------------
(***************************************************************************)
(* Proofs about DeviceSelection for any disks, kernel names and sets, of   *)
(* any attributes and specs, and any number of disks that are attached,    *)
(* detached or used, and of restarts.                                      *)
(***************************************************************************)
EXTENDS DeviceSelection, FiniteSetTheorems, TLAPS

\* What a leaf is tried with, if it does not say.
USE ZenonT(5), SMTT(30), Z3T(30), ZenonT(30)

(***************************************************************************)
(* Names that were not disturbed since they were listed still lead to the  *)
(* disks of their rows, and the valid ones pass.                           *)
(***************************************************************************)
ListedInv ==
    /\ pc # "idle" => set \in Sets
    /\ pc # "process" => valid = {}
    /\ undisturbed /\ pc # "idle" =>
           /\ rows = [k \in KNames |-> Live(k)] /\ signed = {d \in Disks : use[d] = "signed"}
           /\ \A k \in valid : k \in Matched /\ Passes(BlockDevice(k))

AgeInv == \A k \in valid : isOlderThan(k)

(***************************************************************************)
(* While no disk was detached, a name that was listed or is known still    *)
(* has its disk, which is as old as the name is known, and every disk with *)
(* a symlink of the set that is reconciled was listed.                     *)
(***************************************************************************)
StayInv ==
    detached = 0 =>
        /\ \A k \in KNames : rows[k] # Nil => at[rows[k]] = k
        /\ \A k \in valid : rows[k] # Nil
        /\ \A k \in KNames : seen[k] # Nil => \E d \in Disks : at[d] = k /\ aged[d] >= seen[k]
        /\ \A s \in Sets : \A d \in links[s] : at[d] # Nil
        /\ pc # "idle" => \A d \in links[set] : rows[at[d]] # Nil
        /\ \A s \in Sets : InCount(s)

PickInv == TypeOK /\ ListedInv /\ AgeInv /\ StayInv

\* The disk under a name.
LEMMA LiveLemma ==
    ASSUME TypeOK, NEW k \in KNames
    PROVE  /\ Live(k) \in Disks \cup {Nil}
           /\ \A d \in Disks : at[d] = k <=> Live(k) = d
  <1>1. \A d, e \in Disks : at[d] = k /\ at[e] = k => d = e
    BY SelectionConstants DEF TypeOK
  <1>2. CASE \E d \in Disks : at[d] = k
    <2>1. Live(k) = CHOOSE d \in Disks : at[d] = k
      BY <1>2 DEF Live
    <2>2. Live(k) \in Disks /\ at[Live(k)] = k
      BY <1>2, <2>1
    <2> QED
      BY <1>1, <2>2
  <1>3. CASE ~\E d \in Disks : at[d] = k
    BY <1>3, SelectionConstants DEF Live
  <1> QED
    BY <1>2, <1>3

\* What getValidDevices looks at: the row of the disk, under the name it has now.
LEMMA RowFields ==
    ASSUME NEW k \in KNames, rows[k] \in Disks
    PROVE  LET row == Attributes[rows[k]] IN
           /\ BlockDevice(k).kname = k
           /\ BlockDevice(k).fsType = (rows[k] \in signed)
           /\ BlockDevice(k).size = row.size /\ BlockDevice(k).type = row.type
           /\ BlockDevice(k).rota = row.rota
           /\ BlockDevice(k).vendor = row.vendor /\ BlockDevice(k).model = row.model
  BY SelectionConstants DEF BlockDevice, Fields

\* Types, at first ...
LEMMA PickTypeInit == Init => TypeOK
  BY SelectionConstants DEF Init, TypeOK, Ages, Old

\* ... and after every step.
LEMMA PickTypeStep ==
    ASSUME TypeOK, ListedInv, [Next]_vars
    PROVE  TypeOK'
  <1> USE SelectionConstants
  <1>1. ASSUME NEW d \in Disks, NEW k \in KNames, Attach(d, k)
        PROVE  TypeOK'
    <2>1. \A e \in Disks : at[e] # k
      BY <1>1, LiveLemma DEF Attach
    <2>2. at' = [at EXCEPT ![d] = k] /\ undisturbed' \in BOOLEAN
      BY <1>1 DEF Attach, Disturb
    <2>3. at' \in [Disks -> KNames \cup {Nil}]
      BY <2>2 DEF TypeOK
    <2>4. \A e, f \in Disks : at'[e] = at'[f] /\ at'[e] # Nil => e = f
      BY <2>1, <2>2 DEF TypeOK
    <2> QED
      BY <1>1, <2>2, <2>3, <2>4 DEF Attach, reconcileVars, bounds, TypeOK
  <1>2. ASSUME NEW d \in Disks, Detach(d)
        PROVE  TypeOK'
    <2>1. /\ at' = [at EXCEPT ![d] = Nil] /\ undisturbed' \in BOOLEAN
          /\ aged' = [aged EXCEPT ![d] = 0]
          /\ use' = [use EXCEPT ![d] = IF @ = "open" THEN "free" ELSE @]
          /\ UNCHANGED <<seen, links, pc, set, rows, signed, valid, delayed, uses, restarts>>
      BY <1>2 DEF Detach, Disturb, reconcileVars
    <2>2. detached' \in 0..MaxDetach
      BY <1>2 DEF Detach, TypeOK
    <2>3. at' \in [Disks -> KNames \cup {Nil}]
          /\ \A e, f \in Disks : at'[e] = at'[f] /\ at'[e] # Nil => e = f
      BY <2>1 DEF TypeOK
    <2>4. aged' \in [Disks -> Ages] /\ use' \in [Disks -> {"free", "signed", "open"}]
      BY <2>1 DEF TypeOK, Ages, Old
    <2> QED
      BY <2>1, <2>2, <2>3, <2>4 DEF TypeOK
  <1>3. ASSUME NEW d \in Disks, UseDisk(d)
        PROVE  TypeOK'
    <2>1. PICK u \in {"free", "signed", "open"} : use' = [use EXCEPT ![d] = u]
      BY <1>3 DEF UseDisk
    <2>2. uses' \in 0..MaxUses /\ undisturbed' \in BOOLEAN
      BY <1>3 DEF UseDisk, Disturb, TypeOK
    <2> QED
      BY <1>3, <2>1, <2>2 DEF UseDisk, reconcileVars, TypeOK
  <1>4. CASE Tick
    <2>1. \A age \in Ages : Older(age) \in Ages
      BY DEF Ages, Old, Older
    <2>2. /\ aged' = [d \in Disks |-> IF at[d] = Nil THEN 0 ELSE Older(aged[d])]
          /\ seen' = [k \in KNames |-> IF seen[k] = Nil THEN Nil ELSE Older(seen[k])]
      BY <1>4 DEF Tick
    <2>3. aged' \in [Disks -> Ages]
      BY <2>1, <2>2 DEF TypeOK, Ages, Old
    <2>4. seen' \in [KNames -> Ages \cup {Nil}]
      BY <2>1, <2>2 DEF TypeOK
    <2> QED
      BY <1>4, <2>3, <2>4 DEF Tick, bounds, TypeOK
  <1>5. CASE Restart \/ ReconcileFails
    <2>1. CASE Restart
      BY <2>1 DEF Restart, Idle, TypeOK
    <2>2. CASE ReconcileFails
      BY <2>2 DEF ReconcileFails, Idle, TypeOK
    <2> QED
      BY <1>5, <2>1, <2>2
  <1>6. CASE Requeue
    BY <1>6 DEF Requeue, Idle, bounds, TypeOK
  <1>7. ASSUME NEW s \in Sets, ListBlockDevices(s)
        PROVE  TypeOK'
    <2>1. rows' \in [KNames -> Disks \cup {Nil}]
      BY <1>7, LiveLemma DEF ListBlockDevices
    <2> QED
      BY <1>7, <2>1 DEF ListBlockDevices, bounds, TypeOK
  <1>8. CASE getValidDevices
    <2>1. seen' \in [KNames -> Ages \cup {Nil}]
      BY <1>8 DEF getValidDevices, storeDeviceAge, TypeOK, Ages, Old
    <2>2. Matched \subseteq KNames
      BY DEF Matched
    <2>3. valid' \subseteq KNames /\ delayed' \subseteq KNames /\ valid' \cap delayed' = {}
      BY <1>8, <2>2 DEF getValidDevices
    <2> QED
      BY <1>8, <2>1, <2>3 DEF getValidDevices, bounds, TypeOK
  <1>9. ASSUME NEW k \in KNames, ProcessDevice(k)
        PROVE  TypeOK'
    <2>1. valid' \subseteq valid
      BY <1>9 DEF ProcessDevice
    <2>2. links' \in [Sets -> SUBSET Disks]
      <3>1. CASE UNCHANGED links
        BY <3>1 DEF TypeOK
      <3>2. CASE ~Claimed(k) /\ links' = [links EXCEPT ![set] = @ \cup {Live(k)}]
        <4>1. Live(k) \in Disks
          BY <3>2, LiveLemma DEF Claimed
        <4> QED
          BY <3>2, <4>1 DEF TypeOK
      <3> QED
        BY <1>9, <3>1, <3>2 DEF ProcessDevice
    <2> QED
      BY <1>9, <2>1, <2>2 DEF ProcessDevice, bounds, TypeOK
  <1>10. CASE UNCHANGED vars
    BY <1>10 DEF vars, bounds, TypeOK
  <1> QED
    BY <1>1, <1>2, <1>3, <1>4, <1>5, <1>6, <1>7, <1>8, <1>9, <1>10 DEF Next, Process

\* The rows stay what the last listing showed until a disk changes.
LEMMA ListedStep ==
    ASSUME TypeOK, ListedInv, AgeInv, [Next]_vars
    PROVE  ListedInv' /\ AgeInv'
  <1> USE SelectionConstants
  <1>1. ASSUME UNCHANGED <<at, use, rows, signed, set>>
        PROVE  /\ \A k : Live(k)' = Live(k) /\ BlockDevice(k)' = BlockDevice(k)
               /\ Matched' = Matched
    <2>1. \A k : Live(k)' = Live(k)
      BY <1>1 DEF Live
    <2>2. \A k : BlockDevice(k)' = BlockDevice(k)
      BY <1>1, <2>1 DEF BlockDevice
    <2> QED
      BY <1>1, <2>1, <2>2 DEF Matched
  <1>2. CASE Disturb /\ UNCHANGED reconcileVars
    BY <1>2 DEF Disturb, reconcileVars, ListedInv, AgeInv, isOlderThan
  <1>3. CASE Tick
    <2>1. UNCHANGED <<at, use, pc, set, rows, signed, valid, undisturbed>>
      BY <1>3 DEF Tick
    <2>2. ListedInv'
      BY <1>1, <2>1 DEF ListedInv
    <2>3. \A k \in KNames : seen[k] # Nil => seen[k] \in Ages
      BY DEF TypeOK
    <2>4. \A k \in KNames : isOlderThan(k) => isOlderThan(k)'
      <3> SUFFICES ASSUME NEW k \in KNames, isOlderThan(k)
                   PROVE  isOlderThan(k)'
        OBVIOUS
      <3>1. seen[k] # Nil /\ seen[k] > MinAge /\ seen[k] \in 0..MinAge + 1
        BY <2>3 DEF isOlderThan, Ages, Old
      <3>2. seen'[k] = Older(seen[k])
        BY <1>3, <3>1 DEF Tick
      <3>3. Older(seen[k]) \in Nat /\ Older(seen[k]) > MinAge
        BY <3>1 DEF Older, Old
      <3> QED
        BY <3>2, <3>3, MatchingConstants DEF isOlderThan
    <2>5. AgeInv'
      BY <2>1, <2>4 DEF AgeInv, TypeOK
    <2> QED
      BY <2>2, <2>5
  <1>4. CASE Restart \/ ReconcileFails \/ Requeue
    BY <1>4 DEF Restart, ReconcileFails, Requeue, Idle, ListedInv, AgeInv
  <1>5. ASSUME NEW s \in Sets, ListBlockDevices(s)
        PROVE  ListedInv' /\ AgeInv'
    <2>1. /\ valid' = {} /\ pc' = "listed" /\ set' = s /\ UNCHANGED <<at, use>>
          /\ rows' = [k \in KNames |-> Live(k)] /\ signed' = {d \in Disks : use[d] = "signed"}
      BY <1>5 DEF ListBlockDevices, ListedInv
    <2>2. \A k : Live(k)' = Live(k)
      BY <2>1 DEF Live
    <2> QED
      BY <2>1, <2>2 DEF ListedInv, AgeInv
  <1>6. CASE getValidDevices
    <2>1. /\ pc = "listed" /\ pc' = "process" /\ UNCHANGED <<at, use, set, rows, signed, undisturbed>>
          /\ valid' = {k \in Matched : Passes(BlockDevice(k)) /\ isOlderThan(k)}
          /\ seen' = [k \in KNames |-> IF k \in Matched /\ seen[k] = Nil THEN 0 ELSE seen[k]]
      BY <1>6 DEF getValidDevices, storeDeviceAge
    <2>2. ListedInv'
      BY <1>1, <2>1 DEF ListedInv
    <2>3. AgeInv'
      BY <2>1 DEF AgeInv, isOlderThan, Matched
    <2> QED
      BY <2>2, <2>3
  <1>7. ASSUME NEW k \in KNames, ProcessDevice(k)
        PROVE  ListedInv' /\ AgeInv'
    <2>1. valid' \subseteq valid /\ UNCHANGED <<at, use, seen, pc, set, rows, signed, undisturbed>>
      BY <1>7 DEF ProcessDevice
    <2>2. pc = "process"
      BY <1>7 DEF ProcessDevice
    <2> QED
      BY <1>1, <2>1, <2>2 DEF ListedInv, AgeInv, isOlderThan
  <1>8. CASE UNCHANGED vars
    BY <1>1, <1>8 DEF vars, ListedInv, AgeInv, isOlderThan
  <1>9. ASSUME NEW d \in Disks, Detach(d) \/ UseDisk(d) \/ \E k \in KNames : Attach(d, k)
        PROVE  Disturb /\ UNCHANGED reconcileVars
    BY <1>9 DEF Detach, UseDisk, Attach
  <1> QED
    BY <1>2, <1>3, <1>4, <1>5, <1>6, <1>7, <1>8, <1>9 DEF Next, Process

\* A disk that gets a symlink is under a valid name, and nobody has it open.
LEMMA ClaimStep ==
    ASSUME TypeOK, ListedInv, [Next]_vars, NEW s \in Sets, NEW d \in Disks, Claims(s, d)
    PROVE  \E k \in KNames : /\ ProcessDevice(k) /\ k \in valid /\ pc = "process"
                             /\ ~Claimed(k) /\ ~MaxCountReached /\ d \notin links[set]
                             /\ s = set /\ d = Live(k) /\ at[d] = k
                             /\ links' = [links EXCEPT ![set] = @ \cup {d}]
  <1>1. links' # links
    BY DEF Claims
  <1>2. PICK k \in KNames : ProcessDevice(k)
    BY <1>1
       DEF Next, Process, vars, Detach, UseDisk, Attach, Tick, Restart, ReconcileFails,
           getValidDevices, Requeue, ListBlockDevices, reconcileVars
  <1>3. /\ pc = "process" /\ k \in valid /\ ~Claimed(k) /\ ~MaxCountReached
        /\ links' = [links EXCEPT ![set] = @ \cup {Live(k)}]
    BY <1>1, <1>2 DEF ProcessDevice
  <1>4. links \in [Sets -> SUBSET Disks] /\ set \in Sets
    BY <1>3 DEF TypeOK, ListedInv
  <1>5. s = set /\ d = Live(k) /\ d \notin links[set]
    BY <1>3, <1>4 DEF Claims
  <1> QED
    BY <1>2, <1>3, <1>5, LiveLemma

\* While no disk was detached, names keep their disks and limits are kept.
LEMMA StayStep ==
    ASSUME TypeOK, ListedInv, StayInv, [Next]_vars
    PROVE  StayInv'
  <1> USE SelectionConstants, MatchingConstants
  <1>0. SUFFICES ASSUME detached' = 0
                 PROVE  StayInv'
    BY DEF StayInv
  <1>1. /\ at \in [Disks -> KNames \cup {Nil}] /\ rows \in [KNames -> Disks \cup {Nil}]
        /\ links \in [Sets -> SUBSET Disks] /\ detached \in Nat
        /\ pc # "idle" => set \in Sets
    BY DEF TypeOK, ListedInv
  <1>2. ASSUME UNCHANGED <<at, links>>, detached = 0
        PROVE  \A s \in Sets : InCount(s)' /\ \A d \in links'[s] : at'[d] # Nil
    BY <1>2 DEF InCount, StayInv
  <1>3. ASSUME NEW d \in Disks, NEW k \in KNames, Attach(d, k)
        PROVE  StayInv'
    <2>1. /\ at[d] = Nil /\ at' = [at EXCEPT ![d] = k] /\ detached = 0
          /\ UNCHANGED <<aged, seen, links, pc, set, rows, valid, detached>>
      BY <1>0, <1>3 DEF Attach, reconcileVars, bounds
    <2>2. \A e \in Disks : at[e] # Nil => at'[e] = at[e]
      BY <1>1, <2>1
    <2>3. \A s \in Sets : \A e \in links[s] : e \in Disks /\ at[e] # Nil /\ at'[e] = at[e]
      BY <1>1, <2>1, <2>2 DEF StayInv
    <2>4. ASSUME NEW s \in Sets
          PROVE  InCount(s)'
      <3>1. {e \in links'[s] : at'[e] # Nil} = {e \in links[s] : at[e] # Nil}
        BY <2>1, <2>3
      <3> QED
        BY <2>1, <3>1 DEF InCount, StayInv
    <2>5. \A j \in KNames : rows'[j] # Nil => at'[rows'[j]] = j
      BY <1>1, <2>1, <2>2 DEF StayInv
    <2>6. \A j \in KNames : seen'[j] # Nil => \E e \in Disks : at'[e] = j /\ aged'[e] >= seen'[j]
      BY <2>1, <2>2 DEF StayInv
    <2>7. pc' # "idle" => \A e \in links'[set'] : rows'[at'[e]] # Nil
      BY <1>1, <2>1, <2>3 DEF StayInv
    <2> QED
      BY <2>1, <2>3, <2>4, <2>5, <2>6, <2>7 DEF StayInv
  <1>4. ASSUME NEW d \in Disks, Detach(d)
        PROVE  FALSE
    BY <1>0, <1>1, <1>4 DEF Detach
  <1>5. ASSUME UNCHANGED <<at, aged, seen, links, pc, set, rows, valid, detached>>
        PROVE  StayInv'
    BY <1>2, <1>5 DEF StayInv, InCount
  <1>6. CASE Tick
    <2>1. /\ UNCHANGED <<at, links, pc, set, rows, valid, detached>> /\ detached = 0
          /\ aged' = [d \in Disks |-> IF at[d] = Nil THEN 0 ELSE Older(aged[d])]
          /\ seen' = [k \in KNames |-> IF seen[k] = Nil THEN Nil ELSE Older(seen[k])]
      BY <1>0, <1>6 DEF Tick, bounds
    <2>2. \A a, b \in Ages : a >= b => Older(a) >= Older(b)
      BY DEF Ages, Old, Older
    <2>3. ASSUME NEW k \in KNames, seen'[k] # Nil
          PROVE  \E d \in Disks : at'[d] = k /\ aged'[d] >= seen'[k]
      <3>1. seen[k] # Nil /\ seen'[k] = Older(seen[k]) /\ seen[k] \in Ages
        BY <2>1, <2>3 DEF TypeOK
      <3>2. PICK d \in Disks : at[d] = k /\ aged[d] >= seen[k]
        BY <2>1, <3>1 DEF StayInv
      <3>3. aged'[d] = Older(aged[d]) /\ aged[d] \in Ages
        BY <2>1, <3>2 DEF TypeOK
      <3> QED
        BY <2>1, <2>2, <3>1, <3>2, <3>3
    <2> QED
      BY <1>2, <2>1, <2>3 DEF StayInv
  <1>7. CASE Restart \/ ReconcileFails \/ Requeue
    <2>1. /\ UNCHANGED <<at, aged, links, detached>> /\ detached = 0 /\ pc' = "idle" /\ valid' = {}
          /\ rows' = [k \in KNames |-> Nil] /\ seen' \in {seen, [k \in KNames |-> Nil]}
      BY <1>0, <1>7 DEF Restart, ReconcileFails, Requeue, Idle, bounds
    <2> QED
      BY <1>2, <2>1 DEF StayInv
  <1>8. ASSUME NEW s \in Sets, ListBlockDevices(s)
        PROVE  StayInv'
    <2>1. /\ UNCHANGED <<at, aged, seen, links, detached>> /\ detached = 0 /\ valid' = {}
          /\ set' = s /\ rows' = [k \in KNames |-> Live(k)]
      BY <1>0, <1>8 DEF ListBlockDevices, ListedInv, bounds
    <2>2. \A k \in KNames : rows'[k] # Nil => at'[rows'[k]] = k
      BY <2>1, LiveLemma
    <2>3. ASSUME NEW d \in links[s]
          PROVE  rows'[at'[d]] # Nil
      <3>1. d \in Disks /\ at[d] \in KNames
        BY <1>1, <2>1 DEF StayInv
      <3>2. Live(at[d]) = d
        BY <3>1, LiveLemma
      <3> QED
        BY <2>1, <3>1, <3>2
    <2> QED
      BY <1>2, <2>1, <2>2, <2>3 DEF StayInv
  <1>9. CASE getValidDevices
    <2>1. /\ UNCHANGED <<at, aged, links, set, rows, detached>> /\ detached = 0 /\ pc = "listed"
          /\ valid' \subseteq Matched
          /\ seen' = [k \in KNames |-> IF k \in Matched /\ seen[k] = Nil THEN 0 ELSE seen[k]]
      BY <1>0, <1>9 DEF getValidDevices, storeDeviceAge, bounds
    <2>2. \A k \in Matched : k \in KNames /\ rows[k] # Nil
      BY DEF Matched
    <2>3. ASSUME NEW k \in KNames, seen'[k] # Nil
          PROVE  \E d \in Disks : at'[d] = k /\ aged'[d] >= seen'[k]
      <3>1. CASE seen[k] # Nil
        BY <2>1, <3>1 DEF StayInv
      <3>2. CASE seen[k] = Nil
        <4>1. rows[k] \in Disks /\ at[rows[k]] = k /\ seen'[k] = 0
          BY <1>1, <2>1, <2>2, <2>3, <3>2 DEF StayInv
        <4>2. aged[rows[k]] \in Ages
          BY <4>1 DEF TypeOK
        <4> QED
          BY <2>1, <4>1, <4>2 DEF Ages, Old
      <3> QED
        BY <3>1, <3>2
    <2> QED
      BY <1>2, <2>1, <2>2, <2>3 DEF StayInv
  <1>10. ASSUME NEW k \in KNames, ProcessDevice(k), links' # links
         PROVE  StayInv'
    <2>1. PICK s \in Sets, d \in Disks : Claims(s, d)
      <3>1. ~Claimed(k) /\ links' = [links EXCEPT ![set] = @ \cup {Live(k)}] /\ set \in Sets
        BY <1>1, <1>10 DEF ProcessDevice
      <3>2. Live(k) \in Disks
        BY <3>1, LiveLemma DEF Claimed
      <3>3. links'[set] = links[set] \cup {Live(k)} /\ Live(k) \notin links[set]
        BY <1>1, <3>1 DEF Claimed
      <3> QED
        BY <3>1, <3>2, <3>3 DEF Claims
    <2>2. PICK j \in KNames :
              /\ j \in valid /\ pc = "process" /\ ~MaxCountReached /\ d \notin links[set]
              /\ s = set /\ at[d] = j /\ links' = [links EXCEPT ![set] = @ \cup {d}]
      BY <2>1, ClaimStep
    <2>3. /\ UNCHANGED <<at, aged, seen, pc, set, rows, detached>> /\ detached = 0
          /\ valid' \subseteq valid
      BY <1>0, <1>10 DEF ProcessDevice, bounds
    <2>4. /\ links'[set] = links[set] \cup {d}
          /\ \A t \in Sets : t # set => links'[t] = links[t]
      BY <1>1, <2>2
    <2>5. rows[at[d]] # Nil /\ at[d] # Nil
      BY <2>2, <2>3 DEF StayInv
    <2>6. \A t \in Sets : \A e \in links'[t] : at'[e] # Nil
      BY <2>3, <2>4, <2>5 DEF StayInv
    <2>7. \A e \in links'[set'] : rows'[at'[e]] # Nil
      BY <2>2, <2>3, <2>4, <2>5 DEF StayInv
    <2>8. ASSUME NEW t \in Sets
          PROVE  InCount(t)'
      <3>1. {e \in links[t] : at[e] # Nil} = links[t] /\ {e \in links'[t] : at'[e] # Nil} = links'[t]
        BY <2>3, <2>6 DEF StayInv
      <3>2. CASE t # set
        BY <2>3, <2>4, <3>1, <3>2 DEF InCount, StayInv
      <3>3. CASE t = set /\ MaxDeviceCount[set] # Nil
        <4>1. {e \in links[set] : at[e] # Nil /\ rows[at[e]] # Nil} = links[set]
          BY <2>2, <2>3 DEF StayInv
        <4>2. IsFiniteSet(links[set])
          BY <1>1, <2>2, FS_Subset
        <4>3. /\ Cardinality(links[set]) \in Nat
              /\ Cardinality(links[set] \cup {d}) = Cardinality(links[set]) + 1
          BY <2>2, <4>2, FS_CardinalityType, FS_AddElement
        <4>4. MaxDeviceCount[set] \in Nat /\ ~(Cardinality(links[set]) >= MaxDeviceCount[set])
          BY <2>2, <3>3, <4>1 DEF MaxCountReached, getAlreadySymlinked
        <4>5. Cardinality(links'[set]) <= MaxDeviceCount[set]
          BY <2>4, <4>3, <4>4
        <4> QED
          BY <3>1, <3>3, <4>5 DEF InCount
      <3>4. CASE t = set /\ MaxDeviceCount[set] = Nil
        BY <3>4 DEF InCount
      <3> QED
        BY <3>2, <3>3, <3>4
    <2> QED
      BY <2>3, <2>6, <2>7, <2>8 DEF StayInv
  <1>11. ASSUME NEW k \in KNames, ProcessDevice(k), links' = links
         PROVE  StayInv'
    <2>1. /\ UNCHANGED <<at, aged, seen, pc, set, rows, detached>> /\ detached = 0
          /\ valid' \subseteq valid
      BY <1>0, <1>11 DEF ProcessDevice, bounds
    <2> QED
      BY <1>2, <1>11, <2>1 DEF StayInv
  <1>12. ASSUME UNCHANGED vars \/ \E d \in Disks : UseDisk(d)
         PROVE  UNCHANGED <<at, aged, seen, links, pc, set, rows, valid, detached>>
    BY <1>12 DEF vars, bounds, UseDisk, reconcileVars
  <1> QED
    BY <1>3, <1>4, <1>5, <1>6, <1>7, <1>8, <1>9, <1>10, <1>11, <1>12 DEF Next, Process

\* All together, at first ...
LEMMA PickInit == Init => PickInv
  <1> SUFFICES ASSUME Init PROVE PickInv
    OBVIOUS
  <1>1. TypeOK
    BY PickTypeInit
  <1>2. ListedInv /\ AgeInv
    BY DEF Init, ListedInv, AgeInv
  <1>3. ASSUME NEW s \in Sets
        PROVE  InCount(s)
    <2>1. {d \in links[s] : at[d] # Nil} = {}
      BY DEF Init
    <2>2. Cardinality({d \in links[s] : at[d] # Nil}) = 0
      BY <2>1, FS_EmptySet
    <2>3. MaxDeviceCount[s] = Nil \/ 0 <= MaxDeviceCount[s]
      BY SelectionConstants
    <2> QED
      BY <2>2, <2>3 DEF InCount
  <1>4. StayInv
    BY <1>3 DEF Init, StayInv
  <1> QED
    BY <1>1, <1>2, <1>4 DEF PickInv

\* ... and after every step.
LEMMA PickStep == PickInv /\ [Next]_vars => PickInv'
  BY PickTypeStep, ListedStep, StayStep DEF PickInv

(***************************************************************************)
(* While no disk was detached, the LocalVolumeSet reconciler gives no more *)
(* disks of the node a symlink of a set than its MaxDeviceCount: the       *)
(* symlinks that getAlreadySymlinked counts are all that there are.        *)
(***************************************************************************)
THEOREM CountIsRespected == Spec => []CountRespected
  <1>1. PickInv => CountRespected
    BY DEF PickInv, StayInv, CountRespected
  <1> QED
    BY <1>1, PickInit, PickStep, PTL DEF Spec

(***************************************************************************)
(* A disk that the LocalVolumeSet reconciler gives a symlink matches the   *)
(* set and is free, if nothing changed since the disks were listed: names  *)
(* that are used again between two listings do not matter, as each         *)
(* Reconcile goes by its own listing.                                      *)
(***************************************************************************)
THEOREM ClaimedIsFree == Spec => ClaimsOnlyFree
  <1> DEFINE P == \A s \in Sets, d \in Disks :
                      Claims(s, d) /\ undisturbed => Matches(s, d) /\ use[d] = "free"
  <1>1. ASSUME PickInv, [Next]_vars, NEW s \in Sets, NEW d \in Disks, Claims(s, d), undisturbed
        PROVE  Matches(s, d) /\ use[d] = "free"
    <2> USE <1>1 DEF PickInv
    <2>1. PICK k \in KNames : /\ k \in valid /\ pc = "process" /\ ~Claimed(k)
                              /\ s = set /\ d = Live(k) /\ at[d] = k
      BY ClaimStep
    <2>2. /\ rows[k] = d /\ signed = {e \in Disks : use[e] = "signed"}
          /\ k \in Matched /\ Passes(BlockDevice(k))
      BY <2>1 DEF ListedInv
    <2>3. use[d] = "free"
      <3>1. use[d] \in {"free", "signed", "open"} /\ use[d] # "open"
        BY <2>1 DEF TypeOK, Claimed
      <3>2. d \notin signed
        BY <2>2, RowFields DEF Passes
      <3> QED
        BY <2>2, <3>1, <3>2
    <2>4. Matches(s, d)
      <3> DEFINE row == [Attributes[d] EXCEPT !.kname = at[d]]
      <3>1. /\ row.kname = k /\ row.size = Attributes[d].size /\ row.type = Attributes[d].type
            /\ row.rota = Attributes[d].rota
            /\ row.vendor = Attributes[d].vendor /\ row.model = Attributes[d].model
        BY <2>1, SelectionConstants DEF Fields
      <3>2. /\ row.kname = BlockDevice(k).kname /\ row.size = BlockDevice(k).size
            /\ row.type = BlockDevice(k).type /\ row.rota = BlockDevice(k).rota
            /\ row.vendor = BlockDevice(k).vendor /\ row.model = BlockDevice(k).model
        BY <2>2, <3>1, RowFields
      <3>3. matchesDeviceSpec(BlockDevice(k), InclusionSpec[s], DeviceNameFilter[s])
        BY <2>1, <2>2 DEF Matched
      <3> HIDE DEF row
      <3>4. matchesDeviceSpec(row, InclusionSpec[s], DeviceNameFilter[s])
        BY <3>2, <3>3
           DEF matchesDeviceSpec, inSizeRange, inTypeList, inMechanicalPropertyList, inVendorList,
               inModelList, notInDeviceNameFilter
      <3> QED
        BY <3>4 DEF Matches, row
    <2> QED
      BY <2>3, <2>4
  <1>2. PickInv /\ [Next]_vars => [P]_links
    BY <1>1
  <1> QED
    BY <1>2, PickInit, PickStep, PTL DEF Spec, ClaimsOnlyFree

(***************************************************************************)
(* While no disk was detached, the LocalVolumeSet reconciler gives a disk  *)
(* a symlink only when the disk has been attached for deviceMinAge: the    *)
(* age that storeDeviceAge keeps for its kernel name is not more.          *)
(***************************************************************************)
THEOREM ClaimedIsAged == Spec => AgedBeforeClaim
  <1> DEFINE P == \A s \in Sets, d \in Disks : Claims(s, d) /\ detached = 0 => aged[d] > MinAge
  <1>1. ASSUME PickInv, [Next]_vars, NEW s \in Sets, NEW d \in Disks, Claims(s, d), detached = 0
        PROVE  aged[d] > MinAge
    <2> USE <1>1 DEF PickInv
    <2>1. PICK k \in KNames : k \in valid /\ at[d] = k /\ d = Live(k)
      BY ClaimStep
    <2>2. seen[k] # Nil /\ seen[k] > MinAge
      BY <2>1 DEF AgeInv, isOlderThan
    <2>3. PICK e \in Disks : at[e] = k /\ aged[e] >= seen[k]
      BY <2>1, <2>2 DEF StayInv
    <2>4. e = d
      BY <2>1, <2>3, LiveLemma
    <2>5. aged[d] \in Nat /\ seen[k] \in Nat
      BY <2>2, SelectionConstants DEF TypeOK, Ages, Old
    <2> QED
      BY <2>2, <2>3, <2>4, <2>5, SelectionConstants
  <1>2. PickInv /\ [Next]_vars => [P]_links
    BY <1>1
  <1> QED
    BY <1>2, PickInit, PickStep, PTL DEF Spec, AgedBeforeClaim
=============================================================================

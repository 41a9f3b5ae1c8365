--------------------------- MODULE DiscoveryProofs ---------------------------
(***************************************************************************)
(* Proofs about discovery: about DiscoveryController for any finite set of *)
(* nodes and any number of edits, of calls that fail and of nodes that are *)
(* lost, and about DiscoveryDaemon for any devices, changes, failures and  *)
(* restarts.                                                               *)
(***************************************************************************)
EXTENDS DiscoveryController, FiniteSetTheorems, TLAPS

\* What a leaf is tried with, if it does not say.
USE ZenonT(5), SMTT(30), Z3T(30), ZenonT(30)

PodsOnNodes == \A n \in Nodes : pods[n] # {} => n \in alive

(***************************************************************************)
(* The instance that is handled is the LocalVolumeDiscovery, or there is   *)
(* another request.                                                        *)
(***************************************************************************)
InstanceInv == pc # "idle" => lvd = instance \/ queued

PhaseInv ==
    \A l \in {lvd, instance} :
        l.status.message[1] \in {"running", "success"} => l.status.phase = "Discovering"

(***************************************************************************)
(* Reconcile drops the error of writing the DaemonSet, but not its report: *)
(* the count replaces the message, and a message that is replaced makes a  *)
(* request.  So what is handled to the end without another request has     *)
(* the DaemonSet as selected, and reports what was counted.                *)
(***************************************************************************)
CountInv == pc = "count" => ds = instance.sel \/ instance.status.message = Failed

DoneInv ==
    ~queued /\ pc \in {"idle", "orphans", "delete"} =>
        /\ ds = lvd.sel /\ lvd.status.message = Message
        /\ counted.desired = counted.ready /\ counted.desired # {}

ControllerInv == TypeOK /\ PodsOnNodes /\ InstanceInv /\ PhaseInv /\ CountInv /\ DoneInv

(***************************************************************************)
(* A selector that was changed at most once was never changed back.  The   *)
(* daemons of the present one were started for an instance that selects    *)
(* it, and no instance after that deletes their results.                   *)
(***************************************************************************)
ResultInv ==
    /\ lvd.gen = 1 => /\ instance.sel = lvd.sel /\ ds \in {{}, lvd.sel}
                      /\ \A n \in Nodes : pods[n] \in {{}, lvd.sel}
    /\ lvd.gen <= 2 =>
           /\ ds = lvd.sel => instance.sel = lvd.sel
           /\ \A n \in Nodes : pods[n] = lvd.sel =>
                  instance.sel = lvd.sel /\ n \in lvd.sel \cap results

HasResultInv == ControllerInv /\ ResultInv

-----------------------------------------------------------------------------
(* Messages.                                                               *)

\* The message that Reconcile derives from the count is not the one of a DaemonSet
\* that could not be written, and it is of success when all daemons are ready.
LEMMA MessageLemma ==
    ASSUME TypeOK
    PROVE  /\ Message \in Messages /\ Failed \in Messages
           /\ Message[1] \in {"unscheduled", "running", "success"} /\ Message # Failed
           /\ Phase \in {"Discovering", "DiscoveryFailed"}
           /\ Message[1] \in {"running", "success"} => Phase = "Discovering"
           /\ counted.desired = counted.ready /\ counted.desired # {} =>
                  Message = <<"success", Cardinality(counted.ready), Cardinality(counted.ready)>>
  <1> DEFINE d == Cardinality(counted.desired)
             r == Cardinality(counted.ready)
             N == Cardinality(Nodes)
  <1>1. counted.desired \in SUBSET Nodes /\ counted.ready \in SUBSET Nodes
    BY DEF TypeOK
  <1>2. IsFiniteSet(Nodes) /\ N \in Nat
    BY ControllerConstants, FS_CardinalityType
  <1>3. IsFiniteSet(counted.desired) /\ IsFiniteSet(counted.ready) /\ d <= N /\ r <= N
    BY <1>1, <1>2, FS_Subset
  <1>4. d \in Nat /\ r \in Nat /\ (d = 0 <=> counted.desired = {})
    BY <1>3, FS_CardinalityType, FS_EmptySet
  <1>5. d \in 0..N /\ r \in 0..N /\ 0 \in 0..N
    BY <1>2, <1>3, <1>4
  <1>6. Message = IF d = 0 THEN <<"unscheduled", 0, 0>>
                  ELSE IF d # r THEN <<"running", r, d>> ELSE <<"success", d, r>>
    BY DEF Message
  <1>7. counted.desired = counted.ready => d = r
    OBVIOUS
  <1> HIDE DEF d, r, N
  <1>8. Message \in Messages /\ Failed \in Messages
    BY <1>5, <1>6 DEF Messages, Failed, N
  <1>9. Message[1] \in {"unscheduled", "running", "success"} /\ Message # Failed
    BY <1>6 DEF Failed
  <1>10. counted.desired = counted.ready /\ counted.desired # {} =>
             Message = <<"success", Cardinality(counted.ready), Cardinality(counted.ready)>>
    BY <1>4, <1>6, <1>7 DEF r
  <1> QED
    BY <1>8, <1>9, <1>10 DEF Phase

\* A status that is not refused is written to the object and to the instance, or
\* has been there before.
LEMMA StatusWritten ==
    ASSUME TypeOK, NEW m \in Messages, NEW phase \in {"Discovering", "DiscoveryFailed"},
           ~Refused(m), WriteStatus(m, phase)
    PROVE  /\ lvd' \in Discovery /\ instance' \in Discovery
           /\ lvd'.sel = lvd.sel /\ instance'.sel = instance.sel
           /\ lvd'.gen = lvd.gen
           /\ instance'.status.message = m
           /\ Differs(m) => lvd' = instance' /\ instance'.status.phase = phase
           /\ ~Differs(m) => UNCHANGED <<lvd, instance>>
  <1>1. lvd \in Discovery /\ instance \in Discovery
    BY DEF TypeOK
  <1>2. CASE ~Differs(m)
    BY <1>1, <1>2 DEF WriteStatus, Differs
  <1>3. CASE Differs(m)
    <2>1. lvd = instance
      BY <1>3 DEF Refused, Unchanged
    <2>2. instance' = [instance EXCEPT !.status = NewStatus(m, phase)] /\ lvd' = instance'
      BY <1>3 DEF WriteStatus
    <2>3. NewStatus(m, phase) \in Status
      BY <1>1, ControllerConstants DEF NewStatus, Status, Discovery
    <2>4. /\ instance' \in Discovery /\ instance'.sel = instance.sel
          /\ instance'.gen = instance.gen /\ instance'.status = NewStatus(m, phase)
      BY <1>1, <2>2, <2>3 DEF Discovery
    <2> QED
      BY <1>3, <2>1, <2>2, <2>4 DEF NewStatus
  <1> QED
    BY <1>2, <1>3

-----------------------------------------------------------------------------
(* The controller.                                                         *)

\* At first a request is waiting.
LEMMA ControllerInit == Init => ControllerInv
  <1> SUFFICES ASSUME Init PROVE ControllerInv
    OBVIOUS
  <1>1. PICK sel \in Selectors : lvd = [sel |-> sel, gen |-> 1, status |-> NoStatus]
    BY DEF Init
  <1>2. Cardinality(Nodes) \in Nat
    BY ControllerConstants, FS_CardinalityType
  <1>3. NoStatus \in Status
    BY <1>2, ControllerConstants DEF NoStatus, Status, Messages
  <1>4. lvd \in Discovery /\ instance = lvd /\ lvd.status = NoStatus
    BY <1>1, <1>3, ControllerConstants DEF Init, Discovery
  <1>5. TypeOK
    BY <1>4, ControllerConstants DEF Init, TypeOK
  <1>6. PodsOnNodes /\ InstanceInv /\ CountInv /\ DoneInv
    BY DEF Init, PodsOnNodes, InstanceInv, CountInv, DoneInv
  <1>7. PhaseInv
    BY <1>4 DEF PhaseInv, NoStatus
  <1> QED
    BY <1>5, <1>6, <1>7 DEF ControllerInv

\* What users, nodes and the DaemonSet controller do: whatever the status depends on
\* makes a request.
LEMMA OthersStep ==
    ASSUME ControllerInv,
           \/ EditSelector \/ CountPods
           \/ \E n \in Nodes : LoseNode(n) \/ StartPod(n) \/ StopPod(n)
    PROVE  ControllerInv'
  <1> USE DEF ControllerInv
  <1>1. lvd \in Discovery /\ instance \in Discovery
    BY DEF TypeOK
  <1>2. CASE EditSelector
    <2>1. PICK sel \in Selectors : lvd' = [lvd EXCEPT !.sel = sel, !.gen = @ + 1]
      BY <1>2 DEF EditSelector
    <2>2. lvd.gen + 1 \in 1..MaxEdits + 1
      <3>1. MaxEdits \in Nat /\ lvd.gen \in 1..MaxEdits + 1
        BY <1>1, ControllerConstants DEF Discovery
      <3>2. lvd.gen <= MaxEdits
        BY <1>2 DEF EditSelector
      <3> QED
        BY <3>1, <3>2
    <2>3. lvd' \in Discovery /\ lvd'.status = lvd.status
      BY <1>1, <2>1, <2>2, ZenonT(60) DEF Discovery
    <2>4. queued' /\ UNCHANGED <<ds, counted, pods, results, alive, pc, instance, todo, fails>>
      BY <1>2 DEF EditSelector
    <2>5. TypeOK'
      BY <1>1, <1>2, <2>3, <2>4, ZenonT(60) DEF EditSelector, TypeOK
    <2>6. PodsOnNodes' /\ InstanceInv' /\ CountInv' /\ DoneInv'
      BY <2>4 DEF PodsOnNodes, InstanceInv, CountInv, DoneInv
    <2>7. PhaseInv'
      BY <2>3, <2>4 DEF PhaseInv
    <2> QED
      BY <2>5, <2>6, <2>7
  <1>3. CASE CountPods
    <2>1. counted' = CurrentCount /\ queued'
          /\ UNCHANGED <<lvd, ds, pods, results, alive, pc, instance, todo, fails>>
      BY <1>3 DEF CountPods
    <2>2. ds \in SUBSET Nodes /\ Running \in SUBSET Nodes /\ alive \in SUBSET Nodes
      BY DEF TypeOK, Running
    <2>3. Running \cap ds \subseteq ds \cap alive
      BY DEF Running, PodsOnNodes
    <2>4. /\ counted' \in [desired : SUBSET Nodes, ready : SUBSET Nodes]
          /\ counted'.ready \subseteq counted'.desired
      BY <2>1, <2>2, <2>3 DEF CurrentCount
    <2>5. TypeOK'
      BY <1>3, <2>1, <2>4 DEF CountPods, TypeOK
    <2> QED
      BY <2>1, <2>5 DEF PodsOnNodes, InstanceInv, PhaseInv, CountInv, DoneInv
  <1>4. ASSUME NEW n \in Nodes, LoseNode(n) \/ StartPod(n) \/ StopPod(n)
        PROVE  ControllerInv'
    <2>1. UNCHANGED <<lvd, ds, counted, queued, pc, instance, todo, fails>>
      BY <1>4 DEF LoseNode, StartPod, StopPod
    <2>2. InstanceInv' /\ PhaseInv' /\ CountInv' /\ DoneInv'
      BY <2>1 DEF InstanceInv, PhaseInv, CountInv, DoneInv, Message
    <2>3. TypeOK' /\ PodsOnNodes'
      BY <1>4, <2>1 DEF LoseNode, StartPod, StopPod, TypeOK, PodsOnNodes
    <2> QED
      BY <2>2, <2>3
  <1> QED
    BY <1>2, <1>3, <1>4

\* What Reconcile does.
LEMMA ReconcileStep ==
    ASSUME ControllerInv, Reconcile
    PROVE  ControllerInv'
  <1> USE DEF ControllerInv
  <1>1. lvd \in Discovery /\ instance \in Discovery
    BY DEF TypeOK
  <1>2. MaxFails \in Nat /\ (CallFails => fails' \in 0..MaxFails)
    BY ControllerConstants DEF TypeOK, CallFails
  <1>3. ASSUME UNCHANGED <<pods, alive>>
        PROVE  PodsOnNodes'
    BY <1>3 DEF PodsOnNodes
  <1>4. ASSUME UNCHANGED <<lvd, instance>>
        PROVE  PhaseInv'
    BY <1>4 DEF PhaseInv
  <1>5. ASSUME Retry
        PROVE  InstanceInv' /\ CountInv' /\ DoneInv' /\ pc' = "idle" /\ queued' = TRUE /\ todo' = {}
    BY <1>5 DEF Retry, InstanceInv, CountInv, DoneInv
  <1>6. CASE Begin
    BY <1>3, <1>6 DEF Begin, apiVars, TypeOK, InstanceInv, PhaseInv, CountInv, DoneInv
  <1>7. CASE EnableMetrics
    <2>1. UNCHANGED <<lvd, ds, counted, pods, results, alive, instance>>
      BY <1>7 DEF EnableMetrics, apiVars
    <2>2. CASE pc' = "daemonSet" /\ UNCHANGED <<queued, todo, fails>>
      BY <1>3, <1>4, <1>7, <2>1, <2>2 DEF EnableMetrics, TypeOK, InstanceInv, CountInv, DoneInv
    <2>3. CASE CallFails /\ Retry
      BY <1>2, <1>3, <1>4, <1>5, <2>1, <2>3 DEF TypeOK
    <2> QED
      BY <1>7, <2>2, <2>3 DEF EnableMetrics
  <1>8. CASE ReconcileDaemonSet
    <2>1. pc = "daemonSet" /\ UNCHANGED <<counted, pods, results, alive>>
      BY <1>8 DEF ReconcileDaemonSet
    <2>2. CASE ds' = instance.sel /\ pc' = "count" /\ UNCHANGED <<lvd, instance, queued, todo, fails>>
      <3>1. instance.sel \in SUBSET Nodes
        BY <1>1 DEF Discovery, Selectors
      <3> QED
        BY <1>3, <1>4, <2>1, <2>2, <3>1 DEF TypeOK, InstanceInv, CountInv, DoneInv
    <2>3. CASE /\ CallFails /\ ds' = ds
               /\ ~Refused(Failed) /\ WriteStatus(Failed, "DiscoveryFailed")
               /\ pc' = "count" /\ queued' = (queued \/ Differs(Failed)) /\ todo' = todo
      <3>1. /\ lvd' \in Discovery /\ instance' \in Discovery
            /\ instance'.status.message = Failed
            /\ Differs(Failed) => lvd' = instance' /\ instance'.status.phase = "DiscoveryFailed"
            /\ ~Differs(Failed) => UNCHANGED <<lvd, instance>>
        BY <2>3, StatusWritten, MessageLemma
      <3>2. TypeOK'
        BY <1>2, <2>1, <2>3, <3>1 DEF TypeOK
      <3>3. InstanceInv' /\ CountInv' /\ DoneInv'
        BY <2>1, <2>3, <3>1 DEF InstanceInv, CountInv, DoneInv
      <3>4. PhaseInv'
        BY <1>4, <3>1 DEF PhaseInv, Failed
      <3> QED
        BY <1>3, <2>1, <3>2, <3>3, <3>4
    <2>4. CASE CallFails /\ ds' = ds /\ Retry /\ UNCHANGED <<lvd, instance>>
      BY <1>2, <1>3, <1>4, <1>5, <2>1, <2>4 DEF TypeOK
    <2> QED
      BY <1>8, <2>2, <2>3, <2>4 DEF ReconcileDaemonSet
  <1>9. CASE CountDaemons
    <2>1. pc = "count" /\ UNCHANGED <<ds, counted, pods, results, alive, fails>>
      BY <1>9 DEF CountDaemons
    <2>2. CASE Retry /\ UNCHANGED <<lvd, instance>>
      BY <1>3, <1>4, <1>5, <2>1, <2>2 DEF TypeOK
    <2>3. ASSUME ~Refused(Message), WriteStatus(Message, Phase)
          PROVE  /\ lvd' \in Discovery /\ instance' \in Discovery
                 /\ instance'.status.message = Message
                 /\ Differs(Message) => lvd' = instance' /\ instance'.status.phase = Phase
                 /\ ~Differs(Message) => UNCHANGED <<lvd, instance>>
                 /\ PhaseInv'
      <3>1. /\ lvd' \in Discovery /\ instance' \in Discovery
            /\ instance'.status.message = Message
            /\ Differs(Message) => lvd' = instance' /\ instance'.status.phase = Phase
            /\ ~Differs(Message) => UNCHANGED <<lvd, instance>>
        BY <2>3, StatusWritten, MessageLemma
      <3>2. Message[1] \in {"running", "success"} => Phase = "Discovering"
        BY MessageLemma
      <3>3. PhaseInv'
        BY <1>4, <3>1, <3>2 DEF PhaseInv
      <3> QED
        BY <3>1, <3>3
    <2>4. CASE ~Refused(Message) /\ WriteStatus(Message, Phase) /\ Retry
      BY <1>3, <1>5, <2>1, <2>3, <2>4 DEF TypeOK
    <2>5. CASE /\ ~Refused(Message) /\ WriteStatus(Message, Phase)
               /\ counted.desired # {} /\ counted.desired = counted.ready
               /\ pc' = "orphans" /\ queued' = (queued \/ Differs(Message)) /\ todo' = todo
      <3>1. TypeOK'
        BY <2>1, <2>3, <2>5 DEF TypeOK
      <3>2. InstanceInv' /\ CountInv'
        BY <2>1, <2>3, <2>5 DEF InstanceInv, CountInv
      <3>3. DoneInv'
        <4> SUFFICES ASSUME ~queued'
                     PROVE  /\ ds' = lvd'.sel /\ lvd'.status.message = Message'
                            /\ counted'.desired = counted'.ready /\ counted'.desired # {}
          BY DEF DoneInv
        <4>1. lvd = instance /\ UNCHANGED <<lvd, instance>> /\ instance.status.message = Message
          BY <2>1, <2>3, <2>5 DEF InstanceInv
        <4>2. ds = instance.sel
          BY <2>1, <4>1, MessageLemma DEF CountInv
        <4>3. Message' = Message
          BY <2>1 DEF Message
        <4> QED
          BY <2>1, <2>5, <4>1, <4>2, <4>3
      <3> QED
        BY <1>3, <2>1, <2>3, <2>5, <3>1, <3>2, <3>3
    <2> QED
      BY <1>9, <2>2, <2>4, <2>5 DEF CountDaemons
  <1>10. CASE ListResults \/ OrphansDone
    <2>1. UNCHANGED <<lvd, ds, counted, pods, results, alive, queued, instance, fails>>
      BY <1>10 DEF ListResults, OrphansDone, apiVars
    <2>2. TypeOK'
      BY <1>10, <2>1 DEF ListResults, OrphansDone, TypeOK
    <2>3. Message' = Message
      BY <2>1 DEF Message
    <2>4. InstanceInv' /\ CountInv' /\ DoneInv'
      BY <1>10, <2>1, <2>3 DEF ListResults, OrphansDone, InstanceInv, CountInv, DoneInv
    <2> QED
      BY <1>3, <1>4, <2>1, <2>2, <2>4
  <1>11. ASSUME NEW n \in Nodes, DeleteOrphan(n)
         PROVE  ControllerInv'
    <2>1. pc = "delete" /\ UNCHANGED <<lvd, ds, counted, pods, alive, instance>>
      BY <1>11 DEF DeleteOrphan
    <2>2. /\ results' \in {results, results \ {n}}
          /\ \/ todo' = todo \ {n} /\ UNCHANGED <<pc, queued, fails>>
             \/ Retry /\ (CallFails \/ UNCHANGED fails)
      BY <1>11 DEF DeleteOrphan
    <2>3. Message' = Message
      BY <2>1 DEF Message
    <2>4. CASE todo' = todo \ {n} /\ UNCHANGED <<pc, queued, fails>>
      BY <1>3, <1>4, <2>1, <2>2, <2>3, <2>4 DEF TypeOK, InstanceInv, CountInv, DoneInv
    <2>5. CASE Retry /\ (CallFails \/ UNCHANGED fails)
      BY <1>2, <1>3, <1>4, <1>5, <2>1, <2>2, <2>5 DEF TypeOK
    <2> QED
      BY <2>2, <2>4, <2>5
  <1> QED
    BY <1>6, <1>7, <1>8, <1>9, <1>10, <1>11 DEF Reconcile

\* Every step keeps the invariant of the controller.
LEMMA ControllerStep == ControllerInv /\ [Next]_vars => ControllerInv'
  <1>1. ASSUME ControllerInv, UNCHANGED vars
        PROVE  ControllerInv'
    BY <1>1
       DEF vars, apiVars, ControllerInv, TypeOK, PodsOnNodes, InstanceInv, PhaseInv, CountInv,
           DoneInv, Message
  <1> QED
    BY <1>1, OthersStep, ReconcileStep DEF Next

\* When nothing is left to do, the daemons run where the DaemonSet selects nodes.
LEMMA QuietPods ==
    ASSUME TypeOK, Quiet, ds # {}
    PROVE  /\ Running = ds \cap alive
           /\ \A n \in Running : pods[n] = ds
           /\ counted.ready = Running
  <1>1. \A n \in Nodes : pods[n] = IF n \in ds \cap alive THEN ds ELSE {}
    BY DEF Quiet
  <1>2. Running = ds \cap alive /\ \A n \in Running : pods[n] = ds
    BY <1>1 DEF Running, TypeOK
  <1>3. counted = CurrentCount
    BY DEF Quiet
  <1> QED
    BY <1>2, <1>3 DEF CurrentCount

(***************************************************************************)
(* What updateDiscoveryStatus wrote last is true when nothing is left to   *)
(* do: the status reports as many daemons as run, and the phase that goes  *)
(* with it, although a status is written only when its message differs,    *)
(* and although Reconcile goes on when the DaemonSet could not be written. *)
(***************************************************************************)
THEOREM StatusIsCurrent == Spec => []StatusCurrent
  <1>1. ASSUME ControllerInv, Quiet
        PROVE  /\ lvd.status.message = <<"success", Cardinality(Running), Cardinality(Running)>>
               /\ lvd.status.phase = "Discovering"
    <2> USE <1>1 DEF ControllerInv
    <2>1. /\ ds = lvd.sel /\ lvd.status.message = Message
          /\ counted.desired = counted.ready /\ counted.desired # {}
      BY DEF Quiet, DoneInv
    <2>2. ds # {}
      BY <2>1 DEF TypeOK, Discovery, Selectors
    <2>3. counted.ready = Running
      BY <2>2, QuietPods
    <2>4. lvd.status.message = <<"success", Cardinality(Running), Cardinality(Running)>>
      BY <2>1, <2>3, MessageLemma
    <2> QED
      BY <2>4 DEF PhaseInv
  <1>2. ControllerInv => StatusCurrent
    BY <1>1 DEF StatusCurrent
  <1> QED
    BY <1>2, ControllerInit, ControllerStep, PTL DEF Spec

-----------------------------------------------------------------------------
(* The results of the nodes.                                               *)

\* Every step keeps the results of daemons whose selector was not changed back.
LEMMA ResultStep == HasResultInv /\ [Next]_vars => ResultInv'
  <1> SUFFICES ASSUME ControllerInv, ResultInv, [Next]_vars
               PROVE  ResultInv'
    BY DEF HasResultInv
  <1>1. /\ lvd \in Discovery /\ instance \in Discovery /\ lvd.sel # {} /\ lvd.gen \in Nat \ {0}
        /\ pods \in [Nodes -> SUBSET Nodes]
    BY ControllerConstants DEF ControllerInv, TypeOK, Discovery, Selectors
  <1>2. CASE EditSelector
    <2>1. PICK sel \in Selectors \ {lvd.sel} : lvd' = [lvd EXCEPT !.sel = sel, !.gen = @ + 1]
      BY <1>2 DEF EditSelector
    <2>2. lvd'.sel = sel /\ lvd'.gen = lvd.gen + 1 /\ sel \notin {{}, lvd.sel}
      BY <1>1, <2>1 DEF Discovery, Selectors
    <2>3. UNCHANGED <<ds, pods, results, instance>>
      BY <1>2 DEF EditSelector
    <2>4. lvd'.gen # 1 /\ (lvd'.gen <= 2 => lvd.gen = 1)
      BY <1>1, <2>2
    <2> QED
      BY <2>2, <2>3, <2>4 DEF ResultInv
  <1>3. ASSUME NEW n \in Nodes, StartPod(n)
        PROVE  ResultInv'
    <2>1. /\ n \in ds /\ UNCHANGED <<lvd, ds, instance>> /\ results' = results \cup {n}
          /\ pods'[n] = ds /\ \A m \in Nodes : m # n => pods'[m] = pods[m]
      BY <1>1, <1>3 DEF StartPod
    <2> QED
      BY <2>1 DEF ResultInv
  <1>4. ASSUME NEW n \in Nodes, LoseNode(n) \/ StopPod(n)
        PROVE  ResultInv'
    <2>1. /\ UNCHANGED <<lvd, ds, instance, results>>
          /\ \A m \in Nodes : pods'[m] \in {{}, pods[m]}
      BY <1>1, <1>4 DEF LoseNode, StopPod
    <2> QED
      BY <1>1, <2>1 DEF ResultInv
  <1>5. ASSUME UNCHANGED <<pods, results>>, lvd'.sel = lvd.sel, lvd'.gen = lvd.gen,
               instance'.sel \in {instance.sel, lvd.sel}, ds' \in {ds, instance'.sel}
        PROVE  ResultInv'
    BY <1>5 DEF ResultInv
  <1>6. CASE Begin \/ EnableMetrics \/ ListResults \/ OrphansDone \/ CountPods \/ UNCHANGED vars
    BY <1>5, <1>6
       DEF Begin, EnableMetrics, ListResults, OrphansDone, CountPods, vars, apiVars
  <1>7. CASE ReconcileDaemonSet \/ CountDaemons
    <2>1. ASSUME NEW m \in Messages, NEW phase \in {"Discovering", "DiscoveryFailed"},
                 ~Refused(m), WriteStatus(m, phase)
          PROVE  lvd'.sel = lvd.sel /\ lvd'.gen = lvd.gen /\ instance'.sel = instance.sel
      BY <2>1, StatusWritten DEF ControllerInv
    <2>2. Message \in Messages /\ Failed \in Messages /\ Phase \in {"Discovering", "DiscoveryFailed"}
      BY MessageLemma DEF ControllerInv
    <2>3. lvd'.sel = lvd.sel /\ lvd'.gen = lvd.gen /\ instance'.sel = instance.sel
      BY <1>7, <2>1, <2>2 DEF ReconcileDaemonSet, CountDaemons
    <2>4. UNCHANGED <<pods, results>> /\ ds' \in {ds, instance.sel}
      BY <1>7 DEF ReconcileDaemonSet, CountDaemons
    <2> QED
      BY <1>5, <2>3, <2>4
  <1>8. ASSUME NEW n \in Nodes, DeleteOrphan(n)
        PROVE  ResultInv'
    <2>1. /\ UNCHANGED <<lvd, ds, pods, instance>>
          /\ results' = results \/ (n \notin instance.sel /\ results' = results \ {n})
      BY <1>8 DEF DeleteOrphan
    <2> QED
      BY <2>1 DEF ResultInv
  <1> QED
    BY <1>2, <1>3, <1>4, <1>6, <1>7, <1>8 DEF Next, Reconcile

(***************************************************************************)
(* deleteOrphanDiscoveryResults spares the daemons: when nothing is left   *)
(* to do, every node on which the daemon runs has a result to write to, if *)
(* the selector was changed at most once.  The hypothesis is part of the   *)
(* property; one that is changed back finds the result deleted.            *)
(***************************************************************************)
THEOREM DaemonsHaveResults == Spec => []DaemonHasResult
  <1>1. Init => HasResultInv
    <2>1. ASSUME Init
          PROVE  ResultInv
      <3>1. PICK sel \in Selectors : lvd = [sel |-> sel, gen |-> 1, status |-> NoStatus]
        BY <2>1 DEF Init
      <3> QED
        BY <2>1, <3>1 DEF Init, ResultInv, Selectors
    <2> QED
      BY <2>1, ControllerInit DEF HasResultInv
  <1>2. HasResultInv /\ [Next]_vars => HasResultInv'
    BY ResultStep, ControllerStep DEF HasResultInv
  <1>3. ASSUME HasResultInv, Quiet, lvd.gen <= 2
        PROVE  Running \subseteq results
    <2> USE <1>3 DEF HasResultInv, ControllerInv
    <2>1. ds = lvd.sel
      BY DEF Quiet, DoneInv
    <2>2. ds # {}
      BY <2>1 DEF TypeOK, Discovery, Selectors
    <2>3. \A n \in Running : pods[n] = lvd.sel /\ n \in Nodes
      BY <2>1, <2>2, QuietPods DEF Running
    <2> QED
      BY <2>3 DEF ResultInv
  <1>4. HasResultInv => DaemonHasResult
    BY <1>3 DEF DaemonHasResult
  <1> QED
    BY <1>1, <1>2, <1>4, PTL DEF Spec

-----------------------------------------------------------------------------
(* The daemon of a node.                                                   *)

CONSTANTS Devices, Fixed, NoResult, Excluded, MaxChanges, MaxRestarts, MaxDeletes
VARIABLES dev, result, daemon, disks, copy, monitor, lines, unseen, unwritten,
          changes, failed, restarts, deletes

Node == INSTANCE DiscoveryDaemon WITH pc <- daemon, fails <- failed

(***************************************************************************)
(* A change that was reported is on its way to the daemon, whatever the    *)
(* daemon is doing, until the daemon takes it and is about to list.        *)
(***************************************************************************)
EventInv ==
    /\ lines \in Nat
    /\ unseen = "reported" => lines > 0 \/ monitor \in {"collapse", "send", "closed"}
    /\ unseen = "taken" => daemon \in {"ensure", "first", "probe"}

(***************************************************************************)
(* The udev monitor collapses lines and waits for the daemon, which may be *)
(* anywhere in discoverDevices or be restarted: a change that is reported  *)
(* is listed, or there is still a line to read or an event to send, or the *)
(* monitor has ended or the listing that was made for the change failed.   *)
(***************************************************************************)
THEOREM NoEventIsLost == Node!Spec => []Node!NoEventLost
  <1>1. Node!Init => EventInv
    BY DEF Node!Init, EventInv
  <1>2. EventInv /\ [Node!Next]_(Node!vars) => EventInv'
    <2> SUFFICES ASSUME EventInv, [Node!Next]_(Node!vars)
                 PROVE  EventInv'
      OBVIOUS
    <2> USE DEF EventInv
    <2>1. ASSUME NEW d \in Devices, NEW st, Node!ChangeDevice(d, st)
          PROVE  EventInv'
      BY <2>1 DEF Node!ChangeDevice, Node!daemonVars
    <2>2. CASE Node!DeleteResult \/ Node!ProbeInterval \/ Node!EnsureResult
      BY <2>2 DEF Node!DeleteResult, Node!ProbeInterval, Node!EnsureResult
    <2>3. CASE Node!MonitorEnds \/ Node!Restart
      BY <2>3 DEF Node!MonitorEnds, Node!Restart, Node!Taken, Node!daemonVars
    <2>4. CASE Node!Discover \/ Node!DiscoverFails
      BY <2>4 DEF Node!Discover, Node!DiscoverFails, Node!Loop
    <2>5. CASE Node!GetResult \/ Node!WriteResult \/ Node!UpdateFails
      BY <2>5 DEF Node!GetResult, Node!WriteResult, Node!UpdateFails, Node!Loop
    <2>6. CASE Node!ReadLine \/ Node!DropLine \/ Node!PeriodEnds \/ Node!ReceiveEvent
      BY <2>6
         DEF Node!ReadLine, Node!DropLine, Node!PeriodEnds, Node!ReceiveEvent, Node!Taken,
             Node!daemonVars
    <2>7. CASE UNCHANGED Node!vars
      BY <2>7 DEF Node!vars, Node!daemonVars
    <2> QED
      BY <2>1, <2>2, <2>3, <2>4, <2>5, <2>6, <2>7 DEF Node!Next, Node!Monitor, Node!Daemon
  <1>3. EventInv => Node!NoEventLost
    BY DEF EventInv, Node!NoEventLost
  <1> QED
    BY <1>1, <1>2, <1>3, PTL DEF Node!Spec
=============================================================================

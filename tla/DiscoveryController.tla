------------------------- MODULE DiscoveryController -------------------------
(***************************************************************************)
(* The operator's controller of the LocalVolumeDiscovery: it keeps the     *)
(* discovery DaemonSet on the selected nodes, reports how many daemons are *)
(* ready, and deletes the results of nodes that are no longer selected.    *)
(*                                                                         *)
(* The DaemonSet controller of Kubernetes starts and stops the pods and    *)
(* counts them in the status of the DaemonSet; a pod that starts creates   *)
(* the result of its node if there is none (DiscoveryDaemon), and never    *)
(* again.  One worker handles the requests.                                *)
(***************************************************************************)
EXTENDS Naturals, FiniteSets

CONSTANTS
    Nodes,
    MaxEdits,  \* bound: changes of the node selector
    MaxFails,  \* bound: calls to the API server that fail
    MaxLosses  \* bound: nodes that leave the cluster

ASSUME ControllerConstants ==
    IsFiniteSet(Nodes) /\ {MaxEdits, MaxFails, MaxLosses} \subseteq Nat

VARIABLES
    lvd,      \* the LocalVolumeDiscovery: selector, generation, status
    ds,       \* the DaemonSet: its selector, or {} when there is none
    counted,  \* the status of the DaemonSet: nodes with a desired, with a ready pod
    pods,     \* the selector each daemon was started with, {} where there is none
    results,  \* the nodes with a LocalVolumeDiscoveryResult
    alive,    \* the nodes of the cluster
    queued,   \* a request is waiting
    pc, instance, todo, \* the request that is handled
    fails

apiVars == <<lvd, ds, counted, pods, results, alive>>
vars == <<apiVars, queued, pc, instance, todo, fails>>

\* A message of the status, with the two numbers in it.
Messages == {"none", "failed", "unscheduled", "running", "success"}
                \X (0..Cardinality(Nodes)) \X (0..Cardinality(Nodes))
Failed == <<"failed", 0, 0>>
Selectors == (SUBSET Nodes) \ {{}}
NoStatus == [message |-> <<"none", 0, 0>>, phase |-> "none", gen |-> 0]
Status == [message : Messages, phase : {"none", "Discovering", "DiscoveryFailed"},
           gen : 0..MaxEdits + 1]
Discovery == [sel : Selectors, gen : 1..MaxEdits + 1, status : Status]

TypeOK ==
    /\ {lvd, instance} \subseteq Discovery
    /\ {ds, results, alive, todo} \subseteq SUBSET Nodes
    /\ counted \in [desired : SUBSET Nodes, ready : SUBSET Nodes]
    /\ counted.ready \subseteq counted.desired
    /\ pods \in [Nodes -> SUBSET Nodes]
    /\ queued \in BOOLEAN
    /\ pc \in {"idle", "metrics", "daemonSet", "count", "orphans", "delete"}
    /\ fails \in 0..MaxFails

Init ==
    /\ \E sel \in Selectors : lvd = [sel |-> sel, gen |-> 1, status |-> NoStatus]
    /\ ds = {} /\ counted = [desired |-> {}, ready |-> {}]
    /\ pods = [n \in Nodes |-> {}] /\ results = {} /\ alive = Nodes
    /\ queued = TRUE /\ pc = "idle" /\ instance = lvd /\ todo = {}
    /\ fails = 0

-----------------------------------------------------------------------------
(* Users, nodes, the DaemonSet controller.                                 *)

EditSelector ==
    /\ lvd.gen <= MaxEdits
    /\ \E sel \in Selectors \ {lvd.sel} : lvd' = [lvd EXCEPT !.sel = sel, !.gen = @ + 1]
    /\ queued' = TRUE
    /\ UNCHANGED <<ds, counted, pods, results, alive, pc, instance, todo, fails>>

\* The pod goes with its node; the result stays.
LoseNode(n) ==
    /\ n \in alive /\ Cardinality(Nodes \ alive) < MaxLosses
    /\ alive' = alive \ {n} /\ pods' = [pods EXCEPT ![n] = {}]
    /\ UNCHANGED <<lvd, ds, counted, results, queued, pc, instance, todo, fails>>

StartPod(n) ==
    /\ n \in ds \cap alive /\ pods[n] = {}
    /\ pods' = [pods EXCEPT ![n] = ds] /\ results' = results \cup {n}
    /\ UNCHANGED <<lvd, ds, counted, alive, queued, pc, instance, todo, fails>>

\* The selector is part of the pods' template: a pod with another one is stopped.
StopPod(n) ==
    /\ pods[n] \notin {{}, ds}
    /\ pods' = [pods EXCEPT ![n] = {}]
    /\ UNCHANGED <<lvd, ds, counted, results, alive, queued, pc, instance, todo, fails>>

Running == {n \in Nodes : pods[n] # {}}

CurrentCount == [desired |-> ds \cap alive, ready |-> Running \cap ds]

CountPods ==
    /\ counted # CurrentCount
    /\ counted' = CurrentCount
    /\ queued' = TRUE
    /\ UNCHANGED <<lvd, ds, pods, results, alive, pc, instance, todo, fails>>

-----------------------------------------------------------------------------
(* Reconcile.                                                              *)

Begin ==
    /\ pc = "idle" /\ queued
    /\ queued' = FALSE /\ instance' = lvd /\ pc' = "metrics"
    /\ UNCHANGED <<apiVars, todo, fails>>

CallFails == fails < MaxFails /\ fails' = fails + 1
Retry == pc' = "idle" /\ queued' = TRUE /\ todo' = {}

\* Mutant: metrics that exist are an error.
EnableMetricsOnce ==
    /\ pc = "metrics"
    /\ \/ ds = {} /\ pc' = "daemonSet" /\ UNCHANGED <<queued, todo>>
       \/ ds # {} /\ Retry
    /\ UNCHANGED <<apiVars, instance, fails>>

EnableMetrics ==
    /\ pc = "metrics"
    /\ \/ pc' = "daemonSet" /\ UNCHANGED <<queued, todo, fails>>
       \/ CallFails /\ Retry
    /\ UNCHANGED <<apiVars, instance>>

\* Mutant: numbers are not compared.
DiffersInKind(message) == instance.status.message[1] # message[1]

\* updateDiscoveryStatus writes when the message differs; the write is refused if
\* the object has changed since it was read.
Differs(message) == instance.status.message # message
Unchanged == lvd = instance

NewStatus(message, phase) == [message |-> message, phase |-> phase, gen |-> instance.gen]

WriteStatus(message, phase) ==
    IF Differs(message)
    THEN /\ instance' = [instance EXCEPT !.status = NewStatus(message, phase)]
         /\ lvd' = instance'
    ELSE UNCHANGED <<lvd, instance>>

Refused(message) == Differs(message) /\ ~Unchanged

\* A DaemonSet that cannot be written is reported; Reconcile goes on and its
\* error is forgotten.  The report is itself an event.
ReconcileDaemonSet ==
    /\ pc = "daemonSet"
    /\ \/ /\ ds' = instance.sel /\ pc' = "count"
          /\ UNCHANGED <<lvd, instance, queued, todo, fails>>
       \/ /\ CallFails /\ ds' = ds
          /\ \/ ~Refused(Failed) /\ WriteStatus(Failed, "DiscoveryFailed")
                /\ pc' = "count" /\ queued' = (queued \/ Differs(Failed)) /\ todo' = todo
             \/ Refused(Failed) /\ Retry /\ UNCHANGED <<lvd, instance>>
    /\ UNCHANGED <<counted, pods, results, alive>>

\* The message that Reconcile derives from the status of the DaemonSet.
Message ==
    LET d == Cardinality(counted.desired)
        r == Cardinality(counted.ready)
    IN IF d = 0 THEN <<"unscheduled", 0, 0>>
       ELSE IF d # r THEN <<"running", r, d>>
       ELSE <<"success", d, r>>

Phase == IF Message[1] = "unscheduled" THEN "DiscoveryFailed" ELSE "Discovering"

\* Without a DaemonSet this fails.  Daemons that are not ready, and daemons that
\* are not scheduled at all, are looked at again.
CountDaemons ==
    /\ pc = "count"
    /\ \/ (ds = {} \/ Refused(Message)) /\ Retry /\ UNCHANGED <<lvd, instance>>
       \/ /\ ds # {} /\ ~Refused(Message) /\ WriteStatus(Message, Phase)
          /\ IF counted.desired = {} \/ counted.desired # counted.ready THEN Retry
             ELSE pc' = "orphans" /\ queued' = (queued \/ Differs(Message)) /\ todo' = todo
    /\ UNCHANGED <<ds, counted, pods, results, alive, fails>>

\* Mutant: only the results of running daemons are listed.
ListResultsOfDaemons ==
    /\ pc = "orphans"
    /\ todo' = results \cap Running /\ pc' = "delete"
    /\ UNCHANGED <<apiVars, queued, instance, fails>>

\* deleteOrphanDiscoveryResults lists the results (selectors are not empty here), ...
ListResults ==
    /\ pc = "orphans"
    /\ todo' = results /\ pc' = "delete"
    /\ UNCHANGED <<apiVars, queued, instance, fails>>

\* Mutant: the selector is not looked at.
DeleteOrphanAny(n) ==
    /\ pc = "delete" /\ n \in todo
    /\ results' = results \ {n} /\ todo' = todo \ {n}
    /\ UNCHANGED <<lvd, ds, counted, pods, alive, pc, queued, instance, fails>>

\* ... and deletes those of nodes that the instance it read does not select.  A
\* node that is not found, or a deletion that fails, ends this.
DeleteOrphan(n) ==
    /\ pc = "delete" /\ n \in todo
    /\ \/ /\ n \in alive
          /\ results' = IF n \in instance.sel THEN results ELSE results \ {n}
          /\ todo' = todo \ {n} /\ UNCHANGED <<pc, queued, fails>>
       \/ n \notin alive /\ Retry /\ UNCHANGED <<results, fails>>
       \/ n \in alive \ instance.sel /\ CallFails /\ Retry /\ UNCHANGED results
    /\ UNCHANGED <<lvd, ds, counted, pods, alive, instance>>

OrphansDone ==
    /\ pc = "delete" /\ todo = {}
    /\ pc' = "idle"
    /\ UNCHANGED <<apiVars, queued, instance, todo, fails>>

Reconcile ==
    \/ Begin \/ EnableMetrics \/ ReconcileDaemonSet \/ CountDaemons \/ ListResults \/ OrphansDone
    \/ \E n \in Nodes : DeleteOrphan(n)

Next ==
    \/ EditSelector \/ CountPods \/ Reconcile
    \/ \E n \in Nodes : LoseNode(n) \/ StartPod(n) \/ StopPod(n)

Spec == Init /\ [][Next]_vars

(* Requests are handled, and the DaemonSet controller does its work.         *)
Fairness ==
    /\ WF_vars(Reconcile) /\ WF_vars(CountPods)
    /\ \A n \in Nodes : WF_vars(StartPod(n)) /\ WF_vars(StopPod(n))

FairSpec == Spec /\ Fairness

-----------------------------------------------------------------------------
Quiet ==
    /\ pc = "idle" /\ ~queued /\ counted = CurrentCount
    /\ pods = [n \in Nodes |-> IF n \in ds \cap alive THEN ds ELSE {}]

(* In the end the daemons run on the selected nodes, although Reconcile      *)
(* drops the error of writing the DaemonSet.                                 *)
SelectionApplied == <>[](ds = lvd.sel /\ Running = lvd.sel \cap alive)

(* While no node is lost and daemons run at all, the results of nodes that   *)
(* are not selected are deleted in the end.                                  *)
OrphansGo == <>[](alive = Nodes /\ Running # {} => results \subseteq lvd.sel)

(* When nothing is left to do, the status reports the daemons that there are.*)
StatusCurrent ==
    Quiet => /\ lvd.status.message = <<"success", Cardinality(Running), Cardinality(Running)>>
             /\ lvd.status.phase = "Discovering"

(* When nothing is left to do, every node on which the daemon runs has a     *)
(* result to write to: the deletion of orphans spares the nodes that the     *)
(* instance selects.  A selector that was changed at most once, that is; one *)
(* that is changed back finds the daemon running and its result deleted.     *)
DaemonHasResult == Quiet /\ lvd.gen <= 2 => Running \subseteq results

-----------------------------------------------------------------------------
(* What a reader of the API would expect, and what the code does not do.     *)

(* When nothing is left to do, the generation in the status is the one the   *)
(* operator has dealt with, that of the selector.                            *)
GenerationObserved == Quiet => lvd.status.gen = lvd.gen

(* Every node on which the daemon runs has a result, however often the       *)
(* selector was changed.                                                     *)
DaemonAlwaysHasResult == Quiet => Running \subseteq results

(* The results of nodes that are not selected go, of lost nodes as well.     *)
OrphansOfLostNodesGo == <>[](Running # {} => results \subseteq lvd.sel)
=============================================================================

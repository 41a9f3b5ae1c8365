------------------------ MODULE StorageClassOwnership ------------------------
(***************************************************************************)
(* The operator's two reconcilers of owners, one for LocalVolumes and one  *)
(* for LocalVolumeSets: the owner's finalizer, its storage classes and its *)
(* status.  A storage class carries the labels of the owner that applied   *)
(* it last; a LocalVolume removes the classes that carry its labels and    *)
(* that it does not want, a LocalVolumeSet removes its class after it let  *)
(* its finalizer go.                                                       *)
(*                                                                         *)
(* Each reconciler has one worker, which handles one request at a time in  *)
(* the steps below, one per call to the API server.  An owner that was     *)
(* read is written back as it was read: the update is refused if the owner *)
(* has changed.  How the PVs of a deleted owner go is the business of      *)
(* VolumeDeletion; here they are there or not.                             *)
(***************************************************************************)
EXTENDS Naturals, FiniteSets

CONSTANTS
    LVs,      \* LocalVolumes
    Sets,     \* LocalVolumeSets
    Classes,
    Wants,    \* Wants[o]: the sets of classes that owner o may name
    MaxGen,   \* bound: creations and edits of an owner
    MaxFails, \* bound: calls to the API server that fail
    MaxCrash  \* bound: restarts of the operator

Owners == LVs \cup Sets

Free == "free"     \* no such class
Nobody == "nobody" \* no owner

ASSUME ClassConstants ==
    /\ LVs \cap Sets = {} /\ {Free, Nobody} \cap Owners = {}
    /\ Wants \in [Owners -> SUBSET (SUBSET Classes)]
    /\ \A s \in Sets : \A w \in Wants[s] : Cardinality(w) = 1
    /\ MaxGen \in Nat /\ MaxFails \in Nat /\ MaxCrash \in Nat

VARIABLES
    owner,    \* the owners in the API server
    sc,       \* the storage classes there are, and whose labels they carry
    pvs,      \* pvs[o]: the classes of the PVs labelled with o
    status,   \* the status of an owner
    ownerMap, \* LvMap and LvSetMap: storage class -> owners
    queue,    \* requests waiting
    worker,   \* the request each reconciler handles
    fails, crashes

vars == <<owner, sc, pvs, status, ownerMap, queue, worker, fails, crashes>>

Kinds == {LVs, Sets}

Owner == [st : {"none", "live", "deleting"}, fin : BOOLEAN, managed : BOOLEAN,
          want : SUBSET Classes, gen : 0..MaxGen]

NoOwner(gen) == [st |-> "none", fin |-> FALSE, managed |-> FALSE, want |-> {}, gen |-> gen]

Steps == {"idle", "addFinalizer", "apply", "prune", "status", "cleanup", "purge",
          "removeFinalizer", "removeClass"}

Workers == [pc : Steps, o : Owners \cup {Nobody}, obj : Owner, todo : SUBSET Classes,
            bad : BOOLEAN]

IdleWorker == [pc |-> "idle", o |-> Nobody, obj |-> NoOwner(0), todo |-> {},
               bad |-> FALSE]

TypeOK ==
    /\ owner \in [Owners -> Owner]
    /\ sc \in [Classes -> Owners \cup {Free}]
    /\ pvs \in [Owners -> SUBSET Classes]
    /\ status \in [Owners -> [state : {"none", "ready", "failed", "unmanaged"}, gen : 0..MaxGen]]
    /\ ownerMap \in [Classes -> SUBSET Owners]
    /\ queue \subseteq Owners
    /\ worker \in [Kinds -> Workers]
    /\ \A k \in Kinds : worker[k].pc # "idle" => worker[k].o \in k
    /\ fails \in 0..MaxFails /\ crashes \in 0..MaxCrash

Init ==
    /\ owner = [o \in Owners |-> NoOwner(0)]
    /\ sc = [c \in Classes |-> Free]
    /\ pvs = [o \in Owners |-> {}]
    /\ status = [o \in Owners |-> [state |-> "none", gen |-> 0]]
    /\ ownerMap = [c \in Classes |-> {}]
    /\ queue = {}
    /\ worker = [k \in Kinds |-> IdleWorker]
    /\ fails = 0 /\ crashes = 0

-----------------------------------------------------------------------------
(* Users, PVs.                                                             *)

Create(o) ==
    /\ owner[o].st = "none" /\ owner[o].gen < MaxGen
    /\ \E w \in Wants[o] :
          owner' = [owner EXCEPT ![o] = [st |-> "live", fin |-> FALSE, managed |-> TRUE,
                                         want |-> w, gen |-> @.gen + 1]]
    /\ status' = [status EXCEPT ![o] = [state |-> "none", gen |-> 0]]
    /\ queue' = queue \cup {o}
    /\ UNCHANGED <<sc, pvs, ownerMap, worker, fails, crashes>>

\* The classes of an owner or the ManagementState of a LocalVolume change.
Edit(o) ==
    /\ owner[o].st = "live" /\ owner[o].gen < MaxGen
    /\ \E w \in Wants[o], m \in BOOLEAN :
          /\ <<w, m>> # <<owner[o].want, owner[o].managed>> /\ (o \in Sets => m)
          /\ owner' = [owner EXCEPT ![o].want = w, ![o].managed = m, ![o].gen = @ + 1]
    /\ queue' = queue \cup {o}
    /\ UNCHANGED <<sc, pvs, status, ownerMap, worker, fails, crashes>>

Delete(o) ==
    /\ owner[o].st = "live"
    /\ owner' = [owner EXCEPT ![o] = IF @.fin THEN [@ EXCEPT !.st = "deleting"]
                                              ELSE NoOwner(@.gen)]
    /\ queue' = queue \cup {o}
    /\ UNCHANGED <<sc, pvs, status, ownerMap, worker, fails, crashes>>

\* An event of a PV wakes its owner, and every owner known for its class.
PVEvent(o, c) == queue' = queue \cup {o} \cup ownerMap[c]

AddPV(o, c) ==
    /\ owner[o].st = "live" /\ owner[o].fin
    /\ c \in owner[o].want \ pvs[o] /\ sc[c] # Free
    /\ pvs' = [pvs EXCEPT ![o] = @ \cup {c}]
    /\ PVEvent(o, c)
    /\ UNCHANGED <<owner, sc, status, ownerMap, worker, fails, crashes>>

DropPV(o, c) ==
    /\ c \in pvs[o]
    /\ pvs' = [pvs EXCEPT ![o] = @ \ {c}]
    /\ PVEvent(o, c)
    /\ UNCHANGED <<owner, sc, status, ownerMap, worker, fails, crashes>>

-----------------------------------------------------------------------------
(* The reconcilers.                                                        *)

Goto(k, pc, todo) == worker' = [worker EXCEPT ![k].pc = pc, ![k].todo = todo]
Done(k) == worker' = [worker EXCEPT ![k] = IdleWorker]

\* Where Reconcile goes for the owner it read.  A LocalVolumeSet has no
\* ManagementState.
FirstStep(o) ==
    LET obj == owner[o]
    IN CASE obj.st = "deleting" -> "cleanup"
         [] obj.st = "live" /\ ~obj.fin -> "addFinalizer"
         [] obj.st = "live" /\ obj.fin /\ o \in LVs /\ ~obj.managed -> "status"
         [] OTHER -> "apply"

\* Reconcile reads the owner.  When it is not found, the deregistration is
\* given the empty object and forgets nothing.
Begin(k, o) ==
    /\ worker[k].pc = "idle" /\ o \in k \cap queue
    /\ queue' = queue \ {o}
    /\ IF owner[o].st = "none" THEN UNCHANGED <<worker, ownerMap>>
       ELSE /\ worker' = [worker EXCEPT ![k] = [pc |-> FirstStep(o), o |-> o, obj |-> owner[o],
                                                todo |-> owner[o].want, bad |-> FALSE]]
            /\ ownerMap' = [c \in Classes |-> IF c \in owner[o].want THEN ownerMap[c] \cup {o}
                                                                     ELSE ownerMap[c]]
    /\ UNCHANGED <<owner, sc, pvs, status, fails, crashes>>

\* The owner is as it was read, so that an update of it is accepted.
Unchanged(k) == owner[worker[k].o] = worker[k].obj

\* Mutant: a failure does not bring the request back.
RequeueNot(k) == queue' = queue

Requeue(k) == queue' = queue \cup {worker[k].o}

\* A LocalVolume is read again after its finalizer was added, a LocalVolumeSet
\* goes on.
AddFinalizer(k) ==
    /\ worker[k].pc = "addFinalizer" /\ Unchanged(k)
    /\ owner' = [owner EXCEPT ![worker[k].o].fin = TRUE]
    /\ worker' = [worker EXCEPT ![k] = IF k = LVs THEN IdleWorker
                                       ELSE [@ EXCEPT !.pc = "apply", !.obj.fin = TRUE]]
    /\ Requeue(k)
    /\ UNCHANGED <<sc, pvs, status, ownerMap, fails, crashes>>

\* ApplyStorageClass: create the class, or put the labels of the owner on it.
Apply(k, c) ==
    /\ worker[k].pc = "apply" /\ c \in worker[k].todo
    /\ sc' = [sc EXCEPT ![c] = worker[k].o]
    /\ Goto(k, "apply", worker[k].todo \ {c})
    /\ UNCHANGED <<owner, pvs, status, ownerMap, queue, fails, crashes>>

Labelled(o) == {c \in Classes : sc[c] = o}

\* Mutant: every class of the owner counts as unexpected.
AppliedExpectsNone(k) ==
    /\ worker[k].pc = "apply" /\ worker[k].todo = {}
    /\ IF k = LVs THEN Goto(k, "prune", Labelled(worker[k].o)) ELSE Goto(k, "status", {})
    /\ UNCHANGED <<owner, sc, pvs, status, ownerMap, queue, fails, crashes>>

\* removeUnExpectedStorageClasses lists the classes with the owner's labels.  When
\* that fails while the owner lives, nothing is removed.
Applied(k) ==
    /\ worker[k].pc = "apply" /\ worker[k].todo = {}
    /\ IF k = LVs
       THEN \/ Goto(k, "prune", Labelled(worker[k].o) \ worker[k].obj.want) /\ fails' = fails
            \/ fails < MaxFails /\ fails' = fails + 1 /\ Goto(k, "prune", {})
       ELSE Goto(k, "status", {}) /\ fails' = fails
    /\ UNCHANGED <<owner, sc, pvs, status, ownerMap, queue, crashes>>

\* The classes of the list are deleted by name; a deletion that fails does not
\* keep the others from being tried.
RemoveListed(k, c) ==
    /\ worker[k].pc \in {"prune", "purge"} /\ c \in worker[k].todo
    /\ \/ /\ sc' = [sc EXCEPT ![c] = Free] /\ fails' = fails
          /\ Goto(k, worker[k].pc, worker[k].todo \ {c})
       \/ /\ fails < MaxFails /\ fails' = fails + 1 /\ sc' = sc
          /\ worker' = [worker EXCEPT ![k].todo = @ \ {c}, ![k].bad = TRUE]
    /\ UNCHANGED <<owner, pvs, status, ownerMap, queue, crashes>>

\* While the owner lives, the errors are ignored.
Pruned(k) ==
    /\ worker[k].pc = "prune" /\ worker[k].todo = {}
    /\ Goto(k, "status", {})
    /\ UNCHANGED <<owner, sc, pvs, status, ownerMap, queue, fails, crashes>>

\* syncStatus writes the status of a LocalVolume to the owner that was read; that
\* of one which is not managed says only so.  A LocalVolumeSet is read again for
\* its status.  A status that changes is an event of the owner.
NewStatus(k) ==
    LET o == worker[k].o
    IN IF k = Sets THEN [state |-> "ready", gen |-> owner[o].gen]
       ELSE IF worker[k].obj.managed THEN [state |-> "ready", gen |-> worker[k].obj.gen]
       ELSE [state |-> "unmanaged", gen |-> status[o].gen]

Refused(k) == k = LVs /\ ~Unchanged(k)

SyncStatus(k) ==
    /\ worker[k].pc = "status" /\ ~Refused(k)
    /\ status' = [status EXCEPT ![worker[k].o] = NewStatus(k)]
    /\ IF status' = status THEN queue' = queue ELSE Requeue(k)
    /\ Done(k)
    /\ UNCHANGED <<owner, sc, pvs, ownerMap, fails, crashes>>

\* An owner with PVs stays.  A LocalVolume removes its classes first, ...
Cleanup(k) ==
    /\ worker[k].pc = "cleanup" /\ pvs[worker[k].o] = {}
    /\ IF k = LVs THEN Goto(k, "purge", Labelled(worker[k].o))
                  ELSE Goto(k, "removeFinalizer", worker[k].obj.want)
    /\ UNCHANGED <<owner, sc, pvs, status, ownerMap, queue, fails, crashes>>

\* Mutant: errors of the removal are not looked at.
PurgedAnyway(k) ==
    /\ worker[k].pc = "purge" /\ worker[k].todo = {}
    /\ Goto(k, "removeFinalizer", {}) /\ queue' = queue
    /\ UNCHANGED <<owner, sc, pvs, status, ownerMap, fails, crashes>>

Purged(k) ==
    /\ worker[k].pc = "purge" /\ worker[k].todo = {}
    /\ IF worker[k].bad THEN Done(k) /\ Requeue(k)
                        ELSE Goto(k, "removeFinalizer", {}) /\ queue' = queue
    /\ UNCHANGED <<owner, sc, pvs, status, ownerMap, fails, crashes>>

\* ... then the finalizer goes, and the owner with it.
RemoveFinalizer(k) ==
    /\ worker[k].pc = "removeFinalizer" /\ Unchanged(k)
    /\ owner' = [owner EXCEPT ![worker[k].o] = NoOwner(@.gen)]
    /\ IF k = LVs THEN Done(k) ELSE Goto(k, "removeClass", worker[k].todo)
    /\ Requeue(k)
    /\ UNCHANGED <<sc, pvs, status, ownerMap, fails, crashes>>

\* The class of a LocalVolumeSet goes after its owner, if it carries its labels.
\* Errors are only logged.
RemoveClass(k) ==
    /\ worker[k].pc = "removeClass"
    /\ \/ /\ sc' = [c \in Classes |-> IF c \in worker[k].todo /\ sc[c] = worker[k].o
                                      THEN Free ELSE sc[c]]
          /\ fails' = fails
       \/ fails < MaxFails /\ fails' = fails + 1 /\ sc' = sc
    /\ Done(k)
    /\ UNCHANGED <<owner, pvs, status, ownerMap, queue, crashes>>

\* The calls whose error ends Reconcile: PVs that are still there, an owner that
\* has changed, or a call that fails.  The request is tried again.  The error
\* becomes a condition of the owner: for a LocalVolumeSet always, for a
\* LocalVolume when it is about the classes or the daemonset, and not refused;
\* or else that write fails too.
Fail(k) ==
    /\ worker[k].pc \in {"addFinalizer", "apply", "status", "cleanup", "removeFinalizer"}
    /\ LET pc == worker[k].pc
           conflict == \/ pc \in {"addFinalizer", "removeFinalizer"} /\ ~Unchanged(k)
                       \/ pc = "status" /\ Refused(k)
           inUse == pc = "cleanup" /\ pvs[worker[k].o] # {}
           told == \/ k = Sets /\ owner[worker[k].o].st # "none"
                   \/ k = LVs /\ pc \in {"apply", "status"} /\ Unchanged(k)
                              /\ worker[k].obj.managed
       IN /\ IF conflict \/ inUse THEN fails' = fails
             ELSE fails < MaxFails /\ fails' = fails + 1
          /\ \/ told /\ status' = [status EXCEPT ![worker[k].o].state = "failed"]
             \/ status' = status
    /\ Requeue(k)
    /\ Done(k)
    /\ UNCHANGED <<owner, sc, pvs, ownerMap, crashes>>

\* A restart: the maps are empty, and every owner there is becomes a request.
Crash ==
    /\ crashes < MaxCrash
    /\ crashes' = crashes + 1
    /\ worker' = [k \in Kinds |-> IdleWorker]
    /\ ownerMap' = [c \in Classes |-> {}]
    /\ queue' = {o \in Owners : owner[o].st # "none"}
    /\ UNCHANGED <<owner, sc, pvs, status, fails>>

Reconcile(k) ==
    \/ AddFinalizer(k) \/ Applied(k) \/ Pruned(k) \/ SyncStatus(k) \/ Cleanup(k)
    \/ Purged(k) \/ RemoveFinalizer(k) \/ RemoveClass(k)
    \/ \E o \in k : Begin(k, o)
    \/ \E c \in Classes : Apply(k, c) \/ RemoveListed(k, c)

Next ==
    \/ \E o \in Owners : Create(o) \/ Edit(o) \/ Delete(o)
    \/ \E o \in Owners, c \in Classes : AddPV(o, c) \/ DropPV(o, c)
    \/ \E k \in Kinds : Reconcile(k) \/ Fail(k)
    \/ Crash

Spec == Init /\ [][Next]_vars

-----------------------------------------------------------------------------
Serving(o) == owner[o].st = "live" /\ (owner[o].managed \/ o \in Sets)

(* What the status says is true: a LocalVolume that is reported ready at its *)
(* current generation has all its storage classes, with its labels on them.  *)
ReadyHasClasses ==
    \A o \in LVs :
        Serving(o) /\ status[o] = [state |-> "ready", gen |-> owner[o].gen]
            => \A c \in owner[o].want : sc[c] = o

(* A LocalVolume takes its storage classes with it: when it is gone, no      *)
(* class carries its labels, since cleanupLocalVolumeDeployment keeps the    *)
(* finalizer until every class is removed.                                   *)
LVLeavesNoClass ==
    \A o \in LVs : owner[o].st = "none" => \A c \in Classes : sc[c] # o

Quiet == queue = {} /\ \A k \in Kinds : worker[k].pc = "idle"

(* No owner is forgotten: when nothing is left to do, every owner that stays *)
(* is reported ready at its generation, and none is still being deleted.     *)
(* Conflicts, failed calls and restarts never lose the request.              *)
NoneForgotten ==
    Quiet => \A o \in Owners :
        /\ owner[o].st # "deleting"
        /\ Serving(o) => status[o] = [state |-> "ready", gen |-> owner[o].gen]

-----------------------------------------------------------------------------
(* What a reader of the API or of the comments would expect, and what the    *)
(* code does not do.                                                         *)

(* The same of a LocalVolumeSet: the generation its status names was dealt   *)
(* with, and the class that this generation names is there.                  *)
SetReadyHasClass ==
    \A o \in Sets :
        Serving(o) /\ status[o] = [state |-> "ready", gen |-> owner[o].gen]
            => \A c \in owner[o].want : sc[c] = o

(* When nothing is left to do, the storage classes of every owner exist: a   *)
(* class that disappears wakes the owners that the maps know for it.         *)
ClassesRestored ==
    Quiet => \A o \in Owners : Serving(o) => \A c \in owner[o].want : sc[c] # Free

(* When nothing is left to do, the storage class of a LocalVolumeSet that    *)
(* lost its finalizer is removed.                                            *)
SetLeavesNoClass ==
    Quiet => \A o \in Sets : owner[o].st = "none" => \A c \in Classes : sc[c] # o
=============================================================================

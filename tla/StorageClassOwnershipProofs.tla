-------------------- MODULE StorageClassOwnershipProofs --------------------
(***************************************************************************)
(* Proofs about StorageClassOwnership for any number of LocalVolumes,      *)
(* LocalVolumeSets and storage classes, of edits, of calls that fail and   *)
(* of restarts: no owner is forgotten, what a LocalVolume leaves behind,   *)
(* and what its status says about its storage classes.                     *)
(***************************************************************************)
EXTENDS StorageClassOwnership, TLAPS

\* What a leaf is tried with, if it does not say.
USE ZenonT(5), SMTT(30), Z3T(30), ZenonT(30)

Working(k) == worker[k].pc # "idle"
At(k, pcs) == worker[k].pc \in pcs
LiveSteps == {"addFinalizer", "apply", "prune", "status"}

(***************************************************************************)
(* What is true of an owner, and of the one a reconciler is working on.    *)
(***************************************************************************)
OwnerInv ==
    \A o \in Owners : /\ owner[o].st = "none" => ~owner[o].fin
                      /\ owner[o].st = "deleting" => owner[o].fin

\* An owner that is not as it was read is a request again, until the reconciler
\* is free to take it.
ReadInv ==
    \A k \in Kinds :
        /\ Working(k) => owner[worker[k].o] = worker[k].obj \/ worker[k].o \in queue
        /\ At(k, LiveSteps) => worker[k].obj.st = "live"
        /\ At(k, {"removeClass"}) => worker[k].o \in queue

\* An owner that nobody works on and that is no request needs nothing.
NeedsNothing(o) ==
    /\ owner[o].st # "deleting"
    /\ Serving(o) => status[o] = [state |-> "ready", gen |-> owner[o].gen]

RequestInv ==
    \A o \in Owners :
        \/ NeedsNothing(o) \/ o \in queue
        \/ \E k \in Kinds : Working(k) /\ worker[k].o = o

QueueInv == TypeOK /\ OwnerInv /\ ReadInv /\ RequestInv

\* Which reconciler takes which steps.
KindInv ==
    \A k \in Kinds : /\ At(k, {"prune", "purge"}) => k = LVs
                     /\ At(k, {"removeClass"}) => k # LVs

\* The classes an owner may name.
All(o) == UNION Wants[o]
WantInv ==
    /\ \A o \in Owners : owner[o].want \subseteq All(o)
    /\ \A k \in Kinds : Working(k) =>
           worker[k].todo \cup worker[k].obj.want \subseteq All(worker[k].o)
    /\ \A c \in Classes : sc[c] # Free => c \in All(sc[c])

-----------------------------------------------------------------------------
(* Types.                                                                  *)

\* An idle reconciler and an owner that does not exist are of their types.
LEMMA Constants ==
    /\ IdleWorker \in Workers /\ IdleWorker.pc = "idle"
    /\ \A gen \in 0..MaxGen : /\ NoOwner(gen) \in Owner
                              /\ NoOwner(gen).st = "none" /\ ~NoOwner(gen).fin
                              /\ NoOwner(gen).want = {} /\ NoOwner(gen).gen = gen
    /\ Free \notin Owners
  <1>1. \A gen \in 0..MaxGen : /\ NoOwner(gen) \in Owner
                               /\ NoOwner(gen).st = "none" /\ ~NoOwner(gen).fin
                               /\ NoOwner(gen).want = {} /\ NoOwner(gen).gen = gen
    BY DEF NoOwner, Owner
  <1>2. NoOwner(0) \in Owner
    BY <1>1, ClassConstants
  <1> QED
    BY <1>1, <1>2, ClassConstants DEF IdleWorker, Workers, Steps

\* The reconciler goes on with the same request, or is done with it.
LEMMA GotoLemma ==
    ASSUME TypeOK, NEW k \in Kinds, NEW pc \in Steps, NEW todo \in SUBSET Classes,
           Goto(k, pc, todo), Working(k)
    PROVE  /\ worker' \in [Kinds -> Workers]
           /\ worker'[k].pc = pc /\ worker'[k].todo = todo
           /\ worker'[k].o = worker[k].o /\ worker'[k].obj = worker[k].obj
           /\ worker'[k].bad = worker[k].bad
           /\ \A j \in Kinds : j # k => worker'[j] = worker[j]
           /\ \A j \in Kinds : worker'[j].pc # "idle" => worker'[j].o \in j
  <1>1. worker[k] \in Workers /\ worker[k].o \in k
    BY DEF TypeOK, Working
  <1>2. worker' = [worker EXCEPT ![k] = [@ EXCEPT !.pc = pc, !.todo = todo]]
    BY DEF Goto
  <1>3. worker'[k] = [worker[k] EXCEPT !.pc = pc, !.todo = todo]
    BY <1>2 DEF TypeOK
  <1>4. /\ worker'[k] \in Workers
        /\ worker'[k].pc = pc /\ worker'[k].todo = todo
        /\ worker'[k].o = worker[k].o /\ worker'[k].obj = worker[k].obj
        /\ worker'[k].bad = worker[k].bad
    BY <1>1, <1>3 DEF Workers
  <1>5. \A j \in Kinds : j # k => worker'[j] = worker[j]
    BY <1>2 DEF TypeOK
  <1>6. worker' \in [Kinds -> Workers]
    BY <1>2, <1>4, <1>3 DEF TypeOK
  <1> QED
    BY <1>1, <1>4, <1>5, <1>6 DEF TypeOK

\* A reconciler that is done has no request.
LEMMA DoneLemma ==
    ASSUME TypeOK, NEW k \in Kinds, Done(k)
    PROVE  /\ worker' \in [Kinds -> Workers]
           /\ worker'[k] = IdleWorker /\ worker'[k].pc = "idle"
           /\ \A j \in Kinds : j # k => worker'[j] = worker[j]
           /\ \A j \in Kinds : worker'[j].pc # "idle" => worker'[j].o \in j
  BY Constants DEF TypeOK, Done

\* The reconciler of a request, and what it has read.
LEMMA WorkerLemma ==
    ASSUME TypeOK, NEW k \in Kinds, Working(k)
    PROVE  /\ worker[k] \in Workers /\ worker[k].o \in k /\ worker[k].o \in Owners
           /\ worker[k].obj \in Owner /\ worker[k].todo \in SUBSET Classes
           /\ worker[k].bad \in BOOLEAN
           /\ owner[worker[k].o] \in Owner
           /\ k = LVs <=> worker[k].o \in LVs
           /\ k = Sets <=> worker[k].o \in Sets
           /\ \A j \in Kinds : j # k => worker[k].o \notin j
  <1>1. worker[k] \in Workers /\ worker[k].o \in k /\ (k = LVs \/ k = Sets)
    BY DEF TypeOK, Working, Kinds
  <1>2. worker[k].o \in Owners
    BY <1>1 DEF Owners
  <1> QED
    BY <1>1, <1>2, ClassConstants DEF Workers, TypeOK, Kinds

\* What a reconciler does with a request: the owner is not there, it takes it, goes
\* on with it, or is done.
Skips(k, o) ==
    /\ ~Working(k) /\ worker' = worker /\ queue' = queue \ {o} /\ UNCHANGED <<owner, status>>
    /\ owner[o].st = "none"

Takes(k, o) ==
    /\ ~Working(k) /\ queue' = queue \ {o} /\ UNCHANGED <<owner, status>>
    /\ owner[o].st # "none"
    /\ worker'[k] = [pc |-> FirstStep(o), o |-> o, obj |-> owner[o], todo |-> owner[o].want, bad |-> FALSE]

GoesOn(k) ==
    LET w == worker[k] v == worker'[k] IN
    /\ Working(k) /\ v \in Workers /\ v.pc # "idle" /\ v.o = w.o
    /\ v.obj.want = w.obj.want /\ v.obj.st = w.obj.st
    /\ v.todo \subseteq w.todo \cup w.obj.want \cup Labelled(w.o)
    /\ v.pc \in {"prune", "purge"} => k = LVs \/ v.pc = w.pc
    /\ v.pc \in LiveSteps => w.pc \in LiveSteps
    /\ v.pc = "removeClass" => k # LVs /\ w.o \in queue'
    /\ queue \subseteq queue' /\ (v.obj = w.obj \/ w.o \in queue')

Ends(k) ==
    /\ Working(k) /\ worker'[k] = IdleWorker /\ queue \subseteq queue'
    /\ worker[k].o \in queue' \/ SyncStatus(k) \/ RemoveClass(k)

\* A step of a reconciler drops a request, takes one, goes on with it or ends it,
\* and leaves the other reconciler alone.
LEMMA WorkerView ==
    ASSUME TypeOK, NEW k \in Kinds, Reconcile(k) \/ Fail(k)
    PROVE  /\ worker' \in [Kinds -> Workers]
           /\ \A j \in Kinds : worker'[j].pc # "idle" => worker'[j].o \in j
           /\ \A j \in Kinds : j # k => worker'[j] = worker[j]
           /\ GoesOn(k) \/ Ends(k) \/ \E o \in k : Skips(k, o) \/ Takes(k, o)
  <1> DEFINE w == worker[k]
             Typed == /\ worker' \in [Kinds -> Workers]
                      /\ \A j \in Kinds : worker'[j].pc # "idle" => worker'[j].o \in j
             Moved == GoesOn(k) \/ Ends(k) \/ \E o \in k : Skips(k, o) \/ Takes(k, o)
             Kept == queue \subseteq queue'
             Asked == w.o \in queue'
  <1>1. \A j \in Kinds : j # k => worker'[j] = worker[j]
    BY ZenonT(60) DEF Reconcile, Fail, AddFinalizer, Applied, Pruned, SyncStatus, Cleanup, Purged,
           RemoveFinalizer, RemoveClass, Begin, Apply, RemoveListed, Goto, Done, TypeOK
  <1>2. ASSUME NEW v \in Workers, worker' = [worker EXCEPT ![k] = v], v.pc # "idle" => v.o \in k
        PROVE  Typed /\ worker'[k] = v
    BY <1>2 DEF TypeOK
  <1>3. Working(k) => /\ w \in Workers /\ w.o \in k /\ w.obj \in Owner /\ w.todo \in SUBSET Classes
                      /\ w.obj.want \in SUBSET Classes
    BY WorkerLemma DEF Owner
  <1>4. ASSUME Working(k), Done(k), Kept, Asked \/ SyncStatus(k) \/ RemoveClass(k)
        PROVE  Typed /\ Moved
    BY <1>4, DoneLemma DEF Ends
  <1>5. ASSUME NEW pc \in Steps, NEW todo \in SUBSET Classes, Working(k), Goto(k, pc, todo), Kept,
               todo \subseteq w.todo \cup w.obj.want \cup Labelled(w.o), pc # "idle",
               pc \in {"prune", "purge"} => k = LVs \/ pc = w.pc,
               pc \in LiveSteps => w.pc \in LiveSteps,
               pc = "removeClass" => k # LVs /\ Asked
        PROVE  Typed /\ Moved
    BY <1>5, GotoLemma DEF GoesOn
  <1>6. ASSUME NEW o \in k, Begin(k, o)
        PROVE  Typed /\ Moved
    <2>1. ~Working(k) /\ queue' = queue \ {o} /\ UNCHANGED <<owner, status>>
      BY <1>6 DEF Begin, Working
    <2>2. CASE owner[o].st = "none"
      <3>1. worker' = worker
        BY <1>6, <2>2 DEF Begin
      <3> QED
        BY <2>1, <2>2, <3>1 DEF Skips, TypeOK
    <2>3. CASE owner[o].st # "none"
      <3> DEFINE v == [pc |-> FirstStep(o), o |-> o, obj |-> owner[o], todo |-> owner[o].want,
                       bad |-> FALSE]
      <3>1. o \in Owners /\ owner[o] \in Owner /\ owner[o].want \in SUBSET Classes
        BY DEF TypeOK, Owner, Kinds, Owners
      <3>2. v \in Workers /\ v.o = o
        BY <3>1 DEF Workers, FirstStep, Steps
      <3>3. worker' = [worker EXCEPT ![k] = v]
        BY <1>6, <2>3 DEF Begin
      <3>4. worker'[k] = v => Takes(k, o)
        BY <2>1, <2>3 DEF Takes
      <3> HIDE DEF v
      <3> QED
        BY <1>2, <3>2, <3>3, <3>4
    <2> QED
      BY <2>2, <2>3
  <1>7. ASSUME AddFinalizer(k)
        PROVE  Typed /\ Moved
    <2>1. Working(k) /\ w.pc \in LiveSteps /\ Kept /\ Asked
      BY <1>7 DEF AddFinalizer, Working, LiveSteps, Requeue
    <2>2. CASE k = LVs
      BY <1>4, <1>7, <2>1, <2>2 DEF AddFinalizer, Done
    <2>3. CASE k # LVs
      <3> DEFINE v == [w EXCEPT !.pc = "apply", !.obj = [@ EXCEPT !.fin = TRUE]]
                 obj == [w.obj EXCEPT !.fin = TRUE]
      <3>1. obj \in Owner /\ obj.want = w.obj.want /\ obj.st = w.obj.st
        BY <1>3, <2>1 DEF Owner
      <3>2. /\ v \in Workers /\ v.o = w.o /\ v.pc = "apply" /\ v.todo = w.todo
            /\ v.obj.want = w.obj.want /\ v.obj.st = w.obj.st
        BY <1>3, <2>1, <3>1 DEF Workers, Steps
      <3>3. worker' = [worker EXCEPT ![k] = v]
        BY <1>7, <2>3 DEF AddFinalizer
      <3> HIDE DEF v
      <3>4. Typed /\ worker'[k] = v
        BY <1>2, <1>3, <2>1, <3>2, <3>3
      <3> QED
        BY <2>1, <3>2, <3>4 DEF GoesOn
    <2> QED
      BY <2>2, <2>3
  <1>8. ASSUME NEW c \in Classes, RemoveListed(k, c)
        PROVE  Typed /\ Moved
    <2>1. /\ Working(k) /\ w.pc \in Steps /\ w.pc # "removeClass" /\ w.todo \ {c} \in SUBSET Classes
          /\ Kept
      BY <1>3, <1>8 DEF RemoveListed, Working, Workers
    <2>2. CASE Goto(k, w.pc, w.todo \ {c})
      BY <1>5, <2>1, <2>2 DEF Working
    <2>3. CASE worker' = [worker EXCEPT ![k].todo = @ \ {c}, ![k].bad = TRUE]
      <3> DEFINE v == [w EXCEPT !.todo = @ \ {c}, !.bad = TRUE]
      <3>1. v \in Workers /\ v.o = w.o /\ v.pc = w.pc /\ v.todo = w.todo \ {c} /\ v.obj = w.obj
        BY <1>3, <2>1 DEF Workers
      <3>2. worker' = [worker EXCEPT ![k] = v]
        BY <2>3
      <3> HIDE DEF v
      <3>3. Typed /\ worker'[k] = v
        BY <1>2, <1>3, <2>1, <3>1, <3>2
      <3> QED
        BY <2>1, <3>1, <3>3 DEF GoesOn, Working
    <2> QED
      BY <1>8, <2>2, <2>3 DEF RemoveListed
  <1>9. ASSUME \/ Applied(k) \/ Pruned(k) \/ Cleanup(k) \/ Purged(k) \/ RemoveFinalizer(k)
               \/ \E c \in Classes : Apply(k, c)
        PROVE  Typed /\ Moved
    <2>1. Working(k) /\ Kept
      BY <1>9
         DEF Applied, Pruned, Cleanup, Purged, RemoveFinalizer, Apply, Working, Requeue
    <2> DEFINE B == w.todo \cup w.obj.want \cup Labelled(w.o)
    <2>2. B \in SUBSET Classes
      BY <1>3, <2>1 DEF Labelled
    <2>3. \/ Done(k) /\ Asked
          \/ \E pc \in Steps, todo \in SUBSET B :
                 /\ Goto(k, pc, todo) /\ pc # "idle"
                 /\ pc \in {"prune", "purge"} => k = LVs \/ pc = w.pc
                 /\ pc \in LiveSteps => w.pc \in LiveSteps
                 /\ pc = "removeClass" => k # LVs /\ Asked
      BY <1>9
         DEF Applied, Pruned, Cleanup, Purged, RemoveFinalizer, Apply, Steps, LiveSteps, Requeue
    <2> QED
      BY <1>4, <1>5, <2>1, <2>2, <2>3
  <1>10. ASSUME SyncStatus(k) \/ RemoveClass(k) \/ Fail(k)
         PROVE  Typed /\ Moved
    <2>1. Working(k) /\ Done(k) /\ Kept /\ (Fail(k) => Asked)
      BY <1>10 DEF SyncStatus, RemoveClass, Fail, Working, Requeue
    <2> QED
      BY <1>4, <1>10, <2>1
  <1> HIDE DEF Typed, Moved
  <1>11. Typed /\ Moved
    BY <1>6, <1>7, <1>8, <1>9, <1>10 DEF Reconcile
  <1> QED
    BY <1>1, <1>11 DEF Typed, Moved

\* Types, at first ...
LEMMA TypeInit == Init => TypeOK
  BY Constants, ClassConstants DEF Init, TypeOK

\* ... and after every step.
LEMMA TypeStep ==
    ASSUME TypeOK, [Next]_vars
    PROVE  TypeOK'
  <1> USE ClassConstants
  <1>1. ASSUME NEW o \in Owners, Create(o)
        PROVE  TypeOK'
    <2>1. PICK w \in Wants[o] :
              owner' = [owner EXCEPT ![o] = [st |-> "live", fin |-> FALSE, managed |-> TRUE,
                                             want |-> w, gen |-> owner[o].gen + 1]]
      BY <1>1 DEF Create
    <2>2. owner[o] \in Owner /\ owner[o].gen \in 0..MaxGen /\ owner[o].gen < MaxGen /\ w \in SUBSET Classes
      BY <1>1 DEF Create, TypeOK, Owner
    <2>3. [st |-> "live", fin |-> FALSE, managed |-> TRUE, want |-> w, gen |-> owner[o].gen + 1]
              \in Owner
      BY <2>2 DEF Owner
    <2>4. owner' \in [Owners -> Owner]
      BY <2>1, <2>3 DEF TypeOK
    <2>5. status' \in [Owners -> [state : {"none", "ready", "failed", "unmanaged"}, gen : 0..MaxGen]]
      BY <1>1 DEF Create, TypeOK
    <2> QED
      BY <1>1, <2>4, <2>5 DEF Create, TypeOK
  <1>2. ASSUME NEW o \in Owners, Edit(o)
        PROVE  TypeOK'
    <2>1. PICK w \in Wants[o], m \in BOOLEAN :
              owner' = [owner EXCEPT ![o].want = w, ![o].managed = m, ![o].gen = @ + 1]
      BY <1>2 DEF Edit
    <2>2. owner[o] \in Owner /\ owner[o].gen \in 0..MaxGen /\ owner[o].gen < MaxGen /\ w \in SUBSET Classes
      BY <1>2 DEF Edit, TypeOK, Owner
    <2> DEFINE obj == [owner[o] EXCEPT !.want = w, !.managed = m, !.gen = owner[o].gen + 1]
    <2>3. owner[o].gen + 1 \in 0..MaxGen
      BY <2>2
    <2>4. obj \in Owner
      BY <2>2, <2>3 DEF Owner
    <2>5. owner' = [owner EXCEPT ![o] = obj]
      BY <2>1
    <2> HIDE DEF obj
    <2> QED
      BY <1>2, <2>4, <2>5 DEF Edit, TypeOK
  <1>3. ASSUME NEW o \in Owners, Delete(o)
        PROVE  TypeOK'
    <2>1. owner[o] \in Owner /\ owner[o].gen \in 0..MaxGen
      BY DEF TypeOK, Owner
    <2>2. [owner[o] EXCEPT !.st = "deleting"] \in Owner /\ NoOwner(owner[o].gen) \in Owner
      BY <2>1, Constants DEF Owner
    <2> QED
      BY <1>3, <2>2 DEF Delete, TypeOK
  <1>4. ASSUME NEW o \in Owners, NEW c \in Classes, AddPV(o, c) \/ DropPV(o, c)
        PROVE  TypeOK'
    <2>1. ownerMap[c] \subseteq Owners /\ pvs[o] \subseteq Classes
      BY DEF TypeOK
    <2> QED
      BY <1>4, <2>1 DEF AddPV, DropPV, PVEvent, TypeOK
  <1>5. ASSUME NEW k \in Kinds, Reconcile(k) \/ Fail(k)
        PROVE  TypeOK'
    <2> DEFINE w == worker[k]
               Status == [state : {"none", "ready", "failed", "unmanaged"}, gen : 0..MaxGen]
    <2>1. Working(k) => /\ w.o \in Owners /\ w.obj \in Owner /\ owner[w.o] \in Owner
                        /\ status[w.o] \in Status /\ owner[w.o].gen \in 0..MaxGen
      BY WorkerLemma DEF TypeOK, Owner
    <2>2. owner' \in [Owners -> Owner]
      <3>1. CASE AddFinalizer(k)
        <4>1. Working(k)
          BY <3>1 DEF AddFinalizer, Working
        <4>2. [owner[w.o] EXCEPT !.fin = TRUE] \in Owner
          BY <2>1, <4>1 DEF Owner
        <4> QED
          BY <3>1, <4>2 DEF AddFinalizer, TypeOK
      <3>2. CASE RemoveFinalizer(k)
        <4>1. Working(k)
          BY <3>2 DEF RemoveFinalizer, Working
        <4>2. NoOwner(owner[w.o].gen) \in Owner
          BY <2>1, <4>1, Constants
        <4> QED
          BY <3>2, <4>2 DEF RemoveFinalizer, TypeOK
      <3>3. CASE UNCHANGED owner
        BY <3>3 DEF TypeOK
      <3> QED
        BY <1>5, <3>1, <3>2, <3>3
           DEF Reconcile, Fail, Applied, Pruned, SyncStatus, Cleanup, Purged, RemoveClass, Begin,
               Apply, RemoveListed
    <2>3. sc' \in [Classes -> Owners \cup {Free}]
      <3>1. ASSUME NEW c \in Classes, Apply(k, c)
            PROVE  sc' \in [Classes -> Owners \cup {Free}]
        BY <2>1, <3>1 DEF Apply, Working, TypeOK
      <3>2. CASE UNCHANGED sc
        BY <3>2 DEF TypeOK
      <3>3. CASE RemoveClass(k)
        BY <3>3 DEF RemoveClass, TypeOK
      <3>4. ASSUME NEW c \in Classes, RemoveListed(k, c)
            PROVE  sc' \in [Classes -> Owners \cup {Free}]
        BY <3>4 DEF RemoveListed, TypeOK
      <3> QED
        BY <1>5, <3>1, <3>2, <3>3, <3>4
           DEF Reconcile, Fail, AddFinalizer, Applied, Pruned, SyncStatus, Cleanup, Purged,
               RemoveFinalizer, Begin
    <2>4. status' \in [Owners -> Status]
      <3>1. CASE SyncStatus(k)
        <4>1. Working(k)
          BY <3>1 DEF SyncStatus, Working
        <4>2. NewStatus(k) \in Status
          BY <2>1, <4>1 DEF NewStatus, Owner
        <4> QED
          BY <3>1, <4>2 DEF SyncStatus, TypeOK
      <3>2. CASE Fail(k)
        <4>1. Working(k) /\ (status' = status \/ status' = [status EXCEPT ![w.o].state = "failed"])
          BY <3>2 DEF Fail, Working
        <4>2. [status[w.o] EXCEPT !.state = "failed"] \in Status
          BY <2>1, <4>1
        <4> QED
          BY <4>1, <4>2 DEF TypeOK
      <3>3. CASE UNCHANGED status
        BY <3>3 DEF TypeOK
      <3> QED
        BY <1>5, <3>1, <3>2, <3>3
           DEF Reconcile, AddFinalizer, Applied, Pruned, Cleanup, Purged, RemoveFinalizer,
               RemoveClass, Begin, Apply, RemoveListed
    <2>5. ownerMap' \in [Classes -> SUBSET Owners]
      <3>1. ASSUME NEW o \in k, Begin(k, o)
            PROVE  ownerMap' \in [Classes -> SUBSET Owners]
        BY <3>1 DEF Begin, TypeOK, Kinds, Owners
      <3>2. UNCHANGED ownerMap \/ \E o \in k : Begin(k, o)
        BY <1>5 DEF Reconcile, Fail, AddFinalizer, Applied, Pruned, SyncStatus, Cleanup, Purged,
               RemoveFinalizer, RemoveClass, Apply, RemoveListed
      <3> QED
        BY <3>1, <3>2 DEF TypeOK
    <2>6. queue' \subseteq Owners
      <3>1. queue' \subseteq queue \/ (Working(k) /\ Requeue(k))
        BY <1>5 DEF Reconcile, Fail, AddFinalizer, Applied, Pruned, SyncStatus, Cleanup, Purged,
               RemoveFinalizer, RemoveClass, Begin, Apply, RemoveListed, Working
      <3> QED
        BY <2>1, <3>1 DEF Requeue, TypeOK
    <2>7. /\ UNCHANGED <<pvs, crashes>>
          /\ UNCHANGED fails \/ (fails < MaxFails /\ fails' = fails + 1)
      BY <1>5 DEF Reconcile, Fail, AddFinalizer, Applied, Pruned, SyncStatus, Cleanup, Purged,
             RemoveFinalizer, RemoveClass, Begin, Apply, RemoveListed
    <2> QED
      BY <1>5, <2>2, <2>3, <2>4, <2>5, <2>6, <2>7, WorkerView DEF TypeOK
  <1>6. CASE Crash
    BY <1>6, Constants DEF Crash, TypeOK
  <1>7. CASE UNCHANGED vars
    BY <1>7 DEF vars, TypeOK
  <1> QED
    BY <1>1, <1>2, <1>3, <1>4, <1>5, <1>6, <1>7 DEF Next

-----------------------------------------------------------------------------
(* What users do to an owner; what the reconciler of LocalVolumeSets       *)
(* leaves to LocalVolumes.                                                 *)

Created(o) ==
    /\ owner[o].st = "none" /\ owner'[o].st = "live" /\ ~owner'[o].fin
    /\ owner'[o].want \in Wants[o] /\ owner'[o].gen = owner[o].gen + 1
    /\ status'[o].state = "none" /\ status'[o].gen = 0
Edited(o) ==
    /\ owner[o].st = "live" /\ owner'[o].st = "live" /\ owner'[o].fin = owner[o].fin
    /\ owner'[o].want \in Wants[o] /\ owner'[o].gen = owner[o].gen + 1
    /\ status'[o] = status[o]
Deleted(o) ==
    /\ owner[o].st = "live" /\ status'[o] = status[o]
    /\ owner'[o].fin = owner[o].fin /\ owner'[o].gen = owner[o].gen
    /\ IF owner[o].fin
       THEN /\ owner'[o].st = "deleting"
            /\ owner'[o].want = owner[o].want /\ owner'[o].managed = owner[o].managed
       ELSE owner'[o].st = "none" /\ owner'[o].want = {}
Left(o) == owner'[o] = owner[o] /\ status'[o] = status[o]

UserStep ==
    \/ \E o \in Owners : Create(o) \/ Edit(o) \/ Delete(o)
    \/ \E o \in Owners, c \in Classes : AddPV(o, c) \/ DropPV(o, c)

\* Users and the volume controllers write owners and requests, and nothing else.
LEMMA UserView ==
    ASSUME TypeOK, UserStep
    PROVE  /\ UNCHANGED <<sc, worker>>
           /\ \A o \in Owners : Left(o) \/ Created(o) \/ Edited(o) \/ Deleted(o)
  <1>1. UNCHANGED <<sc, worker>>
    BY DEF UserStep, Create, Edit, Delete, AddPV, DropPV
  <1>2. ASSUME NEW o \in Owners, Create(o) \/ Edit(o) \/ Delete(o)
        PROVE  (\A p \in Owners : p # o => Left(p)) /\ (Created(o) \/ Edited(o) \/ Deleted(o))
    <2>1. owner[o] \in Owner /\ owner[o].gen \in 0..MaxGen
      BY DEF TypeOK, Owner
    <2>2. \A p \in Owners : p # o => Left(p)
      BY <1>2 DEF Create, Edit, Delete, TypeOK, Left
    <2>3. ASSUME Create(o)
          PROVE  Created(o)
      BY <2>3 DEF Create, Created, TypeOK
    <2>4. ASSUME Edit(o)
          PROVE  Edited(o)
      <3>1. PICK w \in Wants[o], m \in BOOLEAN :
                owner' = [owner EXCEPT ![o].want = w, ![o].managed = m, ![o].gen = @ + 1]
        BY <2>4 DEF Edit
      <3>2. /\ owner'[o].st = owner[o].st /\ owner'[o].fin = owner[o].fin
            /\ owner'[o].want = w /\ owner'[o].gen = owner[o].gen + 1
        BY <2>1, <3>1 DEF TypeOK, Owner
      <3> QED
        BY <2>4, <3>2 DEF Edit, Edited
    <2>5. ASSUME Delete(o)
          PROVE  Deleted(o)
      <3>1. /\ owner'[o] = IF owner[o].fin THEN [owner[o] EXCEPT !.st = "deleting"]
                                           ELSE NoOwner(owner[o].gen)
            /\ owner[o].st = "live" /\ status' = status
        BY <2>5 DEF Delete, TypeOK
      <3>2. CASE owner[o].fin
        <4>1. owner'[o] = [owner[o] EXCEPT !.st = "deleting"]
          BY <3>1, <3>2
        <4> QED
          BY <2>1, <3>1, <3>2, <4>1 DEF Deleted, Owner
      <3>3. CASE ~owner[o].fin
        <4>1. owner'[o] = NoOwner(owner[o].gen)
          BY <3>1, <3>3
        <4>2. owner[o].fin = FALSE
          BY <2>1, <3>3 DEF Owner
        <4>3. /\ owner'[o].fin = FALSE /\ owner'[o].gen = owner[o].gen
              /\ owner'[o].st = "none" /\ owner'[o].want = {}
          BY <4>1 DEF NoOwner
        <4> QED
          BY <3>1, <4>2, <4>3 DEF Deleted
      <3> QED
        BY <3>2, <3>3
    <2> QED
      BY <1>2, <2>2, <2>3, <2>4, <2>5
  <1>3. ASSUME NEW o \in Owners, NEW c \in Classes, AddPV(o, c) \/ DropPV(o, c)
        PROVE  \A p \in Owners : Left(p)
    BY <1>3 DEF AddPV, DropPV, Left
  <1> QED
    BY <1>1, <1>2, <1>3 DEF UserStep

\* The reconciler of LocalVolumeSets leaves LocalVolumes alone, and touches a class
\* with their labels only if its own set lists the class.
LEMMA SetWorkerView ==
    ASSUME TypeOK, KindInv, NEW k \in Kinds, k # LVs, Reconcile(k) \/ Fail(k)
    PROVE  /\ worker'[LVs] = worker[LVs]
           /\ \A o \in LVs : Left(o)
           /\ \A c \in Classes : sc'[c] # sc[c] =>
                  /\ sc'[c] \notin LVs
                  /\ \/ sc[c] \notin LVs
                     \/ worker[k].o \in Sets /\ Working(k) /\ c \in worker[k].todo
  <1> DEFINE Rest == /\ worker'[LVs] = worker[LVs]
                     /\ \A o \in LVs : Left(o)
             Labels == \A c \in Classes : sc'[c] # sc[c] =>
                           /\ sc'[c] \notin LVs
                           /\ \/ sc[c] \notin LVs
                              \/ worker[k].o \in Sets /\ Working(k) /\ c \in worker[k].todo
  <1> SUFFICES Rest /\ Labels
    OBVIOUS
  <1>1. LVs \in Kinds /\ LVs \subseteq Owners
    BY DEF Kinds, Owners
  <1>2. \A j \in Kinds : j # k => worker'[j] = worker[j]
    BY WorkerView
  <1>3. Working(k) => worker[k].o \notin LVs /\ worker[k].o \in Sets /\ worker[k].o \in Owners
    BY WorkerLemma DEF Kinds
  <1>4. \A o \in LVs : Left(o)
    <2>1. CASE UNCHANGED <<owner, status>>
      BY <2>1 DEF Left
    <2>2. CASE Working(k) /\ \A o \in Owners : o # worker[k].o => Left(o)
      BY <1>1, <1>3, <2>2
    <2>3. CASE AddFinalizer(k) \/ SyncStatus(k) \/ RemoveFinalizer(k) \/ Fail(k)
      <3>1. Working(k)
        BY <2>3 DEF AddFinalizer, SyncStatus, RemoveFinalizer, Fail, Working
      <3>2. \A o \in Owners : o # worker[k].o => Left(o)
        BY <2>3 DEF AddFinalizer, SyncStatus, RemoveFinalizer, Fail, Left, TypeOK
      <3> QED
        BY <2>2, <3>1, <3>2
    <2> QED
      BY <2>1, <2>3 DEF Reconcile, Applied, Pruned, Cleanup, Purged, RemoveClass, Begin, Apply,
                        RemoveListed
  <1>5. Labels
    <2>1. CASE UNCHANGED sc
      BY <2>1
    <2>2. ASSUME NEW d \in Classes, Apply(k, d)
          PROVE  Labels
      <3>1. Working(k)
        BY <2>2 DEF Apply, Working
      <3> QED
        BY <1>3, <2>2, <3>1 DEF Apply, TypeOK
    <2>3. CASE RemoveClass(k)
      <3>1. Working(k)
        BY <2>3 DEF RemoveClass, Working
      <3>2. Free \notin LVs
        BY <1>1, Constants
      <3> QED
        BY <1>3, <2>3, <3>1, <3>2 DEF RemoveClass, TypeOK
    <2>4. ASSUME NEW d \in Classes, RemoveListed(k, d)
          PROVE  Labels
      BY <2>4 DEF RemoveListed, KindInv, At
    <2> QED
      BY <2>1, <2>2, <2>3, <2>4
         DEF Reconcile, Fail, AddFinalizer, Applied, Pruned, SyncStatus, Cleanup, Purged,
             RemoveFinalizer, Begin
  <1> HIDE DEF Labels
  <1> QED
    BY <1>1, <1>2, <1>4, <1>5

\* Each reconciler keeps to its own steps.
LEMMA KindStep ==
    ASSUME TypeOK, KindInv, [Next]_vars
    PROVE  KindInv'
  <1>1. ASSUME NEW k \in Kinds, Reconcile(k) \/ Fail(k)
        PROVE  KindInv'
    <2>1. /\ \A j \in Kinds : j # k => worker'[j] = worker[j]
          /\ GoesOn(k) \/ Ends(k) \/ \E o \in k : Skips(k, o) \/ Takes(k, o)
      BY <1>1, WorkerView
    <2>2. \A o \in k : Takes(k, o) => worker'[k].pc \notin {"prune", "purge", "removeClass"}
      BY DEF Takes, FirstStep
    <2> QED
      BY <2>1, <2>2, Constants DEF KindInv, At, GoesOn, Ends, Skips
  <1>2. ASSUME UNCHANGED worker
        PROVE  KindInv'
    BY <1>2 DEF KindInv, At
  <1>3. CASE Crash
    BY <1>3, Constants DEF Crash, KindInv, At
  <1>4. UserStep \/ UNCHANGED vars => UNCHANGED worker
    BY UserView DEF vars
  <1> QED
    BY <1>1, <1>2, <1>3, <1>4 DEF Next, UserStep

-----------------------------------------------------------------------------
(* Requests.  What a step does with the owners, the queue and the workers.  *)

OwnersMove ==
    \A o \in Owners : o \in queue' \/ (owner'[o] = owner[o] /\ status'[o] = status[o])

\* A request goes when its reconciler takes it, or when the owner is not there.
QueueMoves ==
    \A o \in queue : \/ o \in queue' \/ owner[o].st = "none"
                     \/ \E k \in Kinds : ~Working(k) /\ Working(k)' /\ worker'[k].o = o

WorkersMove ==
    \A k \in Kinds : Working(k)' =>
        LET w == worker[k] v == worker'[k] IN
        IF Working(k)
        THEN /\ v.o = w.o /\ (w.o \in queue => w.o \in queue')
             /\ v.obj = w.obj \/ v.o \in queue'
             /\ v.pc = "removeClass" => v.o \in queue'
             /\ v.pc \in LiveSteps => v.obj.st = "live"
        ELSE /\ v.o \in Owners /\ v.obj = owner[v.o] /\ v.pc = FirstStep(v.o)
             /\ v.obj.st # "none"

\* A reconciler that is done leaves a request, or an owner that needs nothing.
Released ==
    \A k \in Kinds, o \in Owners : Working(k) /\ worker[k].o = o /\ ~Working(k)' =>
        o \in queue' \/ owner[o].st = "none" \/ NeedsNothing(o)'

Moves == OwnersMove /\ QueueMoves /\ WorkersMove /\ Released

\* A step that takes no request and that no worker takes part in.
LEMMA UserMoves ==
    ASSUME QueueInv, UNCHANGED worker, queue \subseteq queue', OwnersMove
    PROVE  Moves
  <1>1. QueueMoves
    BY DEF QueueMoves
  <1>2. WorkersMove
    BY DEF WorkersMove, Working, QueueInv, ReadInv, At
  <1>3. Released
    BY DEF Released, Working
  <1> QED
    BY <1>1, <1>2, <1>3 DEF Moves

\* What a step of a reconciler does to requests.
LEMMA WorkerMoves ==
    ASSUME QueueInv, NEW k \in Kinds, Reconcile(k) \/ Fail(k)
    PROVE  Moves
  <1> USE DEF QueueInv
  <1> DEFINE w == worker[k]
  <1>1. /\ \A j \in Kinds : j # k => worker'[j] = worker[j]
        /\ GoesOn(k) \/ Ends(k) \/ \E o \in k : Skips(k, o) \/ Takes(k, o)
    BY WorkerView
  <1>2. OwnersMove
    <2>1. CASE UNCHANGED <<owner, status>>
      BY <2>1 DEF OwnersMove
    <2>2. CASE AddFinalizer(k) \/ RemoveFinalizer(k) \/ Fail(k) \/ SyncStatus(k)
      <3>1. \A o \in Owners : o # w.o => owner'[o] = owner[o] /\ status'[o] = status[o]
        BY <2>2 DEF AddFinalizer, RemoveFinalizer, Fail, SyncStatus, TypeOK
      <3>2. w.o \in queue' \/ UNCHANGED <<owner, status>>
        BY <2>2 DEF AddFinalizer, RemoveFinalizer, Fail, SyncStatus, Requeue
      <3> QED
        BY <3>1, <3>2 DEF OwnersMove
    <2> QED
      BY <2>1, <2>2
         DEF Reconcile, Applied, Pruned, Cleanup, Purged, RemoveClass, Begin, Apply, RemoveListed
  <1>3. \A j \in Kinds : j # k /\ Working(j) => worker[j].o \notin k
    BY WorkerLemma
  <1>4. ASSUME NEW o \in k, Skips(k, o) \/ Takes(k, o)
        PROVE  QueueMoves /\ WorkersMove /\ Released
    <2>1. /\ ~Working(k) /\ queue' = queue \ {o} /\ o \in Owners
          /\ Working(k)' => /\ worker'[k].pc = FirstStep(o) /\ worker'[k].o = o
                            /\ worker'[k].obj = owner[o] /\ owner[o].st # "none"
      BY <1>4 DEF Skips, Takes, Working, Kinds, Owners
    <2>2. owner[o].st # "none" => Working(k)' /\ worker'[k].o = o
      BY <1>4 DEF Skips, Takes, Working, FirstStep
    <2>3. QueueMoves
      BY <2>1, <2>2 DEF QueueMoves
    <2>4. WorkersMove
      BY <1>1, <1>3, <2>1 DEF WorkersMove, Working, ReadInv, At
    <2>5. Released
      BY <1>1, <2>1 DEF Released, Working
    <2> QED
      BY <2>3, <2>4, <2>5
  <1>5. ASSUME GoesOn(k)
        PROVE  QueueMoves /\ WorkersMove /\ Released
    <2>1. QueueMoves /\ Released
      BY <1>1, <1>5 DEF GoesOn, QueueMoves, Released, Working
    <2>2. WorkersMove
      BY <1>1, <1>5 DEF GoesOn, WorkersMove, Working, ReadInv, At
    <2> QED
      BY <2>1, <2>2
  <1>6. ASSUME Ends(k)
        PROVE  QueueMoves /\ WorkersMove /\ Released
    <2>1. ~Working(k)' /\ queue \subseteq queue'
      BY <1>6, Constants DEF Ends, Working
    <2>2. QueueMoves /\ WorkersMove
      BY <1>1, <2>1 DEF QueueMoves, WorkersMove, Working, ReadInv, At
    <2>3. PICK o \in Owners : o = w.o
      BY <1>6, WorkerLemma DEF Ends
    <2>4. CASE RemoveClass(k)
      BY <1>1, <2>1, <2>2, <2>3, <2>4 DEF RemoveClass, ReadInv, At, Released, Working
    <2>5. CASE SyncStatus(k)
      <3> SUFFICES ASSUME o \notin queue'
                   PROVE  NeedsNothing(o)'
        BY <1>1, <2>1, <2>2, <2>3 DEF Released, Working
      <3>1. /\ UNCHANGED <<owner, status>> /\ status[o] = NewStatus(k) /\ o \notin queue
            /\ w.pc = "status"
        BY <2>3, <2>5 DEF SyncStatus, Requeue, TypeOK
      <3>2. owner[o] = w.obj /\ owner[o].st = "live"
        BY <1>6, <2>3, <3>1 DEF Ends, ReadInv, At, LiveSteps
      <3>3. (k = LVs <=> o \in LVs) /\ (k = Sets <=> o \in Sets)
        BY <1>6, <2>3, WorkerLemma DEF Ends
      <3>4. Serving(o) => status[o] = [state |-> "ready", gen |-> owner[o].gen]
        BY <2>3, <3>1, <3>2, <3>3 DEF Serving, NewStatus, Kinds
      <3> QED
        BY <3>1, <3>2, <3>4 DEF NeedsNothing, Serving
    <2> QED
      BY <1>1, <1>6, <2>1, <2>2, <2>3, <2>4, <2>5 DEF Released, Ends, Working
  <1> QED
    BY <1>1, <1>2, <1>4, <1>5, <1>6 DEF Moves

\* What any step does to requests.
LEMMA StepMoves ==
    ASSUME QueueInv, [Next]_vars
    PROVE  Moves
  <1> USE DEF QueueInv
  <1>1. CASE UserStep
    <2>1. UNCHANGED worker /\ queue \subseteq queue'
      BY <1>1 DEF UserStep, Create, Edit, Delete, AddPV, DropPV, PVEvent
    <2>2. OwnersMove
      BY <1>1, ZenonT(60) DEF UserStep, OwnersMove, Create, Edit, Delete, AddPV, DropPV, TypeOK
    <2> QED
      BY <2>1, <2>2, UserMoves
  <1>2. CASE Crash
    <2>1. /\ UNCHANGED <<owner, status>> /\ queue' = {o \in Owners : owner[o].st # "none"}
          /\ \A k \in Kinds : ~Working(k)'
      BY <1>2, Constants DEF Crash, Working
    <2>2. \A k \in Kinds : Working(k) => worker[k].o \in Owners
      BY WorkerLemma
    <2> QED
      BY <2>1, <2>2 DEF Moves, OwnersMove, QueueMoves, WorkersMove, Released, TypeOK
  <1>3. CASE UNCHANGED vars
    BY <1>3, UserMoves DEF vars, OwnersMove
  <1> QED
    BY <1>1, <1>2, <1>3, WorkerMoves DEF Next, UserStep

\* An owner that is being deleted has a finalizer, and one that is gone has none.
LEMMA OwnerStep ==
    ASSUME QueueInv, [Next]_vars
    PROVE  OwnerInv'
  <1> USE DEF QueueInv
  <1>1. CASE UserStep
    <2>1. \A o \in Owners : Left(o) \/ Created(o) \/ Edited(o) \/ Deleted(o)
      BY <1>1, UserView
    <2>2. \A o \in Owners : owner'[o].st = "none" => owner[o].st = "none" \/ ~owner'[o].fin
      BY <2>1 DEF Left, Created, Edited, Deleted
    <2> QED
      BY <2>1, <2>2 DEF OwnerInv, Left, Created, Edited, Deleted
  <1>2. ASSUME NEW k \in Kinds, AddFinalizer(k)
        PROVE  OwnerInv'
    <2>1. Working(k) /\ worker[k].obj.st = "live" /\ owner[worker[k].o] = worker[k].obj
      BY <1>2 DEF AddFinalizer, Working, ReadInv, At, LiveSteps, Unchanged
    <2>2. worker[k].o \in Owners /\ owner[worker[k].o] \in Owner
      BY <2>1, WorkerLemma
    <2>3. /\ owner'[worker[k].o].st = "live"
          /\ \A p \in Owners : p # worker[k].o => owner'[p] = owner[p]
      BY <1>2, <2>1, <2>2 DEF AddFinalizer, TypeOK, Owner
    <2> QED
      BY <2>3 DEF OwnerInv
  <1>3. ASSUME NEW k \in Kinds, RemoveFinalizer(k)
        PROVE  OwnerInv'
    <2>1. Working(k)
      BY <1>3 DEF RemoveFinalizer, Working
    <2>2. worker[k].o \in Owners /\ owner[worker[k].o].gen \in 0..MaxGen
      BY <2>1, WorkerLemma DEF Owner
    <2>3. /\ owner'[worker[k].o] = NoOwner(owner[worker[k].o].gen)
          /\ \A p \in Owners : p # worker[k].o => owner'[p] = owner[p]
      BY <1>3, <2>2 DEF RemoveFinalizer, TypeOK
    <2> QED
      BY <2>2, <2>3, Constants DEF OwnerInv
  <1>4. ASSUME UNCHANGED owner
        PROVE  OwnerInv'
    BY <1>4 DEF OwnerInv
  <1>5. \/ UserStep
        \/ \E k \in Kinds : AddFinalizer(k) \/ RemoveFinalizer(k)
        \/ UNCHANGED owner
    BY ZenonT(60) DEF Next, vars, UserStep, Reconcile, Begin, Apply, Applied, RemoveListed, Pruned,
           SyncStatus, Cleanup, Purged, RemoveClass, Fail, Crash
  <1> QED
    BY <1>1, <1>2, <1>3, <1>4, <1>5

\* The invariant of the queue, at first ...
LEMMA QueueInit == Init => QueueInv
  <1> SUFFICES ASSUME Init PROVE QueueInv
    OBVIOUS
  <1>1. TypeOK
    BY TypeInit
  <1>2. \A k \in Kinds : worker[k].pc = "idle"
    BY Constants DEF Init
  <1>3. \A o \in Owners : owner[o].st = "none" /\ ~owner[o].fin
    BY Constants, ClassConstants DEF Init
  <1> QED
    BY <1>1, <1>2, <1>3
       DEF QueueInv, OwnerInv, ReadInv, RequestInv, NeedsNothing, Serving, Working, At, LiveSteps

\* ... and after every step.
LEMMA QueueStep ==
    ASSUME QueueInv, [Next]_vars
    PROVE  QueueInv'
  <1> USE DEF QueueInv
  <1>1. TypeOK' /\ OwnerInv'
    BY TypeStep, OwnerStep
  <1>2. OwnersMove /\ QueueMoves /\ WorkersMove /\ Released
    BY StepMoves DEF Moves
  <1>3. ReadInv'
    <2> SUFFICES ASSUME NEW k \in Kinds, Working(k)'
                 PROVE  /\ owner'[worker'[k].o] = worker'[k].obj \/ worker'[k].o \in queue'
                        /\ At(k, LiveSteps)'
                               => worker'[k].obj.st = "live"
                        /\ At(k, {"removeClass"})' => worker'[k].o \in queue'
      BY DEF ReadInv, Working, At, LiveSteps
    <2>1. CASE Working(k)
      <3>1. /\ worker'[k].o = worker[k].o
            /\ worker[k].o \in queue => worker[k].o \in queue'
            /\ worker'[k].obj = worker[k].obj \/ worker'[k].o \in queue'
            /\ worker'[k].pc = "removeClass" => worker'[k].o \in queue'
            /\ worker'[k].pc \in LiveSteps =>
                   worker'[k].obj.st = "live"
        BY <1>2, <2>1 DEF WorkersMove
      <3>2. worker[k].o \in Owners /\ owner[worker[k].o] \in Owner
        BY <2>1, WorkerLemma
      <3> QED
        BY <1>2, <2>1, <3>1, <3>2 DEF OwnersMove, ReadInv, At
    <2>2. CASE ~Working(k)
      <3>1. /\ worker'[k].o \in Owners /\ worker'[k].obj = owner[worker'[k].o]
            /\ worker'[k].pc = FirstStep(worker'[k].o) /\ worker'[k].obj.st # "none"
        BY <1>2, <2>2 DEF WorkersMove
      <3>2. worker'[k].obj.st \in {"live", "deleting"}
        BY <3>1 DEF TypeOK, Owner
      <3>3. worker'[k].pc \notin {"prune", "removeClass"} /\
            (worker'[k].pc # "cleanup" => worker'[k].obj.st = "live")
        BY <3>1, <3>2 DEF FirstStep
      <3>4. owner'[worker'[k].o] = worker'[k].obj \/ worker'[k].o \in queue'
        BY <1>2, <3>1 DEF OwnersMove
      <3> QED
        BY <3>3, <3>4 DEF At, LiveSteps
    <2> QED
      BY <2>1, <2>2
  <1>4. RequestInv'
    <2> SUFFICES ASSUME NEW o \in Owners, o \notin queue'
                 PROVE  NeedsNothing(o)' \/ \E k \in Kinds : Working(k)' /\ worker'[k].o = o
      BY DEF RequestInv
    <2>1. owner'[o] = owner[o] /\ status'[o] = status[o]
      BY <1>2 DEF OwnersMove
    <2>2. NeedsNothing(o) => NeedsNothing(o)'
      BY <2>1 DEF NeedsNothing, Serving
    <2>3. owner[o].st = "none" => NeedsNothing(o)
      BY DEF NeedsNothing, Serving
    <2>4. CASE o \in queue
      BY <1>2, <2>2, <2>3, <2>4 DEF QueueMoves
    <2>5. ASSUME NEW k \in Kinds, Working(k), worker[k].o = o
          PROVE  NeedsNothing(o)' \/ (Working(k)' /\ worker'[k].o = o)
      BY <1>2, <2>2, <2>3, <2>5 DEF WorkersMove, Released
    <2> QED
      BY <2>2, <2>4, <2>5 DEF RequestInv
  <1> QED
    BY <1>1, <1>3, <1>4

(***************************************************************************)
(* No owner is forgotten: whatever fails, is refused, or restarts, an      *)
(* owner that still needs something is a request or is being reconciled,   *)
(* so that when nothing is left to do every owner is reported ready at its *)
(* generation and none is still being deleted.                             *)
(***************************************************************************)
THEOREM NoOwnerIsForgotten == Spec => []NoneForgotten
  <1>1. QueueInv => NoneForgotten
    BY DEF QueueInv, RequestInv, NoneForgotten, Quiet, NeedsNothing, Working
  <1>2. QueueInv /\ [Next]_vars => QueueInv'
    BY QueueStep
  <1> QED
    BY <1>1, <1>2, QueueInit, PTL DEF Spec

-----------------------------------------------------------------------------
\* The classes an owner names, a reconciler deals with, and a label stands on are
\* classes that the owner may name.
LEMMA WantStep ==
    ASSUME TypeOK, WantInv, [Next]_vars
    PROVE  WantInv'
  <1> DEFINE Wanted == \A o \in Owners : owner[o].want \subseteq All(o)
             Dealt == \A k \in Kinds : Working(k) =>
                          worker[k].todo \cup worker[k].obj.want \subseteq All(worker[k].o)
             Labels == \A c \in Classes : sc[c] # Free => c \in All(sc[c])
  <1>1. Wanted /\ Dealt /\ Labels
    BY DEF WantInv
  <1>2. SUFFICES Wanted' /\ Dealt' /\ Labels'
    BY DEF WantInv
  <1>3. ASSUME UserStep
        PROVE  Wanted' /\ Dealt' /\ Labels'
    <2>1. UNCHANGED <<sc, worker>>
      BY <1>3, UserView
    <2>2. ASSUME NEW o \in Owners
          PROVE  owner'[o].want \subseteq All(o)
      <3>1. Left(o) \/ Created(o) \/ Edited(o) \/ Deleted(o)
        BY <1>3, UserView
      <3> QED
        BY <1>1, <3>1 DEF Left, Created, Edited, Deleted, All
    <2> QED
      BY <1>1, <2>1, <2>2 DEF Working
  <1>4. ASSUME NEW k \in Kinds, Reconcile(k) \/ Fail(k)
        PROVE  Wanted' /\ Dealt' /\ Labels'
    <2>1. /\ \A j \in Kinds : j # k => worker'[j] = worker[j]
          /\ GoesOn(k) \/ Ends(k) \/ \E o \in k : Skips(k, o) \/ Takes(k, o)
      BY <1>4, WorkerView
    <2>2. ASSUME Working(k)
          PROVE  /\ worker[k].o \in Owners /\ worker[k].todo \subseteq All(worker[k].o)
                 /\ worker[k].obj.want \subseteq All(worker[k].o)
                 /\ Labelled(worker[k].o) \subseteq All(worker[k].o)
                 /\ owner[worker[k].o] \in Owner /\ owner[worker[k].o].gen \in 0..MaxGen
      <3>1. worker[k].o \in Owners /\ worker[k].o # Free /\ owner[worker[k].o] \in Owner
        BY <2>2, WorkerLemma, Constants
      <3> QED
        BY <1>1, <2>2, <3>1 DEF Labelled, Owner
    <2>3. Wanted'
      <3>1. CASE UNCHANGED owner
        BY <1>1, <3>1
      <3>2. CASE AddFinalizer(k)
        <4>1. Working(k) /\ owner' = [owner EXCEPT ![worker[k].o].fin = TRUE]
          BY <3>2 DEF AddFinalizer, Working
        <4>2. \A o \in Owners : owner'[o].want = owner[o].want
          BY <2>2, <4>1 DEF TypeOK, Owner
        <4> QED
          BY <1>1, <4>2
      <3>3. CASE RemoveFinalizer(k)
        <4>1. Working(k) /\ owner' = [owner EXCEPT ![worker[k].o] = NoOwner(@.gen)]
          BY <3>3 DEF RemoveFinalizer, Working
        <4>2. \A o \in Owners : owner'[o] = owner[o] \/ owner'[o].want = {}
          BY <2>2, <4>1, Constants DEF TypeOK
        <4> QED
          BY <1>1, <4>2
      <3> QED
        BY <1>4, <3>1, <3>2, <3>3
           DEF Reconcile, Fail, Applied, Pruned, SyncStatus, Cleanup, Purged, RemoveClass, Begin,
               Apply, RemoveListed
    <2>4. Dealt'
      <3>1. ASSUME NEW o \in k, Ends(k) \/ Skips(k, o)
            PROVE  Dealt'
        BY <1>1, <2>1, <3>1, Constants DEF Working, Ends, Skips
      <3>2. CASE GoesOn(k)
        BY <1>1, <2>1, <2>2, <3>2 DEF Working, GoesOn
      <3>3. ASSUME NEW o \in k, Takes(k, o)
            PROVE  Dealt'
        <4>1. /\ worker'[k].o = o /\ worker'[k].todo = owner[o].want
              /\ worker'[k].obj = owner[o] /\ o \in Owners
          BY <3>3 DEF Takes, Kinds, Owners
        <4> QED
          BY <1>1, <2>1, <4>1 DEF Working
      <3>4. Ends(k) => \E o \in k : Ends(k)
        BY WorkerLemma DEF Ends
      <3> QED
        BY <2>1, <3>1, <3>2, <3>3, <3>4
    <2>5. Labels'
      <3>1. ASSUME NEW c \in Classes, Apply(k, c)
            PROVE  Labels'
        <4>1. Working(k) /\ c \in worker[k].todo /\ sc' = [sc EXCEPT ![c] = worker[k].o]
          BY <3>1 DEF Apply, Working
        <4> QED
          BY <1>1, <2>2, <4>1 DEF TypeOK
      <3>2. ASSUME \A c \in Classes : sc'[c] = sc[c] \/ sc'[c] = Free
            PROVE  Labels'
        BY <1>1, <3>2
      <3>3. (\A c \in Classes : sc'[c] = sc[c] \/ sc'[c] = Free) \/ \E c \in Classes : Apply(k, c)
        BY <1>4
           DEF Reconcile, Fail, AddFinalizer, Applied, Pruned, SyncStatus, Cleanup, Purged,
               RemoveFinalizer, RemoveClass, Begin, RemoveListed, TypeOK
      <3> QED
        BY <3>1, <3>2, <3>3
    <2> QED
      BY <2>3, <2>4, <2>5
  <1>5. CASE Crash
    <2>1. UNCHANGED <<owner, sc>> /\ \A k \in Kinds : worker'[k].pc = "idle"
      BY <1>5, Constants DEF Crash
    <2> QED
      BY <1>1, <2>1 DEF Working
  <1>6. CASE UNCHANGED vars
    BY <1>1, <1>6 DEF vars, Working
  <1> HIDE DEF Wanted, Dealt, Labels
  <1> QED
    BY <1>3, <1>4, <1>5, <1>6 DEF Next, UserStep

-----------------------------------------------------------------------------
(* What a LocalVolume leaves behind.                                       *)

(***************************************************************************)
(* A LocalVolume has a finalizer as long as a class carries its labels.    *)
(***************************************************************************)
LabelInv ==
    \A o \in LVs : owner[o].fin \/ Labelled(o) = {}

LVWorkerInv ==
    LET w == worker[LVs] IN
    /\ w.pc \in {"apply", "prune", "status", "cleanup", "purge", "removeFinalizer"} =>
           owner[w.o].fin
    /\ w.pc \in {"cleanup", "purge", "removeFinalizer"} => owner[w.o].st = "deleting"
    /\ w.pc = "purge" /\ ~w.bad => Labelled(w.o) \subseteq w.todo
    /\ w.pc = "removeFinalizer" => Labelled(w.o) = {}

ClassInv == QueueInv /\ KindInv /\ LabelInv /\ LVWorkerInv

\* A step of users or of the other reconciler leaves a LocalVolume its finalizer,
\* and puts its labels on no class.
LEMMA LVKeepsFinalizer ==
    ASSUME ClassInv,
           \/ UserStep
           \/ \E k \in Kinds : k # LVs /\ (Reconcile(k) \/ Fail(k))
           \/ UNCHANGED vars
    PROVE  /\ worker'[LVs] = worker[LVs]
           /\ \A o \in LVs : /\ owner[o].fin => owner'[o].fin
                             /\ owner[o].st = "deleting" => owner'[o].st = "deleting"
                             /\ Labelled(o)' \subseteq Labelled(o)
  <1> USE DEF ClassInv, QueueInv
  <1>1. LVs \subseteq Owners
    BY DEF Owners
  <1>2. CASE UserStep
    <2>1. UNCHANGED <<sc, worker>>
      BY <1>2, UserView
    <2>2. \A o \in LVs : Left(o) \/ Created(o) \/ Edited(o) \/ Deleted(o)
      BY <1>1, <1>2, UserView
    <2>3. \A o \in LVs : /\ owner[o].fin => owner'[o].fin
                         /\ owner[o].st = "deleting" => owner'[o].st = "deleting"
      BY <1>1, <2>2 DEF Left, Created, Edited, Deleted, OwnerInv
    <2> QED
      BY <2>1, <2>3 DEF Labelled
  <1>3. ASSUME NEW k \in Kinds, k # LVs, Reconcile(k) \/ Fail(k)
        PROVE  /\ worker'[LVs] = worker[LVs]
               /\ \A o \in LVs : Left(o) /\ Labelled(o)' \subseteq Labelled(o)
    <2>1. /\ worker'[LVs] = worker[LVs] /\ \A o \in LVs : Left(o)
          /\ \A c \in Classes : sc'[c] # sc[c] => sc'[c] \notin LVs
      BY <1>3, SetWorkerView
    <2> QED
      BY <2>1 DEF Labelled
  <1>4. CASE UNCHANGED vars
    BY <1>4 DEF vars, Labelled
  <1> QED
    BY <1>2, <1>3, <1>4 DEF Left

\* The reconciler of LocalVolumes labels a class only while its LocalVolume has a
\* finalizer, and takes the finalizer when it has removed the classes.
LEMMA LVWorkerLabels ==
    ASSUME TypeOK, OwnerInv, KindInv, LabelInv, LVWorkerInv, Reconcile(LVs) \/ Fail(LVs)
    PROVE  (LabelInv /\ LVWorkerInv)'
  <1> DEFINE w == worker[LVs]
             Same == UNCHANGED <<owner, sc>>
  <1>0. LVs \subseteq Owners /\ LVs \in Kinds
    BY DEF Owners, Kinds
  <1>1. ASSUME worker'[LVs].pc = "idle"
        PROVE  LVWorkerInv'
    BY <1>1 DEF LVWorkerInv
  <1>2. ASSUME Same
        PROVE  LabelInv'
    BY <1>2 DEF LabelInv, Labelled
  <1>3. ASSUME NEW o \in LVs, Begin(LVs, o)
        PROVE  (LabelInv /\ LVWorkerInv)'
    <2>1. o \in Owners /\ owner[o] \in Owner /\ Same /\ worker[LVs].pc = "idle"
      BY <1>0, <1>3 DEF TypeOK, Begin
    <2>2. CASE owner[o].st = "none"
      <3>1. worker' = worker
        BY <1>3, <2>2 DEF Begin
      <3> QED
        BY <1>1, <1>2, <2>1, <3>1
    <2>3. CASE owner[o].st # "none"
      <3>1. worker'[LVs].pc = FirstStep(o) /\ worker'[LVs].o = o /\ owner' = owner
        BY <1>0, <1>3, <2>3 DEF Begin, TypeOK
      <3>2. owner[o].st \in {"live", "deleting"} /\ owner[o].fin \in BOOLEAN
        BY <2>1, <2>3 DEF Owner
      <3>3. /\ FirstStep(o) \in {"apply", "status", "cleanup"} => owner[o].fin
            /\ FirstStep(o) = "cleanup" => owner[o].st = "deleting"
            /\ FirstStep(o) \notin {"prune", "purge", "removeFinalizer"}
        BY <2>1, <3>2 DEF FirstStep, OwnerInv
      <3>4. LVWorkerInv'
        BY <3>1, <3>3 DEF LVWorkerInv
      <3> QED
        BY <1>2, <2>1, <3>4
    <2> QED
      BY <2>2, <2>3
  <1>4. ASSUME Working(LVs)
        PROVE  /\ w \in Workers /\ w.o \in LVs /\ w.o \in Owners /\ owner[w.o] \in Owner
               /\ w.todo \in SUBSET Classes
    BY <1>0, <1>4, WorkerLemma
  <1>5. CASE AddFinalizer(LVs)
    <2>1. Working(LVs)
      BY <1>5 DEF AddFinalizer, Working
    <2>2. /\ worker'[LVs].pc = "idle" /\ UNCHANGED sc
          /\ owner' = [owner EXCEPT ![w.o].fin = TRUE]
      BY <1>0, <1>5, Constants DEF AddFinalizer, TypeOK
    <2>3. \A o \in LVs : owner'[o].fin = owner[o].fin \/ owner'[o].fin
      BY <1>0, <1>4, <2>1, <2>2 DEF TypeOK, Owner
    <2>4. LabelInv'
      BY <2>2, <2>3 DEF LabelInv, Labelled
    <2> QED
      BY <1>1, <2>2, <2>4
  <1>6. ASSUME NEW c \in Classes, Apply(LVs, c)
        PROVE  (LabelInv /\ LVWorkerInv)'
    <2>1. Working(LVs) /\ w.pc = "apply" /\ UNCHANGED owner /\ sc' = [sc EXCEPT ![c] = w.o]
      BY <1>6 DEF Apply, Working
    <2>2. worker'[LVs].pc = "apply" /\ worker'[LVs].o = w.o
      BY <1>0, <1>4, <1>6, <2>1, GotoLemma DEF Apply, Steps
    <2>3. owner[w.o].fin
      BY <2>1 DEF LVWorkerInv
    <2>4. LabelInv'
      BY <2>1, <2>3 DEF LabelInv, Labelled, TypeOK
    <2>5. LVWorkerInv'
      BY <2>1, <2>2, <2>3 DEF LVWorkerInv
    <2> QED
      BY <2>4, <2>5
  <1>7. CASE Applied(LVs) \/ Pruned(LVs)
    <2>1. Working(LVs) /\ w.pc \in {"apply", "prune"} /\ Same
      BY <1>7 DEF Applied, Pruned, Working
    <2>2. PICK pc \in {"prune", "status"}, todo \in SUBSET Classes : Goto(LVs, pc, todo)
      BY <1>7 DEF Applied, Pruned, Labelled
    <2>3. worker'[LVs].pc = pc /\ worker'[LVs].o = w.o
      BY <1>0, <2>1, <2>2, GotoLemma DEF Steps
    <2>4. owner[w.o].fin
      BY <2>1 DEF LVWorkerInv
    <2>5. LVWorkerInv'
      BY <2>1, <2>3, <2>4 DEF LVWorkerInv
    <2> QED
      BY <1>2, <2>1, <2>5
  <1>8. ASSUME NEW c \in Classes, RemoveListed(LVs, c)
        PROVE  (LabelInv /\ LVWorkerInv)'
    <2>1. Working(LVs) /\ w.pc \in {"prune", "purge"} /\ UNCHANGED owner
      BY <1>8 DEF RemoveListed, Working
    <2>2. w \in Workers /\ w.todo \ {c} \in SUBSET Classes /\ w.pc \in Steps
      BY <1>4, <2>1 DEF Workers
    <2>3. \/ /\ sc' = [sc EXCEPT ![c] = Free]
             /\ worker'[LVs].todo = w.todo \ {c} /\ worker'[LVs].bad = w.bad
             /\ worker'[LVs].pc = w.pc /\ worker'[LVs].o = w.o
          \/ /\ sc' = sc /\ worker'[LVs].bad
             /\ worker'[LVs].pc = w.pc /\ worker'[LVs].o = w.o
      <3>1. CASE sc' = [sc EXCEPT ![c] = Free] /\ Goto(LVs, w.pc, w.todo \ {c})
        BY <1>0, <2>1, <2>2, <3>1, GotoLemma
      <3>2. CASE sc' = sc /\ worker' = [worker EXCEPT ![LVs].todo = @ \ {c}, ![LVs].bad = TRUE]
        <4>1. worker'[LVs] = [w EXCEPT !.todo = @ \ {c}, !.bad = TRUE]
          BY <1>0, <3>2 DEF TypeOK
        <4>2. worker'[LVs].pc = w.pc /\ worker'[LVs].o = w.o /\ worker'[LVs].bad = TRUE
          BY <2>2, <4>1 DEF Workers
        <4> QED
          BY <3>2, <4>2
      <3> QED
        BY <1>8, <3>1, <3>2 DEF RemoveListed
    <2>4. owner[w.o].fin /\ (w.pc = "purge" => owner[w.o].st = "deleting")
      BY <2>1 DEF LVWorkerInv
    <2>5. Free \notin LVs
      BY <1>0, Constants
    <2>6. LabelInv'
      BY <2>1, <2>3, <2>5 DEF LabelInv, Labelled, TypeOK
    <2>7. w.pc = "purge" /\ ~worker'[LVs].bad => \A d \in Classes : sc'[d] = w.o => d \in worker'[LVs].todo
      BY <1>4, <2>1, <2>3, <2>5 DEF LVWorkerInv, Labelled, TypeOK
    <2>8. LVWorkerInv'
      BY <2>1, <2>3, <2>4, <2>7 DEF LVWorkerInv, Labelled
    <2> QED
      BY <2>6, <2>8
  <1>9. CASE Cleanup(LVs)
    <2>1. Working(LVs) /\ w.pc = "cleanup" /\ Same /\ Goto(LVs, "purge", Labelled(w.o))
      BY <1>9 DEF Cleanup, Working
    <2>2. worker'[LVs].pc = "purge" /\ worker'[LVs].o = w.o /\ worker'[LVs].todo = Labelled(w.o)
      BY <1>0, <2>1, GotoLemma DEF Steps, Labelled
    <2>3. owner[w.o].fin /\ owner[w.o].st = "deleting"
      BY <2>1 DEF LVWorkerInv
    <2>4. LVWorkerInv'
      BY <2>1, <2>2, <2>3 DEF LVWorkerInv, Labelled
    <2> QED
      BY <1>2, <2>1, <2>4
  <1>10. CASE Purged(LVs)
    <2>1. Working(LVs) /\ w.pc = "purge" /\ w.todo = {} /\ Same
      BY <1>10 DEF Purged, Working
    <2>2. CASE w.bad
      BY <1>0, <1>1, <1>2, <1>10, <2>1, <2>2, DoneLemma DEF Purged
    <2>3. CASE ~w.bad
      <3>1. worker'[LVs].pc = "removeFinalizer" /\ worker'[LVs].o = w.o
        BY <1>0, <1>10, <2>1, <2>3, GotoLemma DEF Purged, Steps
      <3>2. owner[w.o].fin /\ owner[w.o].st = "deleting" /\ Labelled(w.o) = {}
        BY <2>1, <2>3 DEF LVWorkerInv
      <3>3. LVWorkerInv'
        BY <2>1, <3>1, <3>2 DEF LVWorkerInv, Labelled
      <3> QED
        BY <1>2, <2>1, <3>3
    <2> QED
      BY <2>2, <2>3
  <1>11. CASE RemoveFinalizer(LVs)
    <2>1. /\ Working(LVs) /\ w.pc = "removeFinalizer" /\ Done(LVs) /\ UNCHANGED sc
          /\ owner' = [owner EXCEPT ![w.o] = NoOwner(@.gen)]
      BY <1>11 DEF RemoveFinalizer, Working
    <2>2. Labelled(w.o) = {}
      BY <2>1 DEF LVWorkerInv
    <2>3. \A o \in LVs : o # w.o => owner'[o] = owner[o]
      BY <1>0, <2>1 DEF TypeOK
    <2>4. LabelInv'
      BY <2>1, <2>2, <2>3 DEF LabelInv, Labelled
    <2> QED
      BY <1>0, <1>1, <2>1, <2>4, DoneLemma
  <1>12. CASE SyncStatus(LVs) \/ Fail(LVs)
    BY <1>0, <1>1, <1>2, <1>12, DoneLemma DEF SyncStatus, Fail
  <1>13. CASE RemoveClass(LVs)
    BY <1>0, <1>13 DEF RemoveClass, KindInv, At
  <1> QED
    BY <1>3, <1>5, <1>6, <1>7, <1>8, <1>9, <1>10, <1>11, <1>12, <1>13 DEF Reconcile

\* Every step keeps the finalizer of a LocalVolume whose labels are on a class.
LEMMA ClassStep ==
    ASSUME ClassInv, [Next]_vars
    PROVE  ClassInv'
  <1> USE DEF ClassInv, QueueInv
  <1> DEFINE w == worker[LVs]
  <1>1. QueueInv' /\ KindInv' /\ TypeOK'
    BY QueueStep, KindStep
  <1>2. LVs \subseteq Owners /\ LVs \in Kinds
    BY DEF Owners, Kinds
  <1>3. ASSUME \/ UserStep
               \/ \E k \in Kinds : k # LVs /\ (Reconcile(k) \/ Fail(k))
               \/ UNCHANGED vars
        PROVE  (LabelInv /\ LVWorkerInv)'
    <2>1. /\ worker'[LVs] = worker[LVs]
          /\ \A o \in LVs : /\ owner[o].fin => owner'[o].fin
                            /\ owner[o].st = "deleting" => owner'[o].st = "deleting"
                            /\ Labelled(o)' \subseteq Labelled(o)
      BY <1>3, LVKeepsFinalizer
    <2>2. w.pc # "idle" => w.o \in LVs
      BY <1>2 DEF TypeOK
    <2>3. LabelInv'
      BY <2>1 DEF LabelInv
    <2>4. w.o \in LVs => \A c \in Classes : sc'[c] = w.o => c \in Labelled(w.o)
      BY <2>1 DEF Labelled
    <2> QED
      BY <2>1, <2>2, <2>3, <2>4 DEF LVWorkerInv, Labelled
  <1>4. ASSUME Reconcile(LVs) \/ Fail(LVs)
        PROVE  (LabelInv /\ LVWorkerInv)'
    BY <1>4, LVWorkerLabels
  <1>5. ASSUME Crash
        PROVE  (LabelInv /\ LVWorkerInv)'
    <2>1. worker'[LVs].pc = "idle" /\ UNCHANGED <<owner, sc>>
      BY <1>2, <1>5, Constants DEF Crash
    <2> QED
      BY <2>1 DEF LabelInv, LVWorkerInv, Labelled
  <1>6. (LabelInv /\ LVWorkerInv)'
    <2> HIDE DEF ClassInv, QueueInv
    <2>1. \/ UserStep \/ UNCHANGED vars \/ Crash
          \/ \E k \in Kinds : Reconcile(k) \/ Fail(k)
      BY DEF Next, UserStep
    <2> QED
      BY <1>3, <1>4, <1>5, <2>1
  <1> QED
    BY <1>1, <1>6

\* At first there are no labels.
LEMMA ClassInit == Init => ClassInv
  <1> SUFFICES ASSUME Init PROVE ClassInv
    OBVIOUS
  <1>1. QueueInv
    BY QueueInit
  <1>2. (\A k \in Kinds : worker[k].pc = "idle") /\ LVs \in Kinds
    BY Constants DEF Init, Kinds
  <1>3. LabelInv
    <2>1. \A c \in Classes : sc[c] \notin LVs
      BY Constants DEF Init, Owners
    <2> QED
      BY <2>1 DEF LabelInv, Labelled
  <1> QED
    BY <1>1, <1>2, <1>3 DEF ClassInv, KindInv, LVWorkerInv, At

(***************************************************************************)
(* A LocalVolume that is gone left no storage class behind that carries    *)
(* its labels, with any number of other owners that apply and remove       *)
(* classes, also the same ones, at the same time.                          *)
(***************************************************************************)
THEOREM LocalVolumesLeaveNoClass == Spec => []LVLeavesNoClass
  <1>1. ClassInv => LVLeavesNoClass
    BY DEF ClassInv, QueueInv, OwnerInv, LabelInv, Labelled, LVLeavesNoClass, Owners
  <1>2. ClassInv /\ [Next]_vars => ClassInv'
    BY ClassStep
  <1> QED
    BY <1>1, <1>2, ClassInit, PTL DEF Spec

-----------------------------------------------------------------------------
(* The status.                                                             *)

\* No two owners may name the same class.
NoneShared == \A o, p \in Owners : o # p => All(o) \cap All(p) = {}

(***************************************************************************)
(* A generation determines the classes; the status of a LocalVolume is at  *)
(* most at the generation its reconciler has read.                         *)
(***************************************************************************)
GenInv ==
    LET w == worker[LVs] IN
    /\ \A o \in LVs : status[o].gen <= owner[o].gen
    /\ Working(LVs) =>
           /\ status[w.o].gen <= w.obj.gen /\ w.obj.gen <= owner[w.o].gen
           /\ owner[w.o].st # "none" /\ w.obj.gen = owner[w.o].gen =>
                  w.obj.want = owner[w.o].want /\ w.obj.managed = owner[w.o].managed

AppliedInv ==
    LET w == worker[LVs] IN
    /\ w.pc = "apply" => \A c \in w.obj.want \ w.todo : sc[c] = w.o
    /\ w.pc \in {"prune", "status"} /\ w.obj.managed => \A c \in w.obj.want : sc[c] = w.o
    /\ w.pc = "prune" => w.obj.want \cap w.todo = {}
    /\ w.pc \in {"apply", "prune"} => w.obj.managed

StatusInv == GenInv /\ AppliedInv /\ ReadyHasClasses
ReadyInv == ClassInv /\ WantInv /\ StatusInv

\* Generations are numbers.
LEMMA Gens ==
    ASSUME TypeOK
    PROVE  /\ \A o \in Owners : owner[o].gen \in Nat /\ status[o].gen \in Nat
           /\ Working(LVs) => worker[LVs].obj.gen \in Nat /\ worker[LVs].o \in LVs
  <1>1. \A o \in Owners : owner[o].gen \in 0..MaxGen /\ status[o].gen \in 0..MaxGen
    BY DEF TypeOK, Owner
  <1>2. LVs \in Kinds
    BY DEF Kinds
  <1>3. worker[LVs].obj.gen \in 0..MaxGen
    BY <1>2 DEF TypeOK, Workers, Owner
  <1> QED
    BY <1>1, <1>2, <1>3, ClassConstants DEF TypeOK, Working

\* A step of users raises the generation of what it changes.
LEMMA UserStatus ==
    ASSUME TypeOK, KindInv, LVWorkerInv, WantInv, GenInv, AppliedInv,
           ReadyHasClasses, UserStep
    PROVE  StatusInv'
  <1>1. UNCHANGED <<sc, worker>> /\ LVs \subseteq Owners
    BY UserView DEF Owners
  <1>2. \A o \in LVs : Left(o) \/ Created(o) \/ Edited(o) \/ Deleted(o)
    BY <1>1, UserView
  <1>3. /\ \A o \in LVs : owner[o].gen \in Nat /\ status[o].gen \in Nat
        /\ Working(LVs) => worker[LVs].obj.gen \in Nat /\ worker[LVs].o \in LVs
    BY <1>1, Gens
  <1>4. GenInv'
    <2> DEFINE w == worker[LVs]
    <2>1. \A o \in LVs : status'[o].gen <= owner'[o].gen
      BY <1>2, <1>3 DEF GenInv, Left, Created, Edited, Deleted
    <2>2. ASSUME Working(LVs)
          PROVE  /\ status'[w.o].gen <= w.obj.gen /\ w.obj.gen <= owner'[w.o].gen
                 /\ owner'[w.o].st # "none" /\ w.obj.gen = owner'[w.o].gen =>
                        w.obj.want = owner'[w.o].want /\ w.obj.managed = owner'[w.o].managed
      <3>1. PICK o \in LVs : o = w.o
        BY <1>3, <2>2
      <3>2. /\ status[o].gen <= w.obj.gen /\ w.obj.gen <= owner[o].gen
            /\ owner[o].st # "none" /\ w.obj.gen = owner[o].gen =>
                   w.obj.want = owner[o].want /\ w.obj.managed = owner[o].managed
            /\ w.obj.gen \in Nat /\ owner[o].gen \in Nat
        BY <1>3, <2>2, <3>1 DEF GenInv
      <3> HIDE DEF w
      <3>3. CASE Left(o)
        BY <3>1, <3>2, <3>3 DEF Left
      <3>4. CASE Created(o) \/ Edited(o)
        BY <3>1, <3>2, <3>4 DEF Created, Edited
      <3>5. CASE Deleted(o)
        BY <3>1, <3>2, <3>5 DEF Deleted
      <3> QED
        BY <1>2, <3>3, <3>4, <3>5
    <2> QED
      BY <1>1, <2>1, <2>2 DEF GenInv, Working
  <1>5. AppliedInv'
    BY <1>1 DEF AppliedInv
  <1>6. ReadyHasClasses'
    <2> SUFFICES ASSUME NEW o \in LVs, Serving(o)',
                        status'[o] = [state |-> "ready", gen |-> owner'[o].gen]
                 PROVE  \A c \in owner'[o].want : sc'[c] = o
      BY DEF ReadyHasClasses
    <2>1. status'[o].state = "ready" /\ status'[o].gen = owner'[o].gen /\ owner'[o].st = "live"
      BY DEF Serving
    <2>2. ~Created(o) /\ ~Deleted(o)
      BY <2>1 DEF Created, Deleted
    <2>3. ~Edited(o)
      <3>1. status[o].gen <= owner[o].gen
        BY DEF GenInv
      <3> QED
        BY <1>3, <2>1, <3>1 DEF Edited
    <2>4. Left(o)
      BY <1>2, <2>2, <2>3
    <2> QED
      BY <1>1, <2>4 DEF Left, ReadyHasClasses, Serving
  <1> QED
    BY <1>4, <1>5, <1>6 DEF StatusInv

\* Nobody else takes the labels of a LocalVolume from a class.
LEMMA SetWorkerStatus ==
    ASSUME NoneShared, TypeOK, KindInv, LVWorkerInv, WantInv, GenInv, AppliedInv,
           ReadyHasClasses, NEW k \in Kinds, k # LVs, Reconcile(k) \/ Fail(k)
    PROVE  StatusInv'
  <1>1. worker'[LVs] = worker[LVs] /\ \A o \in LVs : Left(o)
    BY SetWorkerView
  <1>2. ASSUME NEW c \in Classes, sc[c] \in LVs
        PROVE  sc'[c] = sc[c]
    <2> SUFFICES ASSUME sc'[c] # sc[c] PROVE FALSE
      OBVIOUS
    <2>1. worker[k].o \in Sets /\ Working(k) /\ c \in worker[k].todo
      BY <1>2, SetWorkerView
    <2>2. c \in All(worker[k].o)
      BY <2>1 DEF WantInv
    <2>3. c \in All(sc[c])
      BY <1>2, Constants DEF WantInv, Owners
    <2> QED
      BY <1>2, <2>1, <2>2, <2>3, ClassConstants DEF NoneShared, Owners
  <1>3. /\ \A o \in LVs : owner[o].want \subseteq Classes
        /\ Working(LVs) => worker[LVs].o \in LVs /\ worker[LVs].obj.want \subseteq Classes
    <2>1. LVs \subseteq Owners /\ LVs \in Kinds
      BY DEF Owners, Kinds
    <2> QED
      BY <2>1, WorkerLemma DEF TypeOK, Owner
  <1>4. GenInv'
    BY <1>1, <1>3 DEF GenInv, Left, Working
  <1>5. AppliedInv'
    <2> DEFINE w == worker[LVs]
    <2>1. Working(LVs) => \A c \in w.obj.want : sc[c] = w.o => sc'[c] = w.o
      BY <1>2, <1>3
    <2>2. w.pc \in {"apply", "prune", "status"} => Working(LVs)
      BY DEF Working
    <2> QED
      BY <1>1, <2>1, <2>2 DEF AppliedInv
  <1>6. ReadyHasClasses'
    BY <1>1, <1>2, <1>3 DEF ReadyHasClasses, Left, Serving
  <1> QED
    BY <1>4, <1>5, <1>6 DEF StatusInv

\* The reconciler of LocalVolumes: only the classes that its own LocalVolume may
\* name are touched.
LEMMA LVWorkerStatus ==
    ASSUME NoneShared, TypeOK, KindInv, LVWorkerInv, WantInv, GenInv, AppliedInv,
           ReadyHasClasses, Reconcile(LVs) \/ Fail(LVs)
    PROVE  StatusInv'
  <1> DEFINE w == worker[LVs]
  <1>1. LVs \subseteq Owners /\ LVs \in Kinds
    BY DEF Owners, Kinds
  <1>2. ASSUME Working(LVs)
        PROVE  /\ w \in Workers /\ w.o \in LVs /\ w.o \in Owners /\ owner[w.o] \in Owner
               /\ w.obj \in Owner /\ w.todo \in SUBSET Classes /\ w.obj.want \in SUBSET Classes
               /\ w.todo \subseteq All(w.o) /\ w.obj.want \subseteq All(w.o)
    BY <1>1, <1>2, WorkerLemma DEF WantInv, Owner
  <1>3. /\ \A o \in Owners : owner[o].gen \in Nat /\ status[o].gen \in Nat
        /\ Working(LVs) => w.obj.gen \in Nat
    BY Gens
  <1>4. ASSUME worker'[LVs].pc = "idle", \A o \in LVs : status'[o].gen <= owner'[o].gen
        PROVE  GenInv' /\ AppliedInv'
    BY <1>4 DEF GenInv, AppliedInv, Working
  <1>5. ASSUME UNCHANGED <<owner, status>>, Working(LVs),
               worker'[LVs].o = w.o, worker'[LVs].obj = w.obj
        PROVE  GenInv'
    BY <1>5 DEF GenInv, Working
  <1>6. ASSUME UNCHANGED <<owner, status, sc>>
        PROVE  ReadyHasClasses'
    BY <1>6 DEF ReadyHasClasses, Serving
  \* A class of another LocalVolume is not dealt with.
  <1>7. ASSUME NEW o \in LVs, Working(LVs), o # w.o, NEW c \in w.todo
        PROVE  c \notin owner[o].want
    BY <1>1, <1>2, <1>7 DEF NoneShared, WantInv
  <1>8. ASSUME NEW o \in LVs, Begin(LVs, o)
        PROVE  StatusInv'
    <2>1. o \in Owners /\ owner[o] \in Owner /\ UNCHANGED <<owner, status, sc>> /\ worker[LVs].pc = "idle"
      BY <1>1, <1>8 DEF TypeOK, Begin
    <2>2. CASE owner[o].st = "none"
      <3>1. worker' = worker
        BY <1>8, <2>2 DEF Begin
      <3> QED
        BY <1>6, <2>1, <3>1 DEF StatusInv, GenInv, AppliedInv, Working
    <2>3. CASE owner[o].st # "none"
      <3>1. /\ worker'[LVs].pc = FirstStep(o) /\ worker'[LVs].o = o /\ worker'[LVs].obj = owner[o]
            /\ worker'[LVs].todo = owner[o].want
        BY <1>1, <1>8, <2>3 DEF Begin, TypeOK
      <3>2. owner[o].st \in {"live", "deleting"} /\ owner[o].fin \in BOOLEAN
        BY <2>1, <2>3 DEF Owner
      <3>3. /\ FirstStep(o) = "apply" => owner[o].managed
            /\ FirstStep(o) = "status" => ~owner[o].managed
            /\ FirstStep(o) # "prune"
        BY <3>2 DEF FirstStep
      <3>4. AppliedInv'
        BY <3>1, <3>3 DEF AppliedInv
      <3>5. status[o].gen <= owner[o].gen /\ owner[o].gen <= owner[o].gen
        BY <1>3, <2>1 DEF GenInv
      <3>6. GenInv'
        BY <2>1, <3>1, <3>5 DEF GenInv
      <3> QED
        BY <1>6, <2>1, <3>4, <3>6 DEF StatusInv
    <2> QED
      BY <2>2, <2>3
  <1>9. CASE AddFinalizer(LVs)
    <2>1. Working(LVs)
      BY <1>9 DEF AddFinalizer, Working
    <2>2. /\ worker'[LVs].pc = "idle" /\ UNCHANGED <<sc, status>>
          /\ owner' = [owner EXCEPT ![w.o].fin = TRUE]
      BY <1>1, <1>9, Constants DEF AddFinalizer, TypeOK
    <2>3. \A o \in LVs : /\ owner'[o].st = owner[o].st /\ owner'[o].want = owner[o].want
                         /\ owner'[o].gen = owner[o].gen /\ owner'[o].managed = owner[o].managed
      BY <1>1, <1>2, <2>1, <2>2 DEF TypeOK, Owner
    <2>4. GenInv' /\ AppliedInv'
      BY <1>4, <2>2, <2>3 DEF GenInv
    <2>5. ReadyHasClasses'
      BY <2>2, <2>3 DEF ReadyHasClasses, Serving
    <2> QED
      BY <2>4, <2>5 DEF StatusInv
  <1>10. ASSUME NEW c \in Classes, Apply(LVs, c)
         PROVE  StatusInv'
    <2>1. /\ Working(LVs) /\ w.pc = "apply" /\ UNCHANGED <<owner, status>> /\ c \in w.todo
          /\ sc' = [sc EXCEPT ![c] = w.o]
      BY <1>10 DEF Apply, Working
    <2>2. /\ worker'[LVs].pc = "apply" /\ worker'[LVs].o = w.o /\ worker'[LVs].obj = w.obj
          /\ worker'[LVs].todo = w.todo \ {c}
      BY <1>1, <1>2, <1>10, <2>1, GotoLemma DEF Apply, Steps
    <2>3. GenInv'
      BY <1>5, <2>1, <2>2
    <2>4. w.obj.managed /\ \A d \in w.obj.want \ w.todo : sc[d] = w.o
      BY <2>1 DEF AppliedInv
    <2>5. \A d \in w.obj.want \ (w.todo \ {c}) : sc'[d] = w.o
      BY <1>2, <2>1, <2>4 DEF TypeOK
    <2>6. AppliedInv'
      BY <2>2, <2>4, <2>5 DEF AppliedInv
    <2>7. \A o \in LVs : \A d \in owner[o].want : sc[d] = o => sc'[d] = o
      <3>1. \A o \in LVs : owner[o].want \subseteq Classes
        BY <1>1 DEF TypeOK, Owner
      <3> QED
        BY <1>7, <2>1, <3>1 DEF TypeOK
    <2>8. ReadyHasClasses'
      BY <2>1, <2>7 DEF ReadyHasClasses, Serving
    <2> QED
      BY <2>3, <2>6, <2>8 DEF StatusInv
  <1>11. CASE Applied(LVs)
    <2>1. /\ Working(LVs) /\ w.pc = "apply" /\ UNCHANGED <<owner, status, sc>> /\ w.todo = {}
      BY <1>11 DEF Applied, Working
    <2>2. PICK todo \in SUBSET Classes : Goto(LVs, "prune", todo) /\ todo \cap w.obj.want = {}
      BY <1>11 DEF Applied, Labelled
    <2>3. /\ worker'[LVs].pc = "prune" /\ worker'[LVs].o = w.o /\ worker'[LVs].obj = w.obj
          /\ worker'[LVs].todo = todo
      BY <1>1, <2>1, <2>2, GotoLemma DEF Steps
    <2>4. w.obj.managed /\ \A d \in w.obj.want : sc[d] = w.o
      BY <2>1 DEF AppliedInv
    <2>5. AppliedInv'
      BY <2>1, <2>2, <2>3, <2>4 DEF AppliedInv
    <2> QED
      BY <1>5, <1>6, <2>1, <2>3, <2>5 DEF StatusInv
  <1>12. ASSUME NEW c \in Classes, RemoveListed(LVs, c)
         PROVE  StatusInv'
    <2>1. /\ Working(LVs) /\ w.pc \in {"prune", "purge"} /\ UNCHANGED <<owner, status>> /\ c \in w.todo
          /\ sc' = sc \/ sc' = [sc EXCEPT ![c] = Free]
      BY <1>12 DEF RemoveListed, Working
    <2>2. /\ worker'[LVs].pc = w.pc /\ worker'[LVs].o = w.o /\ worker'[LVs].obj = w.obj
          /\ worker'[LVs].todo = w.todo \ {c}
      BY <1>1, <1>2, <1>12, <2>1 DEF RemoveListed, Goto, TypeOK, Workers
    <2>3. w.pc = "prune" => /\ w.obj.managed /\ w.obj.want \cap w.todo = {}
                            /\ \A d \in w.obj.want : sc[d] = w.o
      BY DEF AppliedInv
    <2>4. w.pc = "prune" => \A d \in w.obj.want : sc'[d] = w.o
      BY <1>2, <2>1, <2>3 DEF TypeOK
    <2>5. AppliedInv'
      BY <2>1, <2>2, <2>3, <2>4 DEF AppliedInv
    <2>6. ASSUME NEW o \in LVs, Serving(o), status[o] = [state |-> "ready", gen |-> owner[o].gen]
          PROVE  c \notin owner[o].want
      <3>1. CASE o # w.o
        BY <1>7, <2>1, <3>1
      <3>2. CASE o = w.o
        <4>1. status[o].gen = owner[o].gen /\ owner[o].st = "live"
          BY <2>6 DEF Serving
        <4>2. w.pc = "prune"
          BY <2>1, <3>2, <4>1 DEF LVWorkerInv
        <4>3. w.obj.gen = owner[o].gen
          <5>1. status[o].gen <= w.obj.gen /\ w.obj.gen <= owner[o].gen
            BY <2>1, <3>2 DEF GenInv
          <5> QED
            BY <1>1, <1>3, <2>1, <4>1, <5>1
        <4>4. w.obj.want = owner[o].want
          BY <2>1, <3>2, <4>1, <4>3 DEF GenInv
        <4> QED
          BY <2>1, <2>3, <4>2, <4>4
      <3> QED
        BY <3>1, <3>2
    <2>7. \A o \in LVs : owner[o].want \subseteq Classes
      BY <1>1 DEF TypeOK, Owner
    <2>8. ReadyHasClasses'
      BY <2>1, <2>6, <2>7 DEF ReadyHasClasses, Serving, TypeOK
    <2> QED
      BY <1>5, <2>1, <2>2, <2>5, <2>8 DEF StatusInv
  <1>13. CASE Pruned(LVs)
    <2>1. Working(LVs) /\ w.pc = "prune" /\ UNCHANGED <<owner, status, sc>> /\ Goto(LVs, "status", {})
      BY <1>13 DEF Pruned, Working
    <2>2. worker'[LVs].pc = "status" /\ worker'[LVs].o = w.o /\ worker'[LVs].obj = w.obj
      BY <1>1, <2>1, GotoLemma DEF Steps
    <2>3. AppliedInv'
      BY <2>1, <2>2 DEF AppliedInv
    <2> QED
      BY <1>5, <1>6, <2>1, <2>2, <2>3 DEF StatusInv
  <1>14. CASE SyncStatus(LVs)
    <2>1. /\ Working(LVs) /\ w.pc = "status" /\ UNCHANGED <<owner, sc>> /\ owner[w.o] = w.obj
          /\ status' = [status EXCEPT ![w.o] = NewStatus(LVs)] /\ Done(LVs)
      BY <1>14 DEF SyncStatus, Working, Refused, Unchanged
    <2>2. worker'[LVs].pc = "idle"
      BY <1>1, <2>1, DoneLemma
    <2>3. LVs # Sets
      BY <1>2, <2>1, ClassConstants
    <2>4. /\ w.obj.managed => NewStatus(LVs) = [state |-> "ready", gen |-> owner[w.o].gen]
          /\ ~w.obj.managed => /\ NewStatus(LVs).gen = status[w.o].gen
                               /\ NewStatus(LVs).state = "unmanaged"
      BY <2>1, <2>3 DEF NewStatus
    <2>5. /\ status'[w.o] = NewStatus(LVs)
          /\ \A o \in LVs : o # w.o => status'[o] = status[o]
      BY <1>1, <1>2, <2>1 DEF TypeOK
    <2>6. \A o \in LVs : status'[o].gen <= owner'[o].gen
      <3>1. \A o \in LVs : status[o].gen <= owner[o].gen
        BY DEF GenInv
      <3>2. w.o \in LVs /\ owner[w.o].gen \in Nat
        BY <1>2, <1>3, <2>1
      <3>3. NewStatus(LVs).gen <= owner[w.o].gen
        BY <2>4, <3>1, <3>2
      <3> QED
        BY <2>1, <2>5, <3>1, <3>3
    <2>7. w.obj.managed => \A d \in w.obj.want : sc[d] = w.o
      BY <2>1 DEF AppliedInv
    <2>8. ReadyHasClasses'
      <3> SUFFICES ASSUME NEW o \in LVs, Serving(o),
                          status'[o] = [state |-> "ready", gen |-> owner[o].gen]
                   PROVE  \A c \in owner[o].want : sc[c] = o
        BY <2>1 DEF ReadyHasClasses, Serving
      <3>1. CASE o # w.o
        BY <2>5, <3>1 DEF ReadyHasClasses
      <3>2. CASE o = w.o
        BY <2>1, <2>4, <2>5, <2>7, <3>2
      <3> QED
        BY <3>1, <3>2
    <2> QED
      BY <1>4, <2>2, <2>6, <2>8 DEF StatusInv
  <1>15. CASE Cleanup(LVs) \/ Purged(LVs)
    <2>1. Working(LVs) /\ UNCHANGED <<owner, status, sc>>
      BY <1>15 DEF Cleanup, Purged, Working
    <2>2. CASE Done(LVs)
      BY <1>1, <1>4, <1>6, <2>1, <2>2, DoneLemma DEF StatusInv, GenInv
    <2>3. ASSUME NEW pc \in {"purge", "removeFinalizer"}, NEW todo \in SUBSET Classes, Goto(LVs, pc, todo)
          PROVE  StatusInv'
      <3>1. worker'[LVs].pc = pc /\ worker'[LVs].o = w.o /\ worker'[LVs].obj = w.obj
        BY <1>1, <2>1, <2>3, GotoLemma DEF Steps
      <3>2. AppliedInv'
        BY <2>3, <3>1 DEF AppliedInv
      <3> QED
        BY <1>5, <1>6, <2>1, <3>1, <3>2 DEF StatusInv
    <2>4. Done(LVs) \/ \E pc \in {"purge", "removeFinalizer"}, todo \in SUBSET Classes : Goto(LVs, pc, todo)
      BY <1>15 DEF Cleanup, Purged, Labelled
    <2> QED
      BY <2>2, <2>3, <2>4
  <1>16. CASE RemoveFinalizer(LVs)
    <2>1. /\ Working(LVs) /\ Done(LVs) /\ UNCHANGED <<sc, status>>
          /\ owner' = [owner EXCEPT ![w.o] = NoOwner(@.gen)]
      BY <1>16 DEF RemoveFinalizer, Working
    <2>2. /\ owner'[w.o].st = "none" /\ owner'[w.o].gen = owner[w.o].gen
          /\ \A o \in LVs : o # w.o => owner'[o] = owner[o]
      BY <1>1, <1>2, <2>1 DEF TypeOK, NoOwner
    <2>3. worker'[LVs].pc = "idle"
      BY <1>1, <2>1, DoneLemma
    <2>4. \A o \in LVs : status'[o].gen <= owner'[o].gen
      BY <2>1, <2>2 DEF GenInv
    <2>5. ReadyHasClasses'
      BY <2>1, <2>2 DEF ReadyHasClasses, Serving
    <2> QED
      BY <1>4, <2>3, <2>4, <2>5 DEF StatusInv
  <1>17. CASE Fail(LVs)
    <2>1. /\ Working(LVs) /\ Done(LVs) /\ UNCHANGED <<sc, owner>>
          /\ status' = status \/ status' = [status EXCEPT ![w.o].state = "failed"]
      BY <1>17 DEF Fail, Working
    <2>2. /\ status'[w.o].gen = status[w.o].gen
          /\ status'[w.o] = status[w.o] \/ status'[w.o].state = "failed"
          /\ \A o \in LVs : o # w.o => status'[o] = status[o]
      BY <1>1, <1>2, <2>1 DEF TypeOK
    <2>3. worker'[LVs].pc = "idle"
      BY <1>1, <2>1, DoneLemma
    <2>4. \A o \in LVs : status'[o].gen <= owner'[o].gen
      BY <2>1, <2>2 DEF GenInv
    <2>5. ReadyHasClasses'
      BY <2>1, <2>2 DEF ReadyHasClasses, Serving
    <2> QED
      BY <1>4, <2>3, <2>4, <2>5 DEF StatusInv
  <1>18. CASE RemoveClass(LVs)
    BY <1>1, <1>18 DEF RemoveClass, KindInv, At
  <1> QED
    BY <1>8, <1>9, <1>10, <1>11, <1>12, <1>13, <1>14, <1>15, <1>16, <1>17, <1>18 DEF Reconcile

\* Every step keeps what the status says true.
LEMMA ReadyStep ==
    ASSUME NoneShared, ReadyInv, [Next]_vars
    PROVE  ReadyInv'
  <1>1. ClassInv' /\ WantInv'
    BY ClassStep, WantStep DEF ReadyInv, ClassInv, QueueInv
  <1>2. CASE Crash
    <2>1. worker'[LVs].pc = "idle" /\ UNCHANGED <<owner, status, sc>>
      BY <1>2, Constants DEF Crash, Kinds
    <2>2. StatusInv'
      BY <2>1, ZenonT(60) DEF ReadyInv, StatusInv, GenInv, AppliedInv, ReadyHasClasses, Serving, Working
    <2> QED
      BY <1>1, <2>2 DEF ReadyInv, StatusInv
  <1>3. CASE UNCHANGED vars
    <2>1. StatusInv'
      BY <1>3 DEF vars, ReadyInv, StatusInv, GenInv, AppliedInv, ReadyHasClasses, Serving, Working
    <2> QED
      BY <1>1, <2>1 DEF ReadyInv, StatusInv
  <1>4. \/ UserStep \/ UNCHANGED vars \/ Crash
        \/ \E k \in Kinds : Reconcile(k) \/ Fail(k)
    BY DEF Next, UserStep
  <1>5. ASSUME StatusInv'
        PROVE  ReadyInv'
    BY <1>1, <1>5 DEF ReadyInv, StatusInv
  <1> QED
    BY <1>2, <1>3, <1>4, <1>5, UserStatus, SetWorkerStatus, LVWorkerStatus
       DEF ReadyInv, StatusInv, ClassInv, QueueInv

\* At first there are no LocalVolumes.
LEMMA ReadyInit == Init => ReadyInv
  <1> SUFFICES ASSUME Init PROVE ReadyInv
    OBVIOUS
  <1>1. ClassInv
    BY ClassInit
  <1>2. /\ (\A k \in Kinds : worker[k].pc = "idle") /\ LVs \in Kinds
        /\ \A o \in Owners : owner[o].st = "none" /\ owner[o].want = {} /\ owner[o].gen = 0
        /\ \A o \in Owners : status[o].gen = 0
        /\ \A c \in Classes : sc[c] = Free
    BY Constants, ClassConstants DEF Init, Kinds
  <1>3. WantInv
    BY <1>2 DEF WantInv, Working
  <1>4. StatusInv
    BY <1>2 DEF StatusInv, GenInv, AppliedInv, ReadyHasClasses, Serving, Working, Owners
  <1> QED
    BY <1>1, <1>3, <1>4 DEF ReadyInv

(***************************************************************************)
(* What the status says is true: a LocalVolume that is reported ready at   *)
(* its generation has all its storage classes with its labels on them, if  *)
(* no two owners may name the same class.  Without that hypothesis another *)
(* owner takes the labels of a class, and its removal takes the class.     *)
(***************************************************************************)
THEOREM ReadyMeansApplied ==
    ASSUME NoneShared
    PROVE  Spec => []ReadyHasClasses
  <1>1. ReadyInv => ReadyHasClasses
    BY DEF ReadyInv, StatusInv
  <1>2. ReadyInv /\ [Next]_vars => ReadyInv'
    BY ReadyStep
  <1> QED
    BY <1>1, <1>2, ReadyInit, PTL DEF Spec
=============================================================================

-------------------------- MODULE DeviceLinkCache --------------------------
(***************************************************************************)
(* LocalVolumeDeviceLinkCache: the diskmaker's index from by-id links to   *)
(* the LocalVolumeDeviceLinks (LVDLs) of its node.                         *)
(*                                                                         *)
(* Three writers update the index: the event handlers of the informer, the *)
(* loop of Start over a listed snapshot, and the write-through of the      *)
(* reconcilers after a status update.  They run in different goroutines    *)
(* and only lock the index for one object at a time.                       *)
(*                                                                         *)
(* An API write travels through `wire' to the informer's store and from    *)
(* there as a notification through `notes' to the handlers, in order for   *)
(* each object.                                                            *)
(***************************************************************************)
EXTENDS Naturals, Sequences, FiniteSets

CONSTANTS
    Names,        \* names of LVDLs
    LocalNames,   \* those whose spec.nodeName is this node
    Targets,      \* by-id links
    Absent,       \* no object
    Relists,      \* TRUE if the informer may lose its watch and list again
    MaxWrites,    \* bound on API writes
    MaxRestarts   \* bound on restarts of the diskmaker

Objects == [rv : 1..MaxWrites, targets : SUBSET Targets]

ASSUME CacheAssumption ==
    /\ LocalNames \subseteq Names
    /\ Absent \notin Objects
    /\ Relists \in BOOLEAN
    /\ MaxWrites \in Nat \ {0}
    /\ MaxRestarts \in Nat

VARIABLES
    api,       \* LVDLs in the API server
    writes,    \* number of API writes so far
    wire,      \* per name: versions the informer has not seen
    store,     \* the informer's store, which client.List reads
    notes,     \* per name: notifications the handlers have not seen
    phase,     \* progress of Start
    listed,    \* per name: the listed object that Start still has to index
    written,   \* status update whose write-through is pending, or Absent
    index,     \* localDeviceInfos: per target and name, the indexed object
    raced,     \* history: names for which an older object was indexed last
    restarts   \* number of restarts so far

vars == <<api, writes, wire, store, notes, phase, listed, written, index, raced, restarts>>
informerVars == <<api, writes, wire, store, restarts>>

Maybe(S) == S \cup {Absent}
Note == [op : {"put", "remove"}, obj : Objects]

\* The type invariant.
TypeOK ==
    /\ api \in [Names -> Maybe(Objects)]
    /\ writes \in 0..MaxWrites
    /\ wire \in [Names -> Seq(Maybe(Objects))]
    /\ store \in [Names -> Maybe(Objects)]
    /\ notes \in [Names -> Seq(Note)]
    /\ phase \in {"start", "list", "populate", "synced"}
    /\ listed \in [Names -> Maybe(Objects)]
    /\ written \in Maybe([name : LocalNames, obj : Objects])
    /\ index \in [Targets -> [Names -> Maybe(Objects)]]
    /\ raced \subseteq Names
    /\ restarts \in 0..MaxRestarts

Nothing == [n \in Names |-> Absent]
NoNotes == [n \in Names |-> <<>>]

Init ==
    /\ \E S \in SUBSET Names, targets \in SUBSET Targets :
         api = [n \in Names |-> IF n \in S THEN [rv |-> 1, targets |-> targets] ELSE Absent]
    /\ writes = 1
    /\ wire = NoNotes
    /\ store = api
    /\ notes = NoNotes
    /\ phase = "start"
    /\ listed = Nothing
    /\ written = Absent
    /\ index = [t \in Targets |-> Nothing]
    /\ raced = {}
    /\ restarts = 0

-----------------------------------------------------------------------------
(* The index                                                               *)

\* Mutant: entries under targets that the object no longer has are kept.
AddWithoutRemoving(n, obj) ==
    index' = IF n \notin LocalNames THEN index
             ELSE [t \in Targets |->
                     [index[t] EXCEPT ![n] = IF t \in obj.targets THEN obj ELSE @]]

\* Mutant: an LVDL that is indexed already is not indexed again.
AddOnlyNew(n, obj) ==
    index' = IF n \notin LocalNames \/ \E t \in Targets : index[t][n] # Absent THEN index
             ELSE [t \in Targets |->
                     [index[t] EXCEPT ![n] = IF t \in obj.targets THEN obj ELSE Absent]]

\* addOrUpdateLVDL: index a local object under its targets and nothing else.
AddOrUpdateLVDL(n, obj) ==
    index' = IF n \notin LocalNames THEN index
             ELSE [t \in Targets |->
                     [index[t] EXCEPT ![n] = IF t \in obj.targets THEN obj ELSE Absent]]

\* Mutant: deletions are ignored.
KeepLVDL(n, obj) == UNCHANGED index

\* removeLVDL only visits the targets of the object it is given.
RemoveLVDL(n, obj) ==
    index' = [t \in Targets |->
                [index[t] EXCEPT ![n] = IF t \in obj.targets THEN Absent ELSE @]]

\* An object was indexed: is it older than what the handlers have seen?
Outdated(n, obj) ==
    raced' = IF n \in LocalNames /\ store[n] # obj
                /\ ~ \E i \in 1..Len(wire[n]) : wire[n][i] = obj
             THEN raced \cup {n} ELSE raced \ {n}

-----------------------------------------------------------------------------
(* The API server and the informer (client-go)                             *)

\* An object is created, changed or deleted.
ApiWrite(n, value) ==
    /\ writes < MaxWrites
    /\ writes' = writes + 1
    /\ api' = [api EXCEPT ![n] = value]
    /\ wire' = [wire EXCEPT ![n] = Append(@, value)]
    /\ UNCHANGED <<store, notes, phase, listed, index, raced, restarts>>

NewVersion(targets) == [rv |-> writes + 1, targets |-> targets]

\* A user changes the policy.
UserUpdate(n) ==
    /\ api[n] # Absent
    /\ ApiWrite(n, NewVersion(api[n].targets))
    /\ UNCHANGED written

\* A user or the garbage collector deletes the LVDL.
Delete(n) ==
    /\ api[n] # Absent
    /\ ApiWrite(n, Absent)
    /\ UNCHANGED written

\* The diskmaker of another node writes its LVDLs.
ForeignUpdate(n, targets) ==
    /\ n \notin LocalNames
    /\ ApiWrite(n, NewVersion(targets))
    /\ UNCHANGED written

\* The informer stores a version and notifies the handlers, if there are any.
Deliver(n, value) ==
    LET note == IF value # Absent THEN <<[op |-> "put", obj |-> value]>>
                ELSE IF store[n] # Absent THEN <<[op |-> "remove", obj |-> store[n]]>>
                ELSE <<>>
    IN  /\ store' = [store EXCEPT ![n] = value]
        /\ notes' = IF phase = "start" THEN notes ELSE [notes EXCEPT ![n] = @ \o note]

WatchEvent(n) ==
    /\ wire[n] # <<>>
    /\ Deliver(n, Head(wire[n]))
    /\ wire' = [wire EXCEPT ![n] = Tail(@)]
    /\ UNCHANGED <<api, writes, phase, listed, written, index, raced, restarts>>

\* The watch breaks and the informer lists again: it misses the versions in
\* between, reports a deletion with the last object it knew, and never hears
\* of an object that was created and deleted meanwhile.
Relist(n) ==
    /\ Relists
    /\ Len(wire[n]) > 1
    /\ Deliver(n, api[n])
    /\ wire' = [wire EXCEPT ![n] = <<>>]
    /\ raced' = IF store[n] = Absent /\ api[n] = Absent THEN raced \cup {n} ELSE raced
    /\ UNCHANGED <<api, writes, phase, listed, written, index, restarts>>

\* Every few hours the informer notifies the handlers of its whole store; here
\* only when the queue is empty, which bounds it.
Resync(n) ==
    /\ phase # "start"
    /\ store[n] # Absent
    /\ notes[n] = <<>>
    /\ notes' = [notes EXCEPT ![n] = <<[op |-> "put", obj |-> store[n]]>>]
    /\ UNCHANGED <<informerVars, phase, listed, written, index, raced>>

-----------------------------------------------------------------------------
(* The cache                                                               *)

\* watchForEvents: the new handlers are notified of all objects in the store.
WatchForEvents ==
    /\ phase = "start"
    /\ notes' = [n \in Names |-> IF store[n] = Absent THEN <<>>
                                 ELSE <<[op |-> "put", obj |-> store[n]]>>]
    /\ phase' = "list"
    /\ UNCHANGED <<informerVars, listed, written, index, raced>>

\* AddFunc, UpdateFunc and DeleteFunc.
HandleEvent(n) ==
    LET note == Head(notes[n]) IN
    /\ notes[n] # <<>>
    /\ IF note.op = "put"
       THEN /\ AddOrUpdateLVDL(n, note.obj)
            /\ raced' = raced \ {n}
       ELSE /\ RemoveLVDL(n, note.obj)
            /\ raced' = IF \E t \in Targets : index'[t][n] \notin {Absent, note.obj}
                        THEN raced \cup {n} ELSE raced \ {n}
    /\ notes' = [notes EXCEPT ![n] = Tail(@)]
    /\ UNCHANGED <<informerVars, phase, listed, written>>

\* Start: client.List, from the informer's store.
List ==
    /\ phase = "list"
    /\ listed' = store
    /\ phase' = "populate"
    /\ UNCHANGED <<informerVars, notes, written, index, raced>>

\* Start: one turn of the loop over the listed objects.
Populate(n) ==
    /\ phase = "populate"
    /\ listed[n] # Absent
    /\ AddOrUpdateLVDL(n, listed[n])
    /\ Outdated(n, listed[n])
    /\ listed' = [listed EXCEPT ![n] = Absent]
    /\ UNCHANGED <<informerVars, notes, phase, written>>

\* Start: close(synced); the reconcilers go to work.
Synced ==
    /\ phase = "populate"
    /\ listed = Nothing
    /\ phase' = "synced"
    /\ UNCHANGED <<informerVars, notes, listed, written, index, raced>>

\* A reconciler creates an LVDL, without a status ...
CreateLVDL(n) ==
    /\ phase = "synced"
    /\ written = Absent
    /\ api[n] = Absent
    /\ ApiWrite(n, NewVersion({}))
    /\ UNCHANGED written

\* ... or updates the status of one ...
UpdateStatus(n, targets) ==
    /\ phase = "synced"
    /\ written = Absent
    /\ api[n] # Absent
    /\ ApiWrite(n, NewVersion(targets))
    /\ written' = [name |-> n, obj |-> NewVersion(targets)]

\* ... and then calls AddOrUpdateLVDL of the cache.
WriteThrough ==
    /\ written # Absent
    /\ AddOrUpdateLVDL(written.name, written.obj)
    /\ Outdated(written.name, written.obj)
    /\ written' = Absent
    /\ UNCHANGED <<informerVars, notes, phase, listed>>

\* The diskmaker is restarted: a new informer lists the API server.
Restart ==
    /\ restarts < MaxRestarts
    /\ restarts' = restarts + 1
    /\ wire' = NoNotes
    /\ store' = api
    /\ notes' = NoNotes
    /\ phase' = "start"
    /\ listed' = Nothing
    /\ written' = Absent
    /\ index' = [t \in Targets |-> Nothing]
    /\ raced' = {}
    /\ UNCHANGED <<api, writes>>

-----------------------------------------------------------------------------
Others ==
    \/ \E n \in Names : UserUpdate(n) \/ Delete(n) \/ Relist(n)
    \/ \E n \in Names, targets \in SUBSET Targets : ForeignUpdate(n, targets)
    \/ Restart

Reconcilers ==
    \E n \in LocalNames :
        \/ CreateLVDL(n)
        \/ \E targets \in SUBSET Targets : UpdateStatus(n, targets)

Start == WatchForEvents \/ List \/ (\E n \in Names : Populate(n)) \/ Synced

Next ==
    \/ Others
    \/ Reconcilers
    \/ Start
    \/ WriteThrough
    \/ \E n \in Names : WatchEvent(n) \/ Resync(n) \/ HandleEvent(n)

\* The goroutines keep running and the informer keeps its promises.
Fairness ==
    /\ WF_vars(Start)
    /\ WF_vars(WriteThrough)
    /\ \A n \in Names : WF_vars(WatchEvent(n)) /\ WF_vars(Resync(n)) /\ WF_vars(HandleEvent(n))

Spec == Init /\ [][Next]_vars /\ Fairness

-----------------------------------------------------------------------------
(* Properties                                                              *)

Indexed(n) == {index[t][n] : t \in Targets} \ {Absent}

\* However the writers interleave, an LVDL is indexed in one version only, and
\* only under targets of that version: addOrUpdateLVDL leaves nothing of older
\* versions behind.  LVDLs of other nodes are never indexed.
OneVersion ==
    \A n \in Names :
        /\ \A x, y \in Indexed(n) : x = y
        /\ \A t \in Targets : index[t][n] # Absent => t \in index[t][n].targets
        /\ Indexed(n) # {} => n \in LocalNames

\* All that happened to an LVDL has reached the cache.
Quiet(n) ==
    /\ phase = "synced"
    /\ wire[n] = <<>>
    /\ notes[n] = <<>>
    /\ written # Absent => written.name # n

Exact(n) ==
    \A t \in Targets :
        index[t][n] = IF n \in LocalNames /\ api[n] # Absent /\ t \in api[n].targets
                      THEN api[n] ELSE Absent

\* The index of an LVDL agrees with the API server once all events are handled,
\* unless the loop of Start or a write-through indexed an object after a handler
\* had seen a newer one, a deletion named an object with other targets, or a new
\* list skipped a creation and the deletion after it.
ExactUnlessRaced ==
    \A n \in Names : Quiet(n) => Exact(n) \/ n \in raced

\* Races may leave an old version in the index, with the policy it had, but
\* never lose a device: once Start has signalled readiness, "reconcilers see a
\* fully populated map" of the targets of every LVDL whose events are handled.
FullyPopulated ==
    \A n \in LocalNames :
        Quiet(n) /\ api[n] # Absent => {t \in Targets : index[t][n] # Absent} = api[n].targets

\* Once writes and restarts are over, every LVDL is found under each of its
\* targets and nowhere else: a resync repairs what a race left behind.
EventuallyComplete ==
    \A n \in Names : <>[](api[n] # Absent => Exact(n))
=============================================================================

----------------------- MODULE DeviceLinkCacheProofs -----------------------
(***************************************************************************)
(* Proofs about DeviceLinkCache for any number of LVDLs, by-id links,      *)
(* writes and restarts, and with an informer that may lose its watch.      *)
(***************************************************************************)
EXTENDS DeviceLinkCache, TLAPS

\* What a leaf is tried with, if it does not say.
USE ZenonT(5), SMTT(30), Z3T(30), ZenonT(30)

(***************************************************************************)
(* What the versions on the way to the cache say about each other.         *)
(***************************************************************************)

\* The last version on the wire is the one in the API server, and no deletion
\* follows a deletion.
WireInv(n) ==
    /\ IF wire[n] = <<>> THEN store[n] = api[n] ELSE wire[n][Len(wire[n])] = api[n]
    /\ \A i \in 1..Len(wire[n]) :
           wire[n][i] = Absent => (IF i = 1 THEN store[n] ELSE wire[n][i - 1]) # Absent

\* The last notification is about the version in the store.
NotesInv(n) ==
    notes[n] # <<>> =>
        LET last == notes[n][Len(notes[n])]
        IN  IF store[n] = Absent THEN last.op = "remove"
            ELSE last = [op |-> "put", obj |-> store[n]]

StartInv ==
    /\ phase = "start" => notes = NoNotes /\ index = [t \in Targets |-> Nothing]
    /\ phase # "synced" => written = Absent
    /\ phase # "populate" => listed = Nothing

Handled(n) == phase # "start" /\ wire[n] = <<>> /\ notes[n] = <<>>

\* The index holds this version, as addOrUpdateLVDL would leave it.
Holds(n, v) ==
    \A t \in Targets :
        index[t][n] = IF n \in LocalNames /\ v # Absent /\ t \in v.targets THEN v ELSE Absent

ExactInv(n) == Handled(n) => Holds(n, store[n]) \/ n \in raced

\* Versions that may be indexed late have the targets of the current one: only
\* the reconcilers change targets, after Start has indexed all it listed and
\* not while a write-through is pending.
SameTargets(n, v) == v # Absent => v.targets = api[n].targets
TargetsInv(n) ==
    n \in LocalNames =>
        /\ Handled(n) /\ store[n] # Absent =>
               \A t \in Targets : index[t][n] # Absent <=> t \in store[n].targets
        /\ api[n] # Absent =>
               /\ SameTargets(n, listed[n])
               /\ written # Absent /\ written.name = n => SameTargets(n, written.obj)
               /\ phase # "synced" => /\ SameTargets(n, store[n])
                                      /\ \A i \in 1..Len(wire[n]) : SameTargets(n, wire[n][i])

NameInv(n) == WireInv(n) /\ NotesInv(n) /\ ExactInv(n) /\ TargetsInv(n)

CacheInv ==
    /\ TypeOK
    /\ OneVersion
    /\ StartInv
    /\ \A n \in Names : NameInv(n)
-----------------------------------------------------------------------------
(* The operations on the index.                                            *)

\* OneVersion, entry by entry.
OneVersionAt(n) ==
    /\ \A s, t \in Targets :
           index[s][n] # Absent /\ index[t][n] # Absent => index[s][n] = index[t][n]
    /\ \A t \in Targets :
           index[t][n] # Absent => t \in index[t][n].targets /\ n \in LocalNames

\* One version of each LVDL is indexed, name by name, ...
LEMMA EntriesNow == OneVersion <=> \A n \in Names : OneVersionAt(n)
  <1>1. \A n, x : x \in Indexed(n) <=> x # Absent /\ \E t \in Targets : x = index[t][n]
    BY DEF Indexed
  <1>2. ASSUME NEW n \in Names
        PROVE  /\ (\A x, y \in Indexed(n) : x = y)
                   <=> \A s, t \in Targets : index[s][n] # Absent /\ index[t][n] # Absent
                                             => index[s][n] = index[t][n]
               /\ Indexed(n) # {} <=> \E t \in Targets : index[t][n] # Absent
    <2>1. \A t \in Targets : index[t][n] # Absent => index[t][n] \in Indexed(n)
      BY <1>1
    <2>2. \A x \in Indexed(n) : x # Absent /\ \E t \in Targets : x = index[t][n]
      BY <1>1
    <2>3. (\A x, y \in Indexed(n) : x = y)
              <=> \A s, t \in Targets : index[s][n] # Absent /\ index[t][n] # Absent
                                        => index[s][n] = index[t][n]
      BY <2>1, <2>2, ZenonT(60)
    <2>4. Indexed(n) # {} <=> \E t \in Targets : index[t][n] # Absent
      BY <2>1, <2>2
    <2> QED
      BY <2>3, <2>4
  <1> QED
    BY <1>2 DEF OneVersion, OneVersionAt

\* ... in the next state as well.
LEMMA Entries ==
    /\ OneVersion <=> \A n \in Names : OneVersionAt(n)
    /\ OneVersion' <=> (\A n \in Names : OneVersionAt(n))'
  BY EntriesNow, PTL

\* addOrUpdateLVDL changes the entries of one LVDL, and all of them.
LEMMA AddLemma ==
    ASSUME TypeOK, OneVersion, NEW n \in Names, NEW obj \in Objects, AddOrUpdateLVDL(n, obj)
    PROVE  /\ index' \in [Targets -> [Names -> Maybe(Objects)]]
           /\ \A m \in Names, t \in Targets : m # n => index'[t][m] = index[t][m]
           /\ \A t \in Targets :
                  index'[t][n] = IF n \in LocalNames /\ t \in obj.targets THEN obj ELSE Absent
           /\ OneVersion'
  <1>1. CASE n \notin LocalNames
    <2>1. index' = index
      BY <1>1 DEF AddOrUpdateLVDL
    <2>2. \A t \in Targets : index[t][n] = Absent
      BY <1>1, Entries DEF OneVersionAt
    <2>3. OneVersion'
      BY <2>1, Entries DEF OneVersionAt
    <2> QED
      BY <1>1, <2>1, <2>2, <2>3 DEF TypeOK
  <1>2. CASE n \in LocalNames
    <2>1. index' = [t \in Targets |->
                      [index[t] EXCEPT ![n] = IF t \in obj.targets THEN obj ELSE Absent]]
      BY <1>2 DEF AddOrUpdateLVDL
    <2>2. \A t \in Targets : index[t] \in [Names -> Maybe(Objects)]
      BY DEF TypeOK
    <2>3. index' \in [Targets -> [Names -> Maybe(Objects)]]
      BY <2>1, <2>2 DEF Maybe
    <2>4. \A t \in Targets : index'[t][n] = IF t \in obj.targets THEN obj ELSE Absent
      BY <2>1, <2>2
    <2>5. \A m \in Names, t \in Targets : m # n => index'[t][m] = index[t][m]
      BY <2>1, <2>2
    <2>6. OneVersion'
      BY <1>2, <2>4, <2>5, Entries DEF OneVersionAt
    <2> QED
      BY <1>2, <2>3, <2>4, <2>5, <2>6
  <1> QED
    BY <1>1, <1>2

\* removeLVDL removes the entries under the targets of the deleted object.
LEMMA RemoveLemma ==
    ASSUME TypeOK, OneVersion, NEW n \in Names, NEW obj \in Objects, RemoveLVDL(n, obj)
    PROVE  /\ index' \in [Targets -> [Names -> Maybe(Objects)]]
           /\ \A m \in Names, t \in Targets : m # n => index'[t][m] = index[t][m]
           /\ \A t \in Targets :
                  index'[t][n] = IF t \in obj.targets THEN Absent ELSE index[t][n]
           /\ OneVersion'
  <1>1. \A t \in Targets : index[t] \in [Names -> Maybe(Objects)]
    BY DEF TypeOK
  <1>2. index' \in [Targets -> [Names -> Maybe(Objects)]]
    BY <1>1 DEF RemoveLVDL, Maybe
  <1>3. \A t \in Targets : index'[t][n] = IF t \in obj.targets THEN Absent ELSE index[t][n]
    BY <1>1 DEF RemoveLVDL
  <1>4. \A m \in Names, t \in Targets : m # n => index'[t][m] = index[t][m]
    BY <1>1 DEF RemoveLVDL
  <1>5. OneVersion'
    BY <1>3, <1>4, Entries DEF OneVersionAt
  <1> QED
    BY <1>2, <1>3, <1>4, <1>5

-----------------------------------------------------------------------------
(* Types, and one version of each LVDL in the index.                       *)

\* The rest of an API write, and what the informer does with a version.
LEMMA ApiWriteTypes ==
    ASSUME TypeOK, NEW n \in Names, NEW value \in Maybe(Objects), ApiWrite(n, value)
    PROVE  /\ api' \in [Names -> Maybe(Objects)]
           /\ writes' \in 0..MaxWrites
           /\ wire' \in [Names -> Seq(Maybe(Objects))]
  <1>1. wire[n] \in Seq(Maybe(Objects))
    BY DEF TypeOK
  <1>2. Append(wire[n], value) \in Seq(Maybe(Objects))
    BY <1>1
  <1> QED
    BY <1>2, CacheAssumption DEF ApiWrite, TypeOK

\* A write makes an object.
LEMMA VersionType ==
    ASSUME TypeOK, writes < MaxWrites, NEW targets \in SUBSET Targets
    PROVE  NewVersion(targets) \in Objects
  BY CacheAssumption DEF TypeOK, NewVersion, Objects

\* What the informer delivers is of its type.
LEMMA DeliverTypes ==
    ASSUME TypeOK, NEW n \in Names, NEW value \in Maybe(Objects), Deliver(n, value)
    PROVE  /\ store' \in [Names -> Maybe(Objects)]
           /\ notes' \in [Names -> Seq(Note)]
  <1> DEFINE note == IF value # Absent THEN <<[op |-> "put", obj |-> value]>>
                     ELSE IF store[n] # Absent THEN <<[op |-> "remove", obj |-> store[n]]>>
                     ELSE <<>>
  <1>1. store[n] \in Maybe(Objects) /\ notes[n] \in Seq(Note)
    BY DEF TypeOK
  <1>2. note \in Seq(Note)
    <2>1. \A v \in Objects, op \in {"put", "remove"} : <<[op |-> op, obj |-> v]>> \in Seq(Note)
      BY DEF Note
    <2>2. <<>> \in Seq(Note)
      OBVIOUS
    <2> QED
      BY <1>1, <2>1, <2>2 DEF Maybe
  <1>3. notes' = IF phase = "start" THEN notes ELSE [notes EXCEPT ![n] = @ \o note]
    BY DEF Deliver
  <1>4. store' = [store EXCEPT ![n] = value]
    BY DEF Deliver
  <1> HIDE DEF note
  <1>5. notes[n] \o note \in Seq(Note)
    BY <1>1, <1>2
  <1> QED
    BY <1>3, <1>4, <1>5 DEF TypeOK

VersionInv == TypeOK /\ OneVersion

\* At first nothing is indexed.
LEMMA VersionInit == Init => VersionInv
  <1> SUFFICES ASSUME Init
               PROVE  VersionInv
    OBVIOUS
  <1>1. PICK S \in SUBSET Names, targets \in SUBSET Targets :
            api = [n \in Names |-> IF n \in S THEN [rv |-> 1, targets |-> targets] ELSE Absent]
    BY DEF Init
  <1>2. [rv |-> 1, targets |-> targets] \in Objects
    BY CacheAssumption DEF Objects
  <1>3. api \in [Names -> Maybe(Objects)]
    BY <1>1, <1>2 DEF Maybe
  <1>4. NoNotes \in [Names -> Seq(Note)] /\ NoNotes \in [Names -> Seq(Maybe(Objects))]
    BY DEF NoNotes
  <1>5. /\ Nothing \in [Names -> Maybe(Objects)]
        /\ \A n \in Names : Nothing[n] = Absent
        /\ index \in [Targets -> [Names -> Maybe(Objects)]]
    BY DEF Nothing, Maybe, Init
  <1>6. TypeOK
    BY <1>3, <1>4, <1>5, CacheAssumption DEF Init, TypeOK, Maybe
  <1>7. OneVersion
    BY <1>5 DEF Init, OneVersion, Indexed
  <1> QED
    BY <1>6, <1>7 DEF VersionInv

\* Every step keeps one version of each LVDL in the index.
LEMMA VersionStep ==
    ASSUME VersionInv, [Next]_vars
    PROVE  VersionInv'
  <1> USE CacheAssumption DEF VersionInv
  <1>0. ASSUME UNCHANGED index
        PROVE  OneVersion'
    BY <1>0 DEF OneVersion, Indexed
  <1>1. ASSUME NEW n \in Names, NEW value \in Maybe(Objects), ApiWrite(n, value),
               written' \in Maybe([name : LocalNames, obj : Objects])
        PROVE  VersionInv'
    BY <1>0, <1>1, ApiWriteTypes DEF ApiWrite, TypeOK
  <1>2. ASSUME NEW n \in Names, UserUpdate(n) \/ Delete(n)
        PROVE  VersionInv'
    <2>1. CASE UserUpdate(n)
      <3>1. api[n] \in Objects /\ api[n].targets \in SUBSET Targets /\ writes < MaxWrites
        BY <2>1 DEF UserUpdate, ApiWrite, TypeOK, Maybe, Objects
      <3>2. NewVersion(api[n].targets) \in Maybe(Objects)
        BY <3>1, VersionType DEF Maybe
      <3> QED
        BY <1>1, <2>1, <3>2 DEF UserUpdate, TypeOK
    <2>2. CASE Delete(n)
      <3>1. Absent \in Maybe(Objects)
        BY DEF Maybe
      <3> QED
        BY <1>1, <2>2, <3>1 DEF Delete, TypeOK
    <2> QED
      BY <1>2, <2>1, <2>2
  <1>3. ASSUME NEW n \in Names, NEW targets \in SUBSET Targets, ForeignUpdate(n, targets)
        PROVE  VersionInv'
    <2>1. NewVersion(targets) \in Maybe(Objects)
      BY <1>3, VersionType DEF ForeignUpdate, ApiWrite, Maybe
    <2> QED
      BY <1>1, <1>3, <2>1 DEF ForeignUpdate, TypeOK
  <1>4. ASSUME NEW n \in LocalNames, CreateLVDL(n)
        PROVE  VersionInv'
    <2>1. NewVersion({}) \in Maybe(Objects)
      BY <1>4, VersionType DEF CreateLVDL, ApiWrite, Maybe
    <2> QED
      BY <1>1, <1>4, <2>1 DEF CreateLVDL, TypeOK
  <1>5. ASSUME NEW n \in LocalNames, NEW targets \in SUBSET Targets, UpdateStatus(n, targets)
        PROVE  VersionInv'
    <2>1. NewVersion(targets) \in Objects
      BY <1>5, VersionType DEF UpdateStatus, ApiWrite
    <2>2. written' \in Maybe([name : LocalNames, obj : Objects])
      BY <1>5, <2>1 DEF UpdateStatus, Maybe
    <2>3. NewVersion(targets) \in Maybe(Objects)
      BY <2>1 DEF Maybe
    <2> QED
      BY <1>1, <1>5, <2>2, <2>3 DEF UpdateStatus
  <1>6. ASSUME NEW n \in Names, WatchEvent(n)
        PROVE  VersionInv'
    <2>1. wire[n] \in Seq(Maybe(Objects)) /\ wire[n] # <<>>
      BY <1>6 DEF WatchEvent, TypeOK
    <2>2. Head(wire[n]) \in Maybe(Objects) /\ Tail(wire[n]) \in Seq(Maybe(Objects))
      BY <2>1
    <2>3. store' \in [Names -> Maybe(Objects)] /\ notes' \in [Names -> Seq(Note)]
      BY <1>6, <2>2, DeliverTypes DEF WatchEvent
    <2>4. wire' \in [Names -> Seq(Maybe(Objects))]
      BY <1>6, <2>2 DEF WatchEvent, TypeOK
    <2> QED
      BY <1>0, <1>6, <2>3, <2>4 DEF WatchEvent, TypeOK
  <1>7. ASSUME NEW n \in Names, Relist(n)
        PROVE  VersionInv'
    <2>1. api[n] \in Maybe(Objects)
      BY DEF TypeOK
    <2>2. store' \in [Names -> Maybe(Objects)] /\ notes' \in [Names -> Seq(Note)]
      BY <1>7, <2>1, DeliverTypes DEF Relist
    <2>3. wire' \in [Names -> Seq(Maybe(Objects))]
      BY <1>7 DEF Relist, TypeOK
    <2> QED
      BY <1>0, <1>7, <2>2, <2>3 DEF Relist, TypeOK
  <1>8. ASSUME NEW n \in Names, Resync(n)
        PROVE  VersionInv'
    <2>1. store[n] \in Objects
      BY <1>8 DEF Resync, TypeOK, Maybe
    <2>2. <<[op |-> "put", obj |-> store[n]]>> \in Seq(Note)
      BY <2>1 DEF Note
    <2> QED
      BY <1>0, <1>8, <2>2 DEF Resync, informerVars, TypeOK
  <1>9. ASSUME WatchForEvents
        PROVE  VersionInv'
    <2>1. ASSUME NEW n \in Names, store[n] # Absent
          PROVE  <<[op |-> "put", obj |-> store[n]]>> \in Seq(Note)
      <3>1. store[n] \in Objects
        BY <2>1 DEF TypeOK, Maybe
      <3> QED
        BY <3>1 DEF Note
    <2>2. notes' \in [Names -> Seq(Note)]
      BY <1>9, <2>1 DEF WatchForEvents
    <2> QED
      BY <1>0, <1>9, <2>2 DEF WatchForEvents, informerVars, TypeOK
  <1>10. ASSUME NEW n \in Names, HandleEvent(n)
         PROVE  VersionInv'
    <2>1. notes[n] \in Seq(Note) /\ notes[n] # <<>>
      BY <1>10 DEF HandleEvent, TypeOK
    <2>2. Head(notes[n]) \in Note /\ Tail(notes[n]) \in Seq(Note)
      BY <2>1
    <2>3. Head(notes[n]).obj \in Objects
      BY <2>2 DEF Note
    <2>4. index' \in [Targets -> [Names -> Maybe(Objects)]] /\ OneVersion'
      BY <1>10, <2>3, AddLemma, RemoveLemma DEF HandleEvent
    <2> QED
      BY <1>10, <2>2, <2>4 DEF HandleEvent, informerVars, TypeOK
  <1>11. ASSUME List \/ Synced
         PROVE  VersionInv'
    BY <1>0, <1>11 DEF List, Synced, informerVars, TypeOK
  <1>12. ASSUME NEW n \in Names, Populate(n)
         PROVE  VersionInv'
    <2>1. listed[n] \in Objects
      BY <1>12 DEF Populate, TypeOK, Maybe
    <2>2. index' \in [Targets -> [Names -> Maybe(Objects)]] /\ OneVersion'
      BY <1>12, <2>1, AddLemma DEF Populate
    <2>3. listed' \in [Names -> Maybe(Objects)]
      BY <1>12 DEF Populate, TypeOK, Maybe
    <2> QED
      BY <1>12, <2>2, <2>3 DEF Populate, Outdated, informerVars, TypeOK
  <1>13. ASSUME WriteThrough
         PROVE  VersionInv'
    <2>1. written.name \in Names /\ written.obj \in Objects
      BY <1>13 DEF WriteThrough, TypeOK, Maybe
    <2>2. index' \in [Targets -> [Names -> Maybe(Objects)]] /\ OneVersion'
      BY <1>13, <2>1, AddLemma DEF WriteThrough
    <2>3. raced' \subseteq Names
      BY <1>13, <2>1 DEF WriteThrough, Outdated, TypeOK
    <2>4. written' \in Maybe([name : LocalNames, obj : Objects])
      BY <1>13 DEF WriteThrough, Maybe
    <2> QED
      BY <1>13, <2>2, <2>3, <2>4 DEF WriteThrough, informerVars, TypeOK
  <1>14. ASSUME Restart
         PROVE  VersionInv'
    <2>1. NoNotes \in [Names -> Seq(Note)] /\ NoNotes \in [Names -> Seq(Maybe(Objects))]
      BY DEF NoNotes
    <2>2. /\ Nothing \in [Names -> Maybe(Objects)]
          /\ \A n \in Names : Nothing[n] = Absent
          /\ index' \in [Targets -> [Names -> Maybe(Objects)]]
      BY <1>14 DEF Nothing, Maybe, Restart
    <2>3. TypeOK'
      BY <1>14, <2>1, <2>2 DEF Restart, TypeOK, Maybe
    <2>4. OneVersion'
      BY <1>14, <2>2 DEF Restart, OneVersion, Indexed
    <2> QED
      BY <2>3, <2>4
  <1>15. ASSUME UNCHANGED vars
         PROVE  VersionInv'
    BY <1>0, <1>15 DEF vars, TypeOK
  <1> QED
    BY <1>2, <1>3, <1>4, <1>5, <1>6, <1>7, <1>8, <1>9, <1>10, <1>11, <1>12, <1>13, <1>14, <1>15
       DEF Next, Others, Reconcilers, Start

(***************************************************************************)
(* However the handlers, the loop of Start and the write-throughs          *)
(* interleave, an LVDL is indexed in one version, under targets of that    *)
(* version only, and LVDLs of other nodes are never indexed.               *)
(***************************************************************************)
THEOREM IndexedOnce == Spec => []OneVersion
  <1>1. VersionInv => OneVersion
    BY DEF VersionInv
  <1>2. VersionInv /\ [Next]_vars => VersionInv'
    BY VersionStep
  <1> QED
    BY <1>1, <1>2, VersionInit, PTL DEF Spec

-----------------------------------------------------------------------------
(* The index and the API server.                                           *)

\* A queue is empty if its length is zero.
LEMMA EmptyQueue ==
    ASSUME NEW S, NEW q \in Seq(S)
    PROVE  q = <<>> <=> Len(q) = 0
  OBVIOUS

\* What is left of a queue after its first element.
LEMMA TailLemma ==
    ASSUME NEW S, NEW q \in Seq(S), q # <<>>
    PROVE  /\ Len(q) \in Nat /\ Len(q) > 0
           /\ Len(Tail(q)) = Len(q) - 1
           /\ \A i \in 1..(Len(q) - 1) : Tail(q)[i] = q[i + 1]
           /\ Tail(q) = <<>> <=> Len(q) = 1
           /\ Tail(q) # <<>> => Tail(q)[Len(Tail(q))] = q[Len(q)]
  <1>1. /\ Len(q) \in Nat /\ Len(q) > 0 /\ Tail(q) \in Seq(S)
        /\ Len(Tail(q)) = Len(q) - 1
        /\ \A i \in 1..Len(Tail(q)) : Tail(q)[i] = q[i + 1]
    OBVIOUS
  <1>2. Tail(q) = <<>> <=> Len(Tail(q)) = 0
    BY <1>1, EmptyQueue
  <1>3. Len(q) # 1 => /\ Len(q) - 1 \in 1..Len(Tail(q))
                      /\ (Len(q) - 1) + 1 = Len(q)
    BY <1>1
  <1> QED
    BY <1>1, <1>2, <1>3

\* Nothing happens to an LVDL.
LEMMA Frame ==
    ASSUME NEW m \in Names, NameInv(m), phase' = phase,
           api'[m] = api[m], wire'[m] = wire[m], store'[m] = store[m], notes'[m] = notes[m],
           listed'[m] = listed[m], \A t \in Targets : index'[t][m] = index[t][m],
           m \in raced' <=> m \in raced,
           written' = written \/ (written' # Absent => written'.name # m)
    PROVE  NameInv(m)'
  <1>1. WireInv(m)' /\ NotesInv(m)'
    BY DEF NameInv, WireInv, NotesInv
  <1>2. ExactInv(m)'
    BY DEF NameInv, ExactInv, Handled, Holds
  <1>3. TargetsInv(m)'
    BY DEF NameInv, TargetsInv, SameTargets, Handled
  <1> QED
    BY <1>1, <1>2, <1>3 DEF NameInv

\* An API write: the targets of a local LVDL change only by its creation or by
\* a status update, when no older version waits to be indexed.
LEMMA ApiWriteStep ==
    ASSUME CacheInv, NEW n \in Names, NEW value \in Maybe(Objects), ApiWrite(n, value),
           value = Absent => api[n] # Absent,
           \/ written' = written
           \/ phase = "synced" /\ written'.name = n /\ written'.obj = value,
           \/ value = Absent /\ written' = written
           \/ n \notin LocalNames
           \/ api[n] # Absent /\ value.targets = api[n].targets /\ written' = written
           \/ phase = "synced" /\ written = Absent
    PROVE  StartInv' /\ \A m \in Names : NameInv(m)'
  <1> USE DEF CacheInv
  <1>1. StartInv'
    BY DEF StartInv, ApiWrite
  <1>2. ASSUME NEW m \in Names, m # n
        PROVE  NameInv(m)'
    BY <1>2, Frame DEF ApiWrite, TypeOK
  <1>3. NameInv(n)'
    <2>1. wire[n] \in Seq(Maybe(Objects)) /\ NameInv(n)
      BY DEF TypeOK
    <2>2. wire'[n] = Append(wire[n], value) /\ api'[n] = value /\ store' = store /\ notes' = notes
      BY DEF ApiWrite, TypeOK
    <2>3. /\ Len(wire'[n]) = Len(wire[n]) + 1 /\ Len(wire[n]) \in Nat
          /\ wire'[n][Len(wire[n]) + 1] = value
          /\ \A i \in 1..Len(wire[n]) : wire'[n][i] = wire[n][i]
          /\ wire'[n] # <<>>
          /\ wire[n] = <<>> <=> Len(wire[n]) = 0
      BY <2>1, <2>2
    <2>4. WireInv(n)'
      <3>1. wire'[n][Len(wire'[n])] = api'[n]
        BY <2>2, <2>3
      <3>2. ASSUME NEW i \in 1..Len(wire'[n]), wire'[n][i] = Absent
            PROVE  (IF i = 1 THEN store'[n] ELSE wire'[n][i - 1]) # Absent
        <4>1. CASE i = Len(wire[n]) + 1
          BY <2>1, <2>2, <2>3, <3>2, <4>1 DEF NameInv, WireInv
        <4>2. CASE i \in 1..Len(wire[n])
          <5>1. i # 1 => i - 1 \in 1..Len(wire[n])
            BY <2>3, <4>2
          <5> QED
            BY <2>1, <2>2, <2>3, <3>2, <4>2, <5>1 DEF NameInv, WireInv
        <4> QED
          BY <2>3, <4>1, <4>2
      <3> QED
        BY <2>3, <3>1, <3>2 DEF WireInv
    <2>5. NotesInv(n)'
      BY <2>1, <2>2 DEF NameInv, NotesInv
    <2>6. ExactInv(n)'
      BY <2>3 DEF ExactInv, Handled
    <2>7. TargetsInv(n)'
      <3> SUFFICES ASSUME n \in LocalNames, value # Absent
                   PROVE  TargetsInv(n)'
        BY <2>2, <2>3 DEF TargetsInv, Handled
      <3>1. listed' = listed /\ phase' = phase
        BY DEF ApiWrite
      <3>2. CASE api[n] # Absent /\ value.targets = api[n].targets /\ written' = written
        BY <2>1, <2>2, <2>3, <3>1, <3>2 DEF NameInv, TargetsInv, SameTargets, Handled
      <3>3. CASE phase = "synced" /\ written = Absent
        <4>1. listed[n] = Absent
          BY <3>3 DEF StartInv, Nothing
        <4> QED
          BY <2>2, <2>3, <3>1, <3>3, <4>1 DEF TargetsInv, SameTargets, Handled
      <3> QED
        BY <3>2, <3>3
    <2> QED
      BY <2>4, <2>5, <2>6, <2>7 DEF NameInv
  <1> QED
    BY <1>1, <1>2, <1>3

\* The informer stores a version and queues a notification for the handlers.
LEMMA DeliverStep ==
    ASSUME CacheInv, NEW n \in Names, NEW value \in Maybe(Objects), Deliver(n, value)
    PROVE  /\ store'[n] = value
           /\ \A m \in Names : m # n => store'[m] = store[m] /\ notes'[m] = notes[m]
           /\ phase = "start" => notes' = notes
           /\ NotesInv(n)'
           /\ phase # "start" /\ notes'[n] = <<>> => notes[n] = <<>> /\ value = Absent /\ store[n] = Absent
  <1> USE DEF CacheInv
  <1> DEFINE note == IF value # Absent THEN <<[op |-> "put", obj |-> value]>>
                     ELSE IF store[n] # Absent THEN <<[op |-> "remove", obj |-> store[n]]>>
                     ELSE <<>>
  <1>1. notes' = IF phase = "start" THEN notes ELSE [notes EXCEPT ![n] = @ \o note]
    BY DEF Deliver
  <1>2. store' = [store EXCEPT ![n] = value]
    BY DEF Deliver
  <1>3. store[n] \in Maybe(Objects) /\ notes[n] \in Seq(Note) /\ NotesInv(n)
    BY DEF TypeOK, NameInv
  <1>4. /\ store'[n] = value
        /\ \A m \in Names : m # n => store'[m] = store[m] /\ notes'[m] = notes[m]
        /\ phase = "start" => notes' = notes
        /\ phase # "start" => notes'[n] = notes[n] \o note
    BY <1>1, <1>2 DEF TypeOK
  <1>5. CASE phase = "start"
    <2>1. notes'[n] = <<>>
      BY <1>4, <1>5 DEF StartInv, NoNotes
    <2> QED
      BY <1>4, <1>5, <2>1 DEF NotesInv
  <1>6. CASE phase # "start" /\ value # Absent
    <2>1. note = <<[op |-> "put", obj |-> value]>>
      BY <1>6
    <2>2. notes'[n] = Append(notes[n], [op |-> "put", obj |-> value])
      BY <1>3, <1>4, <1>6, <2>1
    <2>3. notes'[n] # <<>> /\ notes'[n][Len(notes'[n])] = [op |-> "put", obj |-> value]
      BY <1>3, <2>2
    <2> QED
      BY <1>4, <1>6, <2>3 DEF NotesInv
  <1>7. CASE phase # "start" /\ value = Absent /\ store[n] # Absent
    <2>1. note = <<[op |-> "remove", obj |-> store[n]]>>
      BY <1>7
    <2>2. notes'[n] = Append(notes[n], [op |-> "remove", obj |-> store[n]])
      BY <1>3, <1>4, <1>7, <2>1
    <2>3. notes'[n] # <<>> /\ notes'[n][Len(notes'[n])] = [op |-> "remove", obj |-> store[n]]
      BY <1>3, <2>2
    <2> QED
      BY <1>4, <1>7, <2>3 DEF NotesInv
  <1>8. CASE phase # "start" /\ value = Absent /\ store[n] = Absent
    <2>1. note = <<>>
      BY <1>8
    <2>2. notes'[n] = notes[n]
      BY <1>3, <1>4, <1>8, <2>1
    <2> QED
      BY <1>3, <1>4, <1>8, <2>2 DEF NotesInv
  <1> QED
    BY <1>5, <1>6, <1>7, <1>8

\* The loop of Start or a write-through indexes an object that has the targets
\* of the version in the API server.
LEMMA LateIndexStep ==
    ASSUME CacheInv, NEW n \in Names, NEW obj \in Objects,
           AddOrUpdateLVDL(n, obj), Outdated(n, obj),
           UNCHANGED <<informerVars, notes, phase>>, phase # "start",
           n \in LocalNames /\ api[n] # Absent => obj.targets = api[n].targets
    PROVE  ExactInv(n)' /\ (n \in LocalNames /\ Handled(n)' /\ store'[n] # Absent =>
               \A t \in Targets : index'[t][n] # Absent <=> t \in store'[n].targets)
  <1> USE DEF CacheInv, informerVars
  <1>1. \A t \in Targets :
            index'[t][n] = IF n \in LocalNames /\ t \in obj.targets THEN obj ELSE Absent
    BY AddLemma
  <1>2. Absent \notin Objects
    BY CacheAssumption
  <1>3. ExactInv(n)'
    <2> SUFFICES ASSUME wire[n] = <<>>, n \notin raced'
                 PROVE  Holds(n, store[n])'
      BY DEF ExactInv, Handled
    <2>1. n \in LocalNames => store[n] = obj
      BY DEF Outdated
    <2> QED
      BY <1>1, <1>2, <2>1 DEF Holds
  <1>4. ASSUME n \in LocalNames, Handled(n)', store'[n] # Absent
        PROVE  \A t \in Targets : index'[t][n] # Absent <=> t \in store'[n].targets
    <2>1. store'[n] = api[n]
      BY <1>4 DEF Handled, NameInv, WireInv
    <2> QED
      BY <1>1, <1>2, <1>4, <2>1
  <1> QED
    BY <1>3, <1>4

\* At first the index is that of no objects.
LEMMA CacheInit == Init => CacheInv
  <1> SUFFICES ASSUME Init
               PROVE  CacheInv
    OBVIOUS
  <1>1. TypeOK /\ OneVersion
    BY VersionInit DEF VersionInv
  <1>2. StartInv
    BY DEF Init, StartInv
  <1>3. ASSUME NEW n \in Names
        PROVE  NameInv(n)
    <2>1. wire[n] = <<>> /\ notes[n] = <<>> /\ store[n] = api[n] /\ listed[n] = Absent
      BY DEF Init, NoNotes, Nothing
    <2> QED
      BY <2>1 DEF Init, NameInv, WireInv, NotesInv, ExactInv, TargetsInv, SameTargets, Handled
  <1> QED
    BY <1>1, <1>2, <1>3 DEF CacheInv

\* Every step keeps the index what the notifications seen so far make it.
LEMMA CacheStep ==
    ASSUME CacheInv, [Next]_vars
    PROVE  CacheInv'
  <1> USE CacheAssumption DEF CacheInv
  <1> SUFFICES StartInv' /\ \A m \in Names : NameInv(m)'
    BY VersionStep DEF VersionInv
  <1>1. ASSUME NEW n \in Names, UserUpdate(n) \/ Delete(n)
        PROVE  StartInv' /\ \A m \in Names : NameInv(m)'
    <2>1. CASE UserUpdate(n)
      <3>1. api[n] \in Objects /\ api[n].targets \in SUBSET Targets /\ writes < MaxWrites
        BY <2>1 DEF UserUpdate, ApiWrite, TypeOK, Maybe, Objects
      <3>2. NewVersion(api[n].targets) \in Objects
        BY <3>1, VersionType
      <3>3. NewVersion(api[n].targets).targets = api[n].targets
        BY DEF NewVersion
      <3> QED
        BY <2>1, <3>2, <3>3, ApiWriteStep DEF UserUpdate, Maybe
    <2>2. CASE Delete(n)
      BY <2>2, ApiWriteStep DEF Delete, Maybe
    <2> QED
      BY <1>1, <2>1, <2>2
  <1>2. ASSUME NEW n \in Names, NEW targets \in SUBSET Targets, ForeignUpdate(n, targets)
        PROVE  StartInv' /\ \A m \in Names : NameInv(m)'
    <2>1. NewVersion(targets) \in Objects
      BY <1>2, VersionType DEF ForeignUpdate, ApiWrite
    <2> QED
      BY <1>2, <2>1, ApiWriteStep DEF ForeignUpdate, Maybe
  <1>3. ASSUME NEW n \in LocalNames, CreateLVDL(n)
        PROVE  StartInv' /\ \A m \in Names : NameInv(m)'
    <2>1. NewVersion({}) \in Objects
      BY <1>3, VersionType DEF CreateLVDL, ApiWrite
    <2> QED
      BY <1>3, <2>1, ApiWriteStep DEF CreateLVDL, Maybe
  <1>4. ASSUME NEW n \in LocalNames, NEW targets \in SUBSET Targets, UpdateStatus(n, targets)
        PROVE  StartInv' /\ \A m \in Names : NameInv(m)'
    <2>1. NewVersion(targets) \in Objects
      BY <1>4, VersionType DEF UpdateStatus, ApiWrite
    <2> QED
      BY <1>4, <2>1, ApiWriteStep DEF UpdateStatus, Maybe
  <1>5. ASSUME NEW n \in Names, WatchEvent(n)
        PROVE  StartInv' /\ \A m \in Names : NameInv(m)'
    <2> DEFINE w == wire[n]
               value == Head(w)
    <2>1. w \in Seq(Maybe(Objects)) /\ w # <<>> /\ NameInv(n)
      BY <1>5 DEF WatchEvent, TypeOK
    <2>2. value \in Maybe(Objects) /\ value = w[1]
      BY <2>1
    <2>3. /\ wire'[n] = Tail(w)
          /\ \A m \in Names : m # n => wire'[m] = wire[m]
          /\ UNCHANGED <<api, writes, phase, listed, written, index, raced, restarts>>
      BY <1>5 DEF WatchEvent, TypeOK
    <2>4. /\ store'[n] = value
          /\ \A m \in Names : m # n => store'[m] = store[m] /\ notes'[m] = notes[m]
          /\ phase = "start" => notes' = notes
          /\ NotesInv(n)'
          /\ phase # "start" /\ notes'[n] = <<>> => value = Absent /\ store[n] = Absent
      BY <1>5, <2>2, DeliverStep DEF WatchEvent
    <2>5. /\ Len(w) \in Nat /\ Len(w) > 0
          /\ Len(wire'[n]) = Len(w) - 1
          /\ \A i \in 1..(Len(w) - 1) : wire'[n][i] = w[i + 1]
          /\ wire'[n] = <<>> <=> Len(w) = 1
      BY <2>1, <2>3, TailLemma
    <2> HIDE DEF w, value
    <2>6. WireInv(n)'
      <3>1. IF wire'[n] = <<>> THEN store'[n] = api'[n] ELSE wire'[n][Len(wire'[n])] = api'[n]
        BY <2>1, <2>2, <2>3, <2>4, <2>5 DEF NameInv, WireInv, w
      <3>2. ASSUME NEW i \in 1..Len(wire'[n]), wire'[n][i] = Absent
            PROVE  (IF i = 1 THEN store'[n] ELSE wire'[n][i - 1]) # Absent
        <4>1. w[i + 1] = Absent /\ i + 1 \in 1..Len(w) /\ i + 1 # 1 /\ (i + 1) - 1 = i
          BY <2>5, <3>2
        <4>2. w[i] # Absent
          BY <2>1, <4>1 DEF NameInv, WireInv, w
        <4>3. i # 1 => wire'[n][i - 1] = w[i]
          <5>1. i # 1 => i - 1 \in 1..(Len(w) - 1) /\ (i - 1) + 1 = i
            BY <2>5, <4>1
          <5> QED
            BY <2>5, <5>1
        <4> QED
          BY <2>2, <2>4, <4>2, <4>3
      <3> QED
        BY <3>1, <3>2 DEF WireInv
    <2>7. ~ Handled(n)'
      <3>1. w[1] = Absent => store[n] # Absent
        BY <2>1, <2>5 DEF NameInv, WireInv, w
      <3> QED
        BY <2>2, <2>3, <2>4, <3>1 DEF Handled
    <2>8. TargetsInv(n)'
      <3>1. /\ 1 \in 1..Len(w)
            /\ \A i \in 1..Len(wire'[n]) : i + 1 \in 1..Len(w) /\ wire'[n][i] = w[i + 1]
        BY <2>5
      <3>2. store'[n] = w[1]
        BY <2>2, <2>4
      <3> QED
        BY <2>1, <2>3, <2>7, <3>1, <3>2 DEF NameInv, TargetsInv, SameTargets, w
    <2>9. NameInv(n)'
      BY <2>4, <2>6, <2>7, <2>8 DEF NameInv, ExactInv
    <2>10. ASSUME NEW m \in Names, m # n
           PROVE  NameInv(m)'
      BY <2>3, <2>4, <2>10, Frame
    <2>11. StartInv'
      BY <2>3, <2>4 DEF StartInv
    <2> QED
      BY <2>9, <2>10, <2>11
  <1>6. ASSUME NEW n \in Names, Relist(n)
        PROVE  StartInv' /\ \A m \in Names : NameInv(m)'
    <2>1. api[n] \in Maybe(Objects) /\ NameInv(n)
      BY DEF TypeOK
    <2>2. /\ wire'[n] = <<>>
          /\ \A m \in Names : m # n => wire'[m] = wire[m] /\ (m \in raced' <=> m \in raced)
          /\ store[n] = Absent /\ api[n] = Absent => n \in raced'
          /\ UNCHANGED <<api, writes, phase, listed, written, index, restarts>>
      BY <1>6 DEF Relist, TypeOK
    <2>3. /\ store'[n] = api[n]
          /\ \A m \in Names : m # n => store'[m] = store[m] /\ notes'[m] = notes[m]
          /\ phase = "start" => notes' = notes
          /\ NotesInv(n)'
          /\ phase # "start" /\ notes'[n] = <<>> => api[n] = Absent /\ store[n] = Absent
      BY <1>6, <2>1, DeliverStep DEF Relist
    <2>4. WireInv(n)'
      BY <2>2, <2>3 DEF WireInv
    <2>5. ExactInv(n)'
      BY <2>2, <2>3 DEF ExactInv, Handled
    <2>6. TargetsInv(n)'
      <3>1. 1..Len(wire'[n]) = {}
        BY <2>2
      <3> QED
        BY <2>1, <2>2, <2>3, <3>1 DEF NameInv, TargetsInv, SameTargets, Handled
    <2>7. ASSUME NEW m \in Names, m # n
          PROVE  NameInv(m)'
      BY <2>2, <2>3, <2>7, Frame
    <2>8. StartInv'
      BY <2>2, <2>3 DEF StartInv
    <2> QED
      BY <2>3, <2>4, <2>5, <2>6, <2>7, <2>8 DEF NameInv
  <1>7. ASSUME NEW n \in Names, Resync(n)
        PROVE  StartInv' /\ \A m \in Names : NameInv(m)'
    <2>1. /\ notes'[n] = <<[op |-> "put", obj |-> store[n]]>>
          /\ \A m \in Names : m # n => notes'[m] = notes[m]
          /\ UNCHANGED <<informerVars, phase, listed, written, index, raced>>
          /\ phase # "start" /\ store[n] # Absent
      BY <1>7 DEF Resync, TypeOK
    <2>2. notes'[n] # <<>> /\ notes'[n][Len(notes'[n])] = [op |-> "put", obj |-> store[n]]
      BY <2>1
    <2>3. NameInv(n)'
      BY <2>1, <2>2
         DEF NameInv, WireInv, NotesInv, ExactInv, TargetsInv, SameTargets, Handled, informerVars
    <2>4. ASSUME NEW m \in Names, m # n
          PROVE  NameInv(m)'
      BY <2>1, <2>4, Frame DEF informerVars
    <2> QED
      BY <2>1, <2>3, <2>4 DEF StartInv
  <1>8. ASSUME WatchForEvents
        PROVE  StartInv' /\ \A m \in Names : NameInv(m)'
    <2>1. StartInv'
      BY <1>8 DEF WatchForEvents, StartInv
    <2>2. ASSUME NEW n \in Names
          PROVE  NameInv(n)'
      <3>1. /\ UNCHANGED <<informerVars, listed, written, index, raced>>
            /\ phase = "start" /\ phase' = "list"
        BY <1>8 DEF WatchForEvents
      <3>2. CASE store[n] = Absent
        <4>1. notes'[n] = <<>>
          BY <1>8, <3>2 DEF WatchForEvents
        <4>2. \A t \in Targets : index[t][n] = Absent
          BY <3>1 DEF StartInv, Nothing
        <4> QED
          BY <3>1, <3>2, <4>1, <4>2, ZenonT(60)
             DEF NameInv, WireInv, NotesInv, ExactInv, Holds, TargetsInv, SameTargets, Handled,
                 informerVars
      <3>3. CASE store[n] # Absent
        <4>1. notes'[n] = <<[op |-> "put", obj |-> store[n]]>>
          BY <1>8, <3>3 DEF WatchForEvents
        <4>2. notes'[n] # <<>> /\ notes'[n][Len(notes'[n])] = [op |-> "put", obj |-> store[n]]
          BY <4>1
        <4> QED
          BY <3>1, <3>3, <4>2
             DEF NameInv, WireInv, NotesInv, ExactInv, TargetsInv, SameTargets, Handled,
                 informerVars
      <3> QED
        BY <3>2, <3>3
    <2> QED
      BY <2>1, <2>2
  <1>9. ASSUME NEW n \in Names, HandleEvent(n)
        PROVE  StartInv' /\ \A m \in Names : NameInv(m)'
    <2> DEFINE q == notes[n]
               note == Head(q)
    <2>1. q \in Seq(Note) /\ q # <<>> /\ NameInv(n)
      BY <1>9 DEF HandleEvent, TypeOK
    <2>2. note \in Note /\ note = q[1]
      BY <2>1
    <2>3. /\ notes'[n] = Tail(q)
          /\ \A m \in Names : m # n => notes'[m] = notes[m] /\ (m \in raced' <=> m \in raced)
          /\ UNCHANGED <<informerVars, phase, listed, written>>
      BY <1>9 DEF HandleEvent, TypeOK
    <2>4. /\ Len(q) \in Nat /\ Len(q) > 0
          /\ notes'[n] = <<>> <=> Len(q) = 1
          /\ notes'[n] # <<>> => notes'[n][Len(notes'[n])] = q[Len(q)]
      BY <2>1, <2>3, TailLemma
    <2>5. note.obj \in Objects /\ note.op \in {"put", "remove"}
      BY <2>2 DEF Note
    <2>6. \A m \in Names, t \in Targets : m # n => index'[t][m] = index[t][m]
      BY <1>9, <2>5, AddLemma, RemoveLemma DEF HandleEvent
    <2>7. phase # "start"
      BY <2>1 DEF StartInv, NoNotes
    <2>8. /\ note.op = "put" => AddOrUpdateLVDL(n, note.obj)
          /\ note.op # "put" => RemoveLVDL(n, note.obj)
          /\ note.op # "put" /\ n \notin raced' =>
                 \A t \in Targets : index'[t][n] \in {Absent, note.obj}
      BY <1>9, ZenonT(60) DEF HandleEvent
    <2> HIDE DEF q, note
    \* After the last notification the index holds the version in the store.
    <2>9. ASSUME notes'[n] = <<>>, n \notin raced' \/ store[n] # Absent
          PROVE  Holds(n, store[n])'
      <3>1. IF store[n] = Absent THEN note.op = "remove"
            ELSE note = [op |-> "put", obj |-> store[n]]
        BY <2>1, <2>2, <2>4, <2>9, ZenonT(60) DEF NameInv, NotesInv, q
      <3>2. CASE store[n] # Absent
        <4>1. note.op = "put" /\ note.obj = store[n]
          BY <3>1, <3>2
        <4>2. \A t \in Targets :
                  index'[t][n] = IF n \in LocalNames /\ t \in store[n].targets
                                 THEN store[n] ELSE Absent
          BY <2>5, <2>8, <4>1, AddLemma
        <4> QED
          BY <2>3, <3>2, <4>2 DEF Holds, informerVars
      <3>3. CASE store[n] = Absent
        <4>1. note.op # "put"
          BY <3>1, <3>3
        <4>2. \A t \in Targets :
                  index'[t][n] = IF t \in note.obj.targets THEN Absent ELSE index[t][n]
          BY <2>5, <2>8, <4>1, RemoveLemma
        <4>3. \A t \in Targets : index'[t][n] \in {Absent, note.obj}
          BY <2>8, <2>9, <3>3, <4>1
        <4>4. \A t \in Targets : index[t][n] # Absent => t \in index[t][n].targets
          BY DEF OneVersion
        <4>5. \A t \in Targets : index'[t][n] = Absent
          BY <4>2, <4>3, <4>4
        <4> QED
          BY <2>3, <3>3, <4>5 DEF Holds, informerVars
      <3> QED
        BY <3>2, <3>3
    <2>10. ExactInv(n)'
      BY <2>3, <2>9 DEF ExactInv, Handled, informerVars
    <2>11. TargetsInv(n)'
      <3>1. ASSUME n \in LocalNames, Handled(n)', store'[n] # Absent
            PROVE  \A t \in Targets : index'[t][n] # Absent <=> t \in store'[n].targets
        <4>1. Holds(n, store[n])' /\ store' = store /\ store[n] \in Objects
          BY <2>3, <2>9, <3>1 DEF Handled, informerVars, TypeOK, Maybe
        <4> QED
          BY <3>1, <4>1 DEF Holds
      <3> QED
        BY <2>1, <2>3, <3>1 DEF NameInv, TargetsInv, SameTargets, informerVars
    <2>12. WireInv(n)' /\ NotesInv(n)'
      BY <2>1, <2>3, <2>4 DEF NameInv, WireInv, NotesInv, informerVars, q
    <2>13. ASSUME NEW m \in Names, m # n
           PROVE  NameInv(m)'
      BY <2>3, <2>6, <2>13, Frame DEF informerVars
    <2>14. StartInv'
      BY <2>3, <2>7 DEF StartInv
    <2> QED
      BY <2>10, <2>11, <2>12, <2>13, <2>14 DEF NameInv
  <1>10. ASSUME List
         PROVE  StartInv' /\ \A m \in Names : NameInv(m)'
    <2>1. ASSUME NEW n \in Names
          PROVE  NameInv(n)'
      BY <1>10, <2>1 DEF List, NameInv, WireInv, NotesInv, ExactInv, Holds, TargetsInv,
             SameTargets, Handled, informerVars
    <2> QED
      BY <1>10, <2>1 DEF List, StartInv
  <1>11. ASSUME Synced
         PROVE  StartInv' /\ \A m \in Names : NameInv(m)'
    <2>1. ASSUME NEW n \in Names
          PROVE  NameInv(n)'
      BY <1>11, <2>1 DEF Synced, NameInv, WireInv, NotesInv, ExactInv, Holds, TargetsInv,
             SameTargets, Handled, informerVars
    <2> QED
      BY <1>11, <2>1 DEF Synced, StartInv
  <1>12. ASSUME NEW n \in Names, Populate(n)
         PROVE  StartInv' /\ \A m \in Names : NameInv(m)'
    <2>1. listed[n] \in Objects /\ phase = "populate" /\ NameInv(n)
      BY <1>12 DEF Populate, TypeOK, Maybe
    <2>2. /\ listed'[n] = Absent /\ \A m \in Names : m # n => listed'[m] = listed[m]
          /\ UNCHANGED <<informerVars, notes, phase, written>>
      BY <1>12 DEF Populate, TypeOK
    <2>3. \A m \in Names : m # n => (m \in raced' <=> m \in raced)
      BY <1>12 DEF Populate, Outdated
    <2>4. n \in LocalNames /\ api[n] # Absent => listed[n].targets = api[n].targets
      BY <2>1, ZenonT(60) DEF NameInv, TargetsInv, SameTargets
    <2>5. ExactInv(n)' /\ (n \in LocalNames /\ Handled(n)' /\ store'[n] # Absent =>
              \A t \in Targets : index'[t][n] # Absent <=> t \in store'[n].targets)
      BY <1>12, <2>1, <2>2, <2>4, LateIndexStep DEF Populate
    <2>6. \A m \in Names, t \in Targets : m # n => index'[t][m] = index[t][m]
      BY <1>12, <2>1, AddLemma DEF Populate
    <2>7. NameInv(n)'
      BY <2>1, <2>2, <2>5, ZenonT(60)
         DEF NameInv, WireInv, NotesInv, TargetsInv, SameTargets, informerVars
    <2>8. ASSUME NEW m \in Names, m # n
          PROVE  NameInv(m)'
      BY <2>2, <2>3, <2>6, <2>8, Frame, ZenonT(60) DEF informerVars
    <2> QED
      BY <2>1, <2>2, <2>7, <2>8 DEF StartInv
  <1>13. ASSUME WriteThrough
         PROVE  StartInv' /\ \A m \in Names : NameInv(m)'
    <2>0. PICK n \in Names : n = written.name
      BY <1>13 DEF WriteThrough, TypeOK, Maybe
    <2>1. n \in Names /\ written.obj \in Objects /\ NameInv(n)
      BY <1>13 DEF WriteThrough, TypeOK, Maybe
    <2>2. /\ written # Absent /\ written' = Absent /\ phase = "synced"
          /\ UNCHANGED <<informerVars, notes, phase, listed>>
          /\ AddOrUpdateLVDL(n, written.obj) /\ Outdated(n, written.obj)
      BY <1>13, <2>0 DEF WriteThrough, StartInv
    <2>3. \A m \in Names : m # n => (m \in raced' <=> m \in raced)
      BY <2>2 DEF Outdated
    <2>4. n \in LocalNames /\ api[n] # Absent => written.obj.targets = api[n].targets
      BY <2>0, <2>1, <2>2 DEF NameInv, TargetsInv, SameTargets
    <2>5. ExactInv(n)' /\ (n \in LocalNames /\ Handled(n)' /\ store'[n] # Absent =>
              \A t \in Targets : index'[t][n] # Absent <=> t \in store'[n].targets)
      BY <2>1, <2>2, <2>4, LateIndexStep
    <2>6. \A m \in Names, t \in Targets : m # n => index'[t][m] = index[t][m]
      BY <2>1, <2>2, AddLemma
    <2>7. NameInv(n)'
      BY <2>1, <2>2, <2>5
         DEF NameInv, WireInv, NotesInv, TargetsInv, SameTargets, informerVars
    <2>8. ASSUME NEW m \in Names, m # n
          PROVE  NameInv(m)'
      BY <2>2, <2>3, <2>6, <2>8, Frame, ZenonT(60) DEF informerVars
    <2> QED
      BY <2>1, <2>2, <2>7, <2>8, ZenonT(60) DEF StartInv
  <1>14. ASSUME Restart
         PROVE  StartInv' /\ \A m \in Names : NameInv(m)'
    <2>1. ASSUME NEW n \in Names
          PROVE  NameInv(n)'
      <3>1. /\ wire'[n] = <<>> /\ notes'[n] = <<>> /\ store'[n] = api'[n] /\ listed'[n] = Absent
            /\ written' = Absent /\ phase' = "start"
        BY <1>14 DEF Restart, NoNotes, Nothing
      <3> QED
        BY <3>1 DEF NameInv, WireInv, NotesInv, ExactInv, TargetsInv, SameTargets, Handled
    <2> QED
      BY <1>14, <2>1 DEF Restart, StartInv
  <1>15. ASSUME UNCHANGED vars
         PROVE  StartInv' /\ \A m \in Names : NameInv(m)'
    BY <1>15, Frame DEF vars, StartInv
  <1> QED
    BY <1>1, <1>2, <1>3, <1>4, <1>5, <1>6, <1>7, <1>8, <1>9, <1>10, <1>11, <1>12, <1>13, <1>14,
       <1>15
       DEF Next, Others, Reconcilers, Start

(***************************************************************************)
(* Once all that happened to an LVDL has been handled, the index agrees    *)
(* with the API server, unless one of the races that `raced' records put   *)
(* an older object there: no other order of handlers, Start, write-        *)
(* throughs, relists and restarts leaves a difference.                     *)
(***************************************************************************)
THEOREM IndexIsExact == Spec => []ExactUnlessRaced
  <1>1. CacheInv => ExactUnlessRaced
    BY DEF CacheInv, NameInv, WireInv, ExactInv, Handled, Holds, ExactUnlessRaced, Quiet, Exact
  <1>2. CacheInv /\ [Next]_vars => CacheInv'
    BY CacheStep
  <1> QED
    BY <1>1, <1>2, CacheInit, PTL DEF Spec

(***************************************************************************)
(* Even where a race left an older object in the index, it is indexed      *)
(* under exactly the targets of the current one, so that                   *)
(* FindLSOManagedDeviceInfo finds every device of a handled LVDL.          *)
(***************************************************************************)
THEOREM IndexIsPopulated == Spec => []FullyPopulated
  <1>1. ASSUME CacheInv
        PROVE  FullyPopulated
    <2> SUFFICES ASSUME NEW n \in LocalNames, Quiet(n), api[n] # Absent
                 PROVE  {t \in Targets : index[t][n] # Absent} = api[n].targets
      BY DEF FullyPopulated
    <2>1. n \in Names /\ NameInv(n) /\ api[n] \in Objects
      BY <1>1, CacheAssumption DEF CacheInv, TypeOK, Maybe
    <2>2. store[n] = api[n] /\ Handled(n)
      BY <2>1 DEF NameInv, WireInv, Quiet, Handled
    <2>3. \A t \in Targets : index[t][n] # Absent <=> t \in api[n].targets
      BY <2>1, <2>2 DEF NameInv, TargetsInv
    <2>4. api[n].targets \subseteq Targets
      BY <2>1 DEF Objects
    <2> QED
      BY <2>3, <2>4
  <1>2. CacheInv /\ [Next]_vars => CacheInv'
    BY CacheStep
  <1> QED
    BY <1>1, <1>2, CacheInit, PTL DEF Spec
=============================================================================

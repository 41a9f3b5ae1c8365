----------------------------- MODULE DeviceList -----------------------------
(***************************************************************************)
(* How discovery makes its list of the rows of lsblk (discovery.go).  A    *)
(* row has the id of its device, its path and a state.                     *)
(***************************************************************************)
EXTENDS SequencesExt

Key(v) == <<v.id, v.path>>

\* Mutant: a row that is already listed is not replaced by a later one.
PutFirst(unique, v) ==
    IF \E i \in DOMAIN unique : Key(unique[i]) = Key(v) THEN unique ELSE Append(unique, v)

\* uniqueDevices: of the rows with one id and one path the last is kept, in the place
\* of the first.  The comment of uniqueDevices calls DeviceID alone the key.
Put(unique, v) ==
    LET same == {i \in DOMAIN unique : Key(unique[i]) = Key(v)}
    IN IF same = {} THEN Append(unique, v)
       ELSE [i \in DOMAIN unique |-> IF i \in same THEN v ELSE unique[i]]

uniqueDevices(sample) == FoldLeft(Put, <<>>, sample)
=============================================================================

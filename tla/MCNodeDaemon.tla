----------------------------- MODULE MCNodeDaemon -----------------------------
(* One LocalVolume and one LocalVolumeSet with a class in common, two nodes,  *)
(* and specs that select either of them or all.                               *)
EXTENDS NodeDaemon, TLC

CONSTANTS l, s, n1, n2, c, x, y, old, prov

OneClass == (l :> c) @@ (s :> c)
OneOrAll ==
    {[sel |-> {n1}, mode |-> x], [sel |-> {n2}, mode |-> y], [sel |-> Nil, mode |-> x]}

\* Bound: a call that fails takes the place of one of the changes.
FewerIfFailed == changes + fails <= MaxChanges
=============================================================================

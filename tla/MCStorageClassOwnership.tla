----------------------- MODULE MCStorageClassOwnership -----------------------
(* One LocalVolume and one LocalVolumeSet, with their own classes or with one *)
(* class in common.                                                           *)
EXTENDS StorageClassOwnership, TLC

CONSTANTS l, s, a, b, c

OwnClasses == (l :> {{a}, {a, b}}) @@ (s :> {{c}})
OneClassEach == (l :> {{a}}) @@ (s :> {{c}})
SetMoves == (l :> {{a}}) @@ (s :> {{b}, {c}})
SharedClass == (l :> {{a}}) @@ (s :> {{a}})

\* Bound: a call fails or the operator restarts, and then not the other too.
OneFault == fails + crashes <= 1
=============================================================================

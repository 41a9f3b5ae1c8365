--------------------------- MODULE MCDeviceClaim ---------------------------
(* One LocalVolume and one LocalVolumeSet reconciler, over two devices     *)
(* with one by-id name each, or over one device with two names, which the  *)
(* two reconcilers may name differently.                                   *)
EXTENDS DeviceClaim, TLC

CONSTANTS d1, d2, n1, n2, fast, slow, lv, lvset

TwoDevices == (n1 :> d1) @@ (n2 :> d2)
TwoDevicesPreferred == (d1 :> n1) @@ (d2 :> n2)

TwoNames == (n1 :> d1) @@ (n2 :> d1)
TwoNamesPreferred == (d1 :> n1)

\* Each owner object has a storage class of its own.
OwnClasses == (lv :> {fast}) @@ (lvset :> {slow})

\* The two owner objects ask for the same storage class.
SharedClass == (lv :> {fast}) @@ (lvset :> {fast})
=============================================================================

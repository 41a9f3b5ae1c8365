----------------------- MODULE MCSymlinkRecreation -----------------------
(* Two devices, one with a single by-id link and one with two or three: the  *)
(* third lets a device come back with a preferred link no LVDL lists and a   *)
(* sibling that one does.                                                    *)
EXTENDS SymlinkRecreation, TLC

CONSTANTS d1, d2, wwn, scsi, ata, nvme

TwoDevices == (wwn :> d1) @@ (scsi :> d1) @@ (nvme :> d2)
MCRank == (wwn :> 0) @@ (scsi :> 1) @@ (nvme :> 2)

ThreeLinks == TwoDevices @@ (ata :> d1)
ThreeLinksRank == MCRank @@ (ata :> 3)

\* A crash between the creation and the renaming of the .tmp leaves it behind.
Working == Steps \ {"idle"}
OutsideSwap == Working \ {"rename"}

\* The steps after which a crash, or a failed call, is made good by the next
\* reconciliation: not between the renaming and the status that records it.
Repeatable == OutsideSwap \ {"status"}
Retried == Working \ {"status"}
=============================================================================

-------------------------- MODULE MCDiscoveryDaemon --------------------------
(* A device that comes and goes, one that is always there, and one of device  *)
(* mapper, about which udev says nothing.                                     *)
EXTENDS DiscoveryDaemon

CONSTANTS d, e, m
=============================================================================

--------------------------- MODULE MCInstanceLock ---------------------------
(* Instances of InstanceLock for TLC.                                       *)
EXTENDS InstanceLock
=============================================================================

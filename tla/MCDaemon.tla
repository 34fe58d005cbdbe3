------------------------------ MODULE MCDaemon ------------------------------
(* Instances of Daemon for TLC.  Which goroutines exist, and whether writes *)
(* fail and others write too, is set in the .cfg.                           *)
EXTENDS Daemon
=============================================================================

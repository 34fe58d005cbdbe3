--------------------------- MODULE MCLaunchAgent ----------------------------
(* Instances of LaunchAgent for TLC.                                        *)
EXTENDS LaunchAgent
=============================================================================

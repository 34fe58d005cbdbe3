---------------------------- MODULE MCPlistParse ----------------------------
(* Instances of PlistParse for TLC.                                         *)
EXTENDS PlistParse
=============================================================================

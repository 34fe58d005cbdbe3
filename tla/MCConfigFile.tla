---------------------------- MODULE MCConfigFile ----------------------------
(* Instances of ConfigFile for TLC; handlers are interchangeable.           *)
EXTENDS ConfigFile, TLC

HandlerSymmetry == Permutations(Handlers)
=============================================================================

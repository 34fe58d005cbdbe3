----------------------------- MODULE MCService ------------------------------
(* Instances of Service for TLC.                                            *)
EXTENDS Service

LOCAL INSTANCE Functions

(* A default, another spelling of the same chord, and none.                 *)
MCCombos == {<<"ctrl", "opt", "cmd", "s">>, <<"command", "alt", "control", "s">>,
             <<"cmd", "mouse">>}

(* Order does not matter; that a repetition would not is not used here.     *)
MCChordOf(parsed) == [mods |-> Range(parsed.mods), key |-> parsed.key]
=============================================================================

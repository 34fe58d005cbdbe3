-------------------------------- MODULE Calls --------------------------------
(***************************************************************************)
(* What the control socket promises whoever calls once: the request runs   *)
(* at most once, "ok" is said only after it has run, and one that was      *)
(* refused never runs.  A caller that gives up learns nothing: its request *)
(* may have run, may run yet, or never.                                    *)
(*                                                                         *)
(* Service implements this module; it says nothing of connections,         *)
(* deadlines, or how the daemon ends.                                      *)
(***************************************************************************)
EXTENDS Naturals

CONSTANT Callers

VARIABLES
  call,   \* what each caller knows
  ran     \* how often its request has run

vars == <<call, ran>>

Init ==
  /\ call = [c \in Callers |-> "idle"]
  /\ ran = [c \in Callers |-> 0]

-----------------------------------------------------------------------------
Learns(c, a) == call' = [call EXCEPT ![c] = a]

Send(c)   == call[c] = "idle" /\ Learns(c, "sent") /\ UNCHANGED ran
Refuse(c) == call[c] = "idle" /\ Learns(c, "refused") /\ UNCHANGED ran

Perform(c) ==
  /\ call[c] \in {"sent", "failed"}
  /\ ran[c] = 0
  /\ ran' = [ran EXCEPT ![c] = 1]
  /\ UNCHANGED call

Answer(c) ==
  /\ call[c] = "sent"
  /\ ran[c] = 1
  /\ Learns(c, "ok")
  /\ UNCHANGED ran

GiveUp(c) == call[c] = "sent" /\ Learns(c, "failed") /\ UNCHANGED ran

Next == \E c \in Callers : Send(c) \/ Refuse(c) \/ Perform(c) \/ Answer(c) \/ GiveUp(c)

Spec == Init /\ [][Next]_vars
=============================================================================

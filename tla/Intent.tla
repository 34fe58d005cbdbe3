------------------------------- MODULE Intent -------------------------------
(***************************************************************************)
(* What the daemon may do to the system's scroll direction, whoever asks   *)
(* it to: every write is an errand that a goroutine took on while the      *)
(* daemon was not paused, and carries the direction that was the target at *)
(* that moment.  A goroutine has one errand at a time.                     *)
(*                                                                         *)
(* Daemon implements this module; it says nothing of how the target comes  *)
(* about, of records and verification, or of the order of overlapping      *)
(* errands.                                                                *)
(***************************************************************************)
CONSTANTS
  Errands,     \* the goroutines that may write
  Direction,
  None,        \* no direction
  OthersWrite  \* may somebody else write the setting?

VARIABLES
  paused,
  target,      \* the direction for the state the mouse is in
  errand,      \* the direction each goroutine is about to write, or None
  live, pref   \* the system's direction in force and the stored one

setting == <<live, pref>>
vars == <<paused, target, errand, setting>>

Init ==
  /\ paused = FALSE
  /\ target \in Direction
  /\ errand = [e \in Errands |-> None]
  /\ live \in Direction
  /\ pref \in Direction

-----------------------------------------------------------------------------
(* The user pauses, resumes or chooses targets; the mouse comes or goes.    *)
Change ==
  /\ paused' \in BOOLEAN
  /\ target' \in Direction
  /\ UNCHANGED <<errand, setting>>

Take(e) ==
  /\ ~paused
  /\ errand[e] = None
  /\ errand' = [errand EXCEPT ![e] = target]
  /\ UNCHANGED <<paused, target, setting>>

(* One half of a write, after which the errand may be over.                 *)
Write(e) ==
  /\ errand[e] # None
  /\ live' \in {live, errand[e]}
  /\ pref' \in {pref, errand[e]}
  /\ errand' \in {errand, [errand EXCEPT ![e] = None]}
  /\ UNCHANGED <<paused, target>>

OtherWrite ==
  /\ OthersWrite
  /\ live' \in Direction
  /\ pref' \in Direction
  /\ UNCHANGED <<paused, target, errand>>

Next ==
  \/ Change
  \/ \E e \in Errands : Take(e) \/ Write(e)
  \/ OtherWrite

Spec == Init /\ [][Next]_vars
=============================================================================

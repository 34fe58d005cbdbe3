------------------------------- MODULE Daemon -------------------------------
(***************************************************************************)
(* The state machine of internal/daemon: the goroutines that share the     *)
(* Daemon struct, the apply() they all end in, and the system setting that *)
(* apply() writes through internal/scroller.                               *)
(*                                                                         *)
(* One action is one critical section of d.mu, or one call into the        *)
(* operating system: between two of them any other goroutine may run.      *)
(* Notifications, beeps, the log and the config file change nothing here;  *)
(* the file has a module of its own, ConfigFile.                           *)
(***************************************************************************)
EXTENDS Naturals

CONSTANTS
  Main,            \* the goroutine of Run, which applies once at startup
  Mon,             \* the btmonitor polling goroutine
  PauseKeys,       \* the goroutine of the pause hotkey; {} if registration failed
  SwapKeys,        \* the goroutine of the direction hotkey; {} if registration failed
  Conns,           \* the goroutines serving control-socket connections
  SetMayFail,      \* may CFPreferencesAppSynchronize fail?
  OutsideChanges   \* may the user or another program change the setting?

ASSUME MainIsNotMon == Main # Mon

Worker == {Main, Mon} \cup PauseKeys \cup SwapKeys \cup Conns

Direction == {"natural", "traditional"}
Device    == {"connected", "disconnected"}
Unknown   == "unknown"

VARIABLES
  paused,     \* d.paused
  mouse,      \* d.mouseConnected
  when,       \* d.cfg: the target direction for each state of the mouse
  applied,    \* d.appliedNatural, Unknown while d.appliedKnown is false
  polled,     \* m.connected of the monitor
  live,       \* the direction in force in the WindowServer
  pref,       \* com.apple.swipescrolldirection
  pc,         \* what each goroutine does next
  tgt,        \* apply()'s local target, per goroutine
  (* History, read by properties only. *)
  lastSnap,   \* the target of the latest snapshot apply() took while not paused
  calm        \* that snapshot met no write of another direction, and nothing
              \* spoiled it since

daemonVars  == <<paused, mouse, when, applied>>
systemVars  == <<live, pref>>
historyVars == <<lastSnap, calm>>
vars == <<daemonVars, polled, systemVars, pc, tgt, historyVars>>

-----------------------------------------------------------------------------
(* Where a goroutine can be.  "changed": the monitor has a new state and    *)
(* calls onMouseChange; "reset": a swap is between its two critical         *)
(* sections; "snap": apply() is called and has not read the state; "get",   *)
(* "live", "pref", "rec": inside apply(), before the verifying Get, before  *)
(* each half of Set, and before the result is recorded.                     *)
Label == {"start", "idle", "changed", "reset", "snap", "get", "live", "pref", "rec"}

Goto(w, l) == pc' = [pc EXCEPT ![w] = l]

(* The value apply() works towards.                                         *)
Target == when[mouse]

(* An apply() that will read the state later / that read it and is not done *)
(* with the system setting.                                                 *)
Pending(w) == pc[w] \in {"reset", "snap"}
Writing(w) == pc[w] \in {"get", "live", "pref"}

Quiet == \A w \in Worker : ~Pending(w) /\ ~Writing(w)

(* Whatever is about to be written is what should be.                       *)
Agreed == \A w \in Worker : Writing(w) => tgt[w] = Target

-----------------------------------------------------------------------------
(* New has repaired identical targets by copying the preference; Run has    *)
(* started the monitor and is about to apply().  The direction in force     *)
(* need not be the stored one: `defaults write` changes only the latter.    *)
Init ==
  /\ paused = FALSE
  /\ mouse = "disconnected"
  /\ live \in Direction
  /\ pref \in Direction
  /\ when \in [Device -> Direction]
  /\ when["connected"] = when["disconnected"] => when["disconnected"] = pref
  /\ applied = Unknown
  /\ polled = "disconnected"
  /\ pc = [w \in Worker |-> IF w = Main THEN "snap"
                            ELSE IF w = Mon THEN "start" ELSE "idle"]
  /\ tgt = [w \in Worker |-> Unknown]
  /\ lastSnap = Unknown
  /\ calm = FALSE

-----------------------------------------------------------------------------
(* The monitor goroutine.                                                   *)

(* The first poll is reported whatever it says; a failed one counts as      *)
(* "disconnected".                                                          *)
InitialPoll ==
  /\ pc[Mon] = "start"
  /\ polled' \in Device
  /\ Goto(Mon, "changed")
  /\ UNCHANGED <<daemonVars, systemVars, tgt, historyVars>>

(* A later poll is reported when it differs from the cached state.  One     *)
(* that fails, or finds no change, leaves everything as it is.              *)
Poll ==
  /\ pc[Mon] = "idle"
  /\ polled' \in Device \ {polled}
  /\ Goto(Mon, "changed")
  /\ UNCHANGED <<daemonVars, systemVars, tgt, historyVars>>

(* Seeded fault: while paused the new state is dropped, not stored.         *)
OnMouseChangeDropsPaused ==
  /\ pc[Mon] = "changed"
  /\ mouse' = IF paused THEN mouse ELSE polled
  /\ Goto(Mon, IF mouse = polled \/ paused THEN "idle" ELSE "snap")
  /\ UNCHANGED <<paused, when, applied, polled, systemVars, tgt, historyVars>>

OnMouseChange ==
  /\ pc[Mon] = "changed"
  /\ mouse' = polled
  /\ Goto(Mon, IF mouse = polled \/ paused THEN "idle" ELSE "snap")
  /\ UNCHANGED <<paused, when, applied, polled, systemVars, tgt, historyVars>>

-----------------------------------------------------------------------------
(* Hotkeys and RPC handlers.  Status, GetDirection, unknown methods and     *)
(* malformed parameters change no state.                                    *)

(* Seeded fault: resuming waits for the next event to apply.                *)
TogglePauseNoApply(w) ==
  /\ pc[w] = "idle"
  /\ paused' = ~paused
  /\ UNCHANGED <<pc, mouse, when, applied, polled, systemVars, tgt, historyVars>>

TogglePause(w) ==
  /\ pc[w] = "idle"
  /\ paused' = ~paused
  /\ Goto(w, IF paused' THEN "idle" ELSE "snap")
  /\ UNCHANGED <<mouse, when, applied, polled, systemVars, tgt, historyVars>>

SetPaused(w, p) ==
  /\ pc[w] = "idle"
  /\ paused' = p
  /\ Goto(w, IF p THEN "idle" ELSE "snap")
  /\ UNCHANGED <<mouse, when, applied, polled, systemVars, tgt, historyVars>>

SwapTargets(w) ==
  /\ pc[w] = "idle"
  /\ when' = [d \in Device |-> when[CHOOSE e \in Device : e # d]]
  /\ Goto(w, "reset")
  /\ UNCHANGED <<paused, mouse, applied, polled, systemVars, tgt, historyVars>>

(* The second critical section of a swap.                                   *)
ResetApplied(w) ==
  /\ pc[w] = "reset"
  /\ applied' = Unknown
  /\ Goto(w, "snap")
  /\ UNCHANGED <<paused, mouse, when, polled, systemVars, tgt, historyVars>>

SetTarget(w, d, v) ==
  /\ pc[w] = "idle"
  /\ when' = [when EXCEPT ![d] = v]
  /\ applied' = Unknown
  /\ Goto(w, "snap")
  /\ UNCHANGED <<paused, mouse, polled, systemVars, tgt, historyVars>>

-----------------------------------------------------------------------------
(* apply(), from the snapshot of the state to the record of the result.     *)

(* Seeded fault: apply() may take the paused exit whatever d.paused says.   *)
SnapshotPausedAlways(w) ==
  /\ pc[w] = "snap"
  /\ Goto(w, "idle")
  /\ UNCHANGED <<daemonVars, polled, systemVars, tgt, historyVars>>

SnapshotPaused(w) ==
  /\ pc[w] = "snap"
  /\ paused
  /\ Goto(w, "idle")
  /\ UNCHANGED <<daemonVars, polled, systemVars, tgt, historyVars>>

(* Seeded fault: apply() ignores the pause.                                 *)
SnapshotIgnoresPause(w) ==
  /\ pc[w] = "snap"
  /\ tgt' = [tgt EXCEPT ![w] = Target]
  /\ Goto(w, IF applied = Target THEN "get" ELSE "live")
  /\ lastSnap' = Target
  /\ calm' = Agreed
  /\ UNCHANGED <<daemonVars, polled, systemVars>>

(* Seeded fault: apply() asks the monitor, not d.mouseConnected.            *)
SnapshotAsksMonitor(w) ==
  /\ pc[w] = "snap"
  /\ ~paused
  /\ tgt' = [tgt EXCEPT ![w] = when[polled]]
  /\ Goto(w, IF applied = when[polled] THEN "get" ELSE "live")
  /\ lastSnap' = when[polled]
  /\ calm' = Agreed
  /\ UNCHANGED <<daemonVars, polled, systemVars>>

(* Seeded fault: apply() does not keep its target.                          *)
SnapshotWithoutTarget(w) ==
  /\ pc[w] = "snap"
  /\ ~paused
  /\ Goto(w, IF applied = Target THEN "get" ELSE "live")
  /\ UNCHANGED <<daemonVars, polled, systemVars, tgt, historyVars>>

Snapshot(w) ==
  /\ pc[w] = "snap"
  /\ ~paused
  /\ tgt' = [tgt EXCEPT ![w] = Target]
  /\ Goto(w, IF applied = Target THEN "get" ELSE "live")
  /\ lastSnap' = Target
  /\ calm' = Agreed
  /\ UNCHANGED <<daemonVars, polled, systemVars>>

(* apply() returns: its local target is gone.                               *)
Return(w) ==
  /\ Goto(w, "idle")
  /\ tgt' = [tgt EXCEPT ![w] = Unknown]

(* Seeded fault: the skip trusts the record and does not look.              *)
VerifySkipsBlindly(w) ==
  /\ pc[w] = "get"
  /\ Return(w)
  /\ UNCHANGED <<daemonVars, polled, systemVars, historyVars>>

(* The Get before a skip: the preference still holds the target, or the     *)
(* write goes ahead.                                                        *)
VerifySkips(w) ==
  /\ pc[w] = "get"
  /\ pref = tgt[w]
  /\ Return(w)
  /\ UNCHANGED <<daemonVars, polled, systemVars, historyVars>>

VerifyWrites(w) ==
  /\ pc[w] = "get"
  /\ pref # tgt[w]
  /\ Goto(w, "live")
  /\ UNCHANGED <<daemonVars, polled, systemVars, tgt, historyVars>>

(* writeNaturalScroll first changes the direction in force...               *)
SetLive(w) ==
  /\ pc[w] = "live"
  /\ live' = tgt[w]
  /\ Goto(w, "pref")
  /\ UNCHANGED <<daemonVars, polled, pref, tgt, historyVars>>

(* ... and then stores the preference.                                      *)
SetPref(w) ==
  /\ pc[w] = "pref"
  /\ pref' = tgt[w]
  /\ Goto(w, "rec")
  /\ UNCHANGED <<daemonVars, polled, live, tgt, historyVars>>

(* Seeded fault: a failed write is tried again at once, for ever.           *)
SetPrefRetries(w) ==
  /\ SetMayFail
  /\ pc[w] = "pref"
  /\ calm' = FALSE
  /\ Goto(w, "live")
  /\ UNCHANGED <<daemonVars, polled, systemVars, tgt, lastSnap>>

(* The synchronisation of the preference fails: readers may see either      *)
(* value, and apply() gives up without recording anything.                  *)
SetPrefFails(w) ==
  /\ SetMayFail
  /\ pc[w] = "pref"
  /\ pref' \in {pref, tgt[w]}
  /\ calm' = FALSE
  /\ Return(w)
  /\ UNCHANGED <<daemonVars, polled, live, lastSnap>>

Record(w) ==
  /\ pc[w] = "rec"
  /\ applied' = tgt[w]
  /\ Return(w)
  /\ UNCHANGED <<paused, mouse, when, polled, systemVars, historyVars>>

-----------------------------------------------------------------------------
(* Somebody else changes the preference, and the direction in force with it *)
(* (System Settings) or not (`defaults write`).                             *)
OutsideChange ==
  /\ OutsideChanges
  /\ pref' \in Direction \ {pref}
  /\ live' \in {live, pref'}
  /\ calm' = FALSE
  /\ UNCHANGED <<daemonVars, polled, pc, tgt, lastSnap>>

-----------------------------------------------------------------------------
(* What a goroutine does on its own once it has been given work.            *)
Apply(w) ==
  \/ SnapshotPaused(w)
  \/ Snapshot(w)
  \/ VerifySkips(w)
  \/ VerifyWrites(w)
  \/ SetLive(w)
  \/ SetPref(w)
  \/ SetPrefFails(w)
  \/ Record(w)

(* One RPC on connection w.                                                 *)
Request(w) ==
  \/ \E p \in BOOLEAN : SetPaused(w, p)
  \/ \E d \in Device, v \in Direction : SetTarget(w, d, v)
  \/ SwapTargets(w)

Next ==
  \/ InitialPoll
  \/ Poll
  \/ OnMouseChange
  \/ \E w \in PauseKeys : TogglePause(w)
  \/ \E w \in SwapKeys : SwapTargets(w)
  \/ \E w \in Conns : Request(w)
  \/ \E w \in SwapKeys \cup Conns : ResetApplied(w)
  \/ \E w \in Worker : Apply(w)
  \/ OutsideChange

Spec == Init /\ [][Next]_vars

(* A goroutine with work to do keeps running: critical sections are short,  *)
(* Get and Set are plain C calls, and every notification has a three-second *)
(* timeout.  Nobody is obliged to press keys, send requests or move mice.   *)
Fairness ==
  /\ WF_vars(OnMouseChange)
  /\ \A w \in Worker : WF_vars(ResetApplied(w)) /\ WF_vars(Apply(w))

FairSpec == Spec /\ Fairness

-----------------------------------------------------------------------------
(* Types: apply()'s local target exists exactly while apply() runs.         *)
TypeOK ==
  /\ paused \in BOOLEAN
  /\ mouse \in Device
  /\ when \in [Device -> Direction]
  /\ applied \in Direction \cup {Unknown}
  /\ polled \in Device
  /\ live \in Direction
  /\ pref \in Direction
  /\ pc \in [Worker -> Label]
  /\ tgt \in [Worker -> Direction \cup {Unknown}]
  /\ \A w \in Worker : (Writing(w) \/ pc[w] = "rec") <=> tgt[w] # Unknown
  /\ lastSnap \in Direction \cup {Unknown}
  /\ calm \in BOOLEAN

(* No change is forgotten.  While the daemon is not paused, whenever the    *)
(* target differs from what the latest apply() read, some goroutine still   *)
(* has an apply() to make: every handler that changes the mouse state, the  *)
(* targets or the pause, in any interleaving, is followed by an apply()     *)
(* that reads the state after the change.                                   *)
NoLostTrigger ==
  ~paused /\ lastSnap # Target => \E w \in Worker : Pending(w)

(* An apply() that met no write of another direction puts the stored        *)
(* preference right, whatever races, failed writes or changes from outside  *)
(* came before it: once all is quiet the preference is the target for the   *)
(* state the mouse is in.  Overlapping writes of one direction do no harm.  *)
(* It is the Get before the skip that makes this true.                      *)
AgreedApplyHeals ==
  calm /\ ~paused /\ Quiet => pref = Target

(* Connects and disconnects are tracked while paused too, so that a resume  *)
(* applies the target for where the mouse is now: once onMouseChange has    *)
(* run, the daemon and its monitor agree.                                   *)
ResumeSeesDevice ==
  pc[Mon] \notin {"start", "changed"} => mouse = polled

(* A pause lets no further apply() through to the system: while paused, the *)
(* set of goroutines on their way to a write only shrinks, and once it is   *)
(* empty the daemon does not touch the setting until it is resumed.         *)
PauseAdmitsNoWriter ==
  [][paused =>
       /\ \A w \in Worker : Writing(w)' => Writing(w)
       /\ (\E w \in Worker : Writing(w)) \/ UNCHANGED systemVars \/ OutsideChange]_vars

(* Whatever the daemon does to the setting, it was asked to: each write     *)
(* carries what was the target when its apply() began, and it began while   *)
(* not paused, although flags, targets and records are read and written by  *)
(* many goroutines.                                                         *)
Intended == INSTANCE Intent
  WITH Errands <- Worker, None <- Unknown, OthersWrite <- OutsideChanges,
       target <- Target, errand <- tgt

ImplementsIntent == Intended!Spec

(* Every change is acted on: when the target is not what the latest apply() *)
(* read, an apply() reads the current one, unless the user pauses.          *)
ChangesPickedUp ==
  (~paused /\ lastSnap # Target) ~> (paused \/ lastSnap = Target)

(* Left alone, the daemon comes to rest: if from some point on nobody       *)
(* presses a key, sends a request, moves the mouse or changes the setting,  *)
(* every goroutine finishes what it does, and then the preference is the    *)
(* target unless paused, or unless the last writes raced or failed.         *)
InputStep ==
  \/ InitialPoll
  \/ Poll
  \/ \E w \in PauseKeys : TogglePause(w)
  \/ \E w \in SwapKeys : SwapTargets(w)
  \/ \E w \in Conns : Request(w)
  \/ OutsideChange

Settles ==
  <>[][~InputStep]_vars => <>[](Quiet /\ (calm /\ ~paused => pref = Target))

-----------------------------------------------------------------------------
(* What the documentation says and the code does not guarantee.             *)

(* README, "Startup": the daemon applies the setting for the current mouse  *)
(* state.  Without a pause, a failure or a change from outside, a daemon at *)
(* rest would have the preference of its targets.                           *)
Converged ==
  ~paused /\ Quiet => pref = Target

(* README: "scroll direction is not changed until you resume".              *)
PausedMeansUntouched ==
  [][paused => UNCHANGED systemVars]_vars

(* scroller.go: the stored value reflects the direction in force.           *)
LiveMatchesPref ==
  Quiet => live = pref
=============================================================================

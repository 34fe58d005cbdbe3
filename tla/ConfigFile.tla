----------------------------- MODULE ConfigFile -----------------------------
(***************************************************************************)
(* The two targets of internal/config on disk: loaded and repaired when a  *)
(* daemon starts, saved without a lock by every handler that changes them, *)
(* and found again by the next daemon.                                     *)
(*                                                                         *)
(* Save reads the struct field by field while other handlers write it, and *)
(* os.WriteFile truncates the file in one system call and writes it in the *)
(* next.  The settings no handler changes are left out.                    *)
(***************************************************************************)
EXTENDS Naturals

CONSTANTS
  Boot,            \* the goroutine that runs daemon.New
  Handlers,        \* the goroutines that swap or set targets
  WritesMayFail,   \* may opening or writing the file fail?
  MayCrash         \* may the daemon die of anything but a Shutdown or a signal?

ASSUME BootIsNoHandler == Boot \notin Handlers

Saver     == {Boot} \cup Handlers
Direction == {"natural", "traditional"}
Device    == {"connected", "disconnected"}
Targets   == [Device -> Direction]

(* What the file can be.  "garbage" is a longer document of which a shorter *)
(* one has overwritten the beginning.                                       *)
Absent     == [kind |-> "absent"]
Empty      == [kind |-> "empty", len |-> 0]
Garbage(n) == [kind |-> "garbage", len |-> n]

(* `false` is one byte longer than `true`; the rest of the document has the *)
(* same length in every save of a daemon.                                   *)
Length(t) ==
  1 + (IF t["connected"] = "traditional" THEN 1 ELSE 0)
    + (IF t["disconnected"] = "traditional" THEN 1 ELSE 0)

Doc(t)   == [kind |-> "doc", len |-> Length(t), targets |-> t]
Content  == {Absent, Empty} \cup {Garbage(n) : n \in 2..3} \cup {Doc(t) : t \in Targets}

VARIABLES
  phase,   \* how far the daemon is
  mem,     \* d.cfg's targets; while down, those of the daemon before
  file,    \* config.json
  pc,      \* where each goroutine is in Save
  buf,     \* the document it is building or writing
  (* History, read by properties only. *)
  alone    \* the latest save to begin met no other, and nothing failed since

vars == <<phase, mem, file, pc, buf, alone>>

-----------------------------------------------------------------------------
(* "baseline" and "repairing": New saves; "repair": New looks at the targets. *)
Phase == {"down", "baseline", "repair", "repairing", "up"}
Label == {"idle", "connected", "disconnected", "open", "write"}

(* A save that is still to begin / that has begun.                          *)
Due(g)    == pc[g] = "connected"
Saving(g) == pc[g] \in {"disconnected", "open", "write"}
AtRest    == \A g \in Saver : pc[g] = "idle"

Goto(g, l) == pc' = [pc EXCEPT ![g] = l]

Identical(t) == t["connected"] = t["disconnected"]
Loadable(f)  == f.kind \in {"absent", "doc"}

Default == [d \in Device |-> IF d = "connected" THEN "traditional" ELSE "natural"]

Init ==
  /\ phase = "down"
  /\ mem = Default
  /\ file = Absent
  /\ pc = [g \in Saver |-> "idle"]
  /\ buf = [g \in Saver |-> Default]
  /\ alone = FALSE

-----------------------------------------------------------------------------
(* Starting.  `current` is what scroller.Get returns.                       *)

(* No file: the user's own setting becomes the disconnected target.         *)
FirstLaunch(current) ==
  /\ phase = "down"
  /\ file = Absent
  /\ mem' = [Default EXCEPT !["disconnected"] = current]
  /\ phase' = "baseline"
  /\ Goto(Boot, "connected")
  /\ UNCHANGED <<file, buf, alone>>

(* Seeded fault: what is on disk is ignored.                                *)
LoadIgnoresFile ==
  /\ phase = "down"
  /\ file.kind = "doc"
  /\ mem' = Default
  /\ phase' = "repair"
  /\ UNCHANGED <<file, pc, buf, alone>>

(* Seeded fault: a target that has no name in the document.                 *)
LoadHalf ==
  /\ phase = "down"
  /\ file.kind = "doc"
  /\ mem' = [Default EXCEPT !["connected"] = file.targets["connected"]]
  /\ phase' = "repair"
  /\ UNCHANGED <<file, pc, buf, alone>>

(* A file that does not parse ends the process with exit code 1: there is   *)
(* no action for it.                                                        *)
Load ==
  /\ phase = "down"
  /\ file.kind = "doc"
  /\ mem' = file.targets
  /\ phase' = "repair"
  /\ UNCHANGED <<file, pc, buf, alone>>

(* Identical targets are pulled apart, if the setting in force allows.      *)
Repair(current) ==
  /\ phase = "repair"
  /\ pc[Boot] = "idle"
  /\ Identical(mem)
  /\ mem' = [mem EXCEPT !["disconnected"] = current]
  /\ phase' = "repairing"
  /\ Goto(Boot, "connected")
  /\ UNCHANGED <<file, buf, alone>>

NothingToRepair ==
  /\ phase = "repair"
  /\ ~Identical(mem)
  /\ phase' = "up"
  /\ UNCHANGED <<mem, file, pc, buf, alone>>

-----------------------------------------------------------------------------
(* Handlers: the change under d.mu, then Save without it.                   *)
Swap(g) ==
  /\ phase = "up"
  /\ pc[g] = "idle"
  /\ mem' = [d \in Device |-> mem[CHOOSE e \in Device : e # d]]
  /\ Goto(g, "connected")
  /\ UNCHANGED <<phase, file, buf, alone>>

SetTarget(g, d, v) ==
  /\ phase = "up"
  /\ pc[g] = "idle"
  /\ mem' = [mem EXCEPT ![d] = v]
  /\ Goto(g, "connected")
  /\ UNCHANGED <<phase, file, buf, alone>>

-----------------------------------------------------------------------------
(* Save.                                                                    *)

(* json.MarshalIndent reads the two fields in the order of the struct.      *)
ReadConnected(g) ==
  /\ pc[g] = "connected"
  /\ buf' = [buf EXCEPT ![g]["connected"] = mem["connected"]]
  /\ Goto(g, "disconnected")
  /\ alone' = \A h \in Saver : ~Saving(h)
  /\ UNCHANGED <<phase, mem, file>>

(* Seeded fault: the file is written without being created.                 *)
ReadDisconnectedSkipsOpen(g) ==
  /\ pc[g] = "disconnected"
  /\ buf' = [buf EXCEPT ![g]["disconnected"] = mem["disconnected"]]
  /\ Goto(g, "write")
  /\ UNCHANGED <<phase, mem, file, alone>>

ReadDisconnected(g) ==
  /\ pc[g] = "disconnected"
  /\ buf' = [buf EXCEPT ![g]["disconnected"] = mem["disconnected"]]
  /\ Goto(g, "open")
  /\ UNCHANGED <<phase, mem, file, alone>>

(* Seeded fault: the file is opened without O_TRUNC.                        *)
OpenKeepsContent(g) ==
  /\ pc[g] = "open"
  /\ file' = IF file = Absent THEN Empty ELSE file
  /\ Goto(g, "write")
  /\ UNCHANGED <<phase, mem, buf, alone>>

Open(g) ==
  /\ pc[g] = "open"
  /\ file' = Empty
  /\ Goto(g, "write")
  /\ UNCHANGED <<phase, mem, buf, alone>>

(* New goes on to the repair after its first save, and to Run after that.   *)
Saved(g) ==
  /\ Goto(g, "idle")
  /\ phase' = CASE g = Boot /\ phase = "baseline"  -> "repair"
                [] g = Boot /\ phase = "repairing" -> "up"
                [] OTHER -> phase

(* The document replaces as many bytes as it has; the file may by then hold *)
(* a longer one, if another save opened it before this one did.             *)
Write(g) ==
  /\ pc[g] = "write"
  /\ file' = IF file.len > Length(buf[g]) THEN Garbage(file.len) ELSE Doc(buf[g])
  /\ Saved(g)
  /\ UNCHANGED <<mem, buf, alone>>

(* Opening or writing fails.  New gives up; a handler logs the error.       *)
SaveFails(g) ==
  /\ WritesMayFail
  /\ pc[g] \in {"open", "write"}
  /\ Goto(g, "idle")
  /\ phase' = IF g = Boot THEN "down" ELSE phase
  /\ alone' = FALSE
  /\ UNCHANGED <<mem, file, buf>>

-----------------------------------------------------------------------------
(* The process ends, whatever its goroutines are doing: main waits for the  *)
(* monitor's goroutine and for no other.                                    *)
Ends ==
  /\ phase' = "down"
  /\ pc' = [g \in Saver |-> "idle"]
  /\ alone' = (alone /\ AtRest)
  /\ UNCHANGED <<mem, file, buf>>

(* Run has its signal handler and its Shutdown channel once New is done.    *)
Shutdown == phase = "up" /\ Ends

Crash == MayCrash /\ phase # "down" /\ Ends

-----------------------------------------------------------------------------
Save(g) ==
  \/ ReadConnected(g)
  \/ ReadDisconnected(g)
  \/ Open(g)
  \/ Write(g)
  \/ SaveFails(g)

Next ==
  \/ \E current \in Direction : FirstLaunch(current) \/ Repair(current)
  \/ Load
  \/ NothingToRepair
  \/ \E g \in Handlers : Swap(g)
  \/ \E g \in Handlers, d \in Device, v \in Direction : SetTarget(g, d, v)
  \/ \E g \in Saver : Save(g)
  \/ Shutdown
  \/ Crash

Spec == Init /\ [][Next]_vars

-----------------------------------------------------------------------------
(* Types: only New saves before the daemon is up, only handlers after; no   *)
(* document is written into a file nobody has opened.                       *)
TypeOK ==
  /\ phase \in Phase
  /\ mem \in Targets
  /\ file \in Content
  /\ pc \in [Saver -> Label]
  /\ buf \in [Saver -> Targets]
  /\ alone \in BOOLEAN
  /\ pc[Boot] # "idle" <=> phase \in {"baseline", "repairing"}
  /\ \A g \in Handlers : pc[g] # "idle" => phase = "up"
  /\ \A g \in Saver : pc[g] = "write" => file # Absent

(* A save that met no other puts the file right, whatever torn, reordered   *)
(* or failed saves came before it: once no handler has a save to make, the  *)
(* next daemon will find the targets of this one.                           *)
SoloSaveHeals ==
  alone /\ AtRest => file = Doc(mem)

(* A command that loads the config to find the socket can fail only while a *)
(* save is under way, or after one that failed or met another: between      *)
(* saves the file is whole, also when the next change is already made.      *)
ClientsCanLoad ==
  alone /\ (\A g \in Saver : ~Saving(g)) => Loadable(file)

(* A daemon that stops at rest after such a save is succeeded by one that   *)
(* loads the same targets: settings survive restarts and crashes.           *)
RestartKeepsTargets ==
  [][phase = "down" /\ phase' # "down" /\ alone => mem' = mem]_vars

(* How the two targets become identical, which makes a daemon that applies  *)
(* them useless: they are set so one by one, the first launch finds that    *)
(* the user has the default of the other, or a daemon loads what saves that *)
(* met each other or failed have left.  Swaps that are saved alone, however *)
(* many, never do it, and neither does a restart after such a save.         *)
TwinsHaveCause ==
  [][Identical(mem') /\ ~Identical(mem) =>
       \/ \E g \in Handlers, d \in Device, v \in Direction : SetTarget(g, d, v)
       \/ phase = "down" /\ (file = Absent \/ ~alone)]_vars

-----------------------------------------------------------------------------
(* README: `stop` "shuts the daemon down but launchd restarts it".  So what *)
(* a daemon leaves behind should be a file the next one can load.           *)
RestartsAfterStop ==
  phase = "down" => Loadable(file)
=============================================================================

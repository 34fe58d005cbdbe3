----------------------------- MODULE Succession -----------------------------
(***************************************************************************)
(* InstanceLock and the config: what a daemon reads when it starts, before *)
(* it has the lock, and what handlers of other daemons save meanwhile,     *)
(* until their process is gone.                                            *)
(*                                                                         *)
(* A change and its save are one step here, which ConfigFile takes apart:  *)
(* whatever a save that fails, is cut short or meets another may leave on  *)
(* disk is left in that step.  A config that is not there says what        *)
(* Default says.                                                           *)
(***************************************************************************)
EXTENDS InstanceLock

CONSTANTS
  Managed,    \* the processes launchd keeps alive
  Settings,   \* what a config can say
  Torn        \* a config that cannot be loaded

ASSUME ManagedAreProcs == Managed \subseteq Procs
ASSUME NoneIsNoSetting == None \notin Settings
ASSUME TornIsNoSetting == Torn \notin Settings

VARIABLES
  disk,       \* config.json
  mem,        \* the config of each process, while there is one
  (* History, read by properties only. *)
  apart,      \* what may keep the config of a process from being what is on
              \* disk: the lock was given up between its load and its lock,
              \* or its own save has left something else; its next save that
              \* goes through ends it
  late        \* a process saved that had released the lock already

configVars == <<disk, mem, apart, late>>
allVars    == <<vars, configVars>>

-----------------------------------------------------------------------------
InitAll ==
  /\ Init
  /\ disk \in Settings
  /\ mem = [p \in Procs |-> None]
  /\ apart = [p \in Procs |-> FALSE]
  /\ late = FALSE

(* A lock is given up while others have loaded the config and not locked.   *)
(* What may keep a process apart is not recorded any longer than a property *)
(* reads it.                                                                *)
Overtake ==
  LET released == \E f \in Files : owner[f] # None /\ owner'[f] # owner[f]
  IN apart' = [q \in Procs |->
       /\ ~handover' /\ ~late
       /\ Running(q)' \/ pc'[q] \in {"open", "flock"}
       /\ apart[q] \/ (released /\ pc[q] \in {"open", "flock"})]

Forget == mem' = [q \in Procs |-> IF pc'[q] = "off" THEN None ELSE mem[q]]

(* Seeded fault: the process starts without a config.                       *)
LoadNothing(p) ==
  /\ disk # Torn
  /\ Start(p)
  /\ UNCHANGED configVars

(* runDaemon loads the config before anything else, and a process that      *)
(* cannot exits with code 1 and leaves everything as it is.                 *)
Load(p) ==
  /\ disk # Torn
  /\ Start(p)
  /\ mem' = [mem EXCEPT ![p] = disk]
  /\ UNCHANGED <<disk, apart, late>>

(* New, or a handler, sets the config and saves it, and a handler goes on   *)
(* whether the save succeeds or not.  It may do so until main returns.      *)
Change(p, s) ==
  /\ Running(p) \/ pc[p] \in {"remove", "exit"}
  /\ mem' = [mem EXCEPT ![p] = s]
  /\ disk' \in Settings \cup {Torn}
  /\ late' = (late \/ ~Running(p))
  /\ apart' = [q \in Procs |-> /\ ~handover /\ ~late'
                               /\ IF q = p THEN disk' # s ELSE apart[q]]
  /\ UNCHANGED vars

LockMoves ==
  /\ \/ \E p \in Procs : Proceed(p) \/ Serve(p) \/ Stop(p) \/ AcceptFails(p) \/ Crash(p)
     \/ LeaveAlone
  /\ Overtake
  /\ Forget
  /\ UNCHANGED <<disk, late>>

NextAll ==
  \/ \E p \in Procs : Load(p)
  \/ \E p \in Procs, s \in Settings : Change(p, s)
  \/ LockMoves

SpecAll == InitAll /\ [][NextAll]_allVars

(* A process that runs keeps running, and launchd starts again what it      *)
(* manages (KeepAlive).  Nobody is obliged to start a daemon by hand.       *)
Fairness ==
  /\ \A p \in Procs : WF_vars(Proceed(p)) /\ WF_vars(Serve(p))
  /\ \A p \in Managed : WF_vars(Load(p))

FairSpecAll == SpecAll /\ Fairness

-----------------------------------------------------------------------------
ConfigTypeOK ==
  /\ disk \in Settings \cup {Torn}
  /\ mem \in [Procs -> Settings \cup {None}]
  /\ apart \in [Procs -> BOOLEAN]
  /\ late \in BOOLEAN
  /\ \A p \in Procs : mem[p] = None <=> pc[p] = "off"

(* The lock protects the config although it is read without it: a daemon    *)
(* whose predecessor was gone before it loaded has in memory what is on     *)
(* disk, unless one of the known races happened or its own latest save did  *)
(* not go as it should, so that its next save takes nothing back that       *)
(* another daemon saved; and a save that goes through ends the difference.  *)
LoadedIsCurrent ==
  ~handover /\ ~late =>
    \A p \in Procs : Running(p) /\ ~apart[p] => mem[p] = disk

(* launchd keeps a daemon reachable: left alone, whatever was going on, and *)
(* unless one of the two races happens, some daemon ends up reachable; if   *)
(* the config that was left behind cannot be loaded it does not.            *)
KeptReachable ==
  <>left /\ []~handover /\ []~early /\ []<>(disk # Torn)
    => <>[](\E p \in Procs : Reachable(p))
=============================================================================

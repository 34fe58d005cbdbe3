---------------------------- MODULE LaunchAgent -----------------------------
(***************************************************************************)
(* The commands that manage the LaunchAgent: install, uninstall, stop and  *)
(* restart, each a sequence of calls to launchctl, to the file system and  *)
(* to the daemon, any of which may fail and before any of which the user   *)
(* may press Ctrl-C; and launchd, which has a record of its own of what it *)
(* read from the plist and keeps that alive.                               *)
(*                                                                         *)
(* launchctl finds the job to unload in the plist, refuses to load one it  *)
(* has, and its exit status tells whether it did what it was asked.        *)
(***************************************************************************)
EXTENDS Naturals

CONSTANTS
  Commands,   \* the command lines that may be under way at the same time
  Builds,     \* the executables a plist may name
  Absent,     \* no plist
  Torn,       \* a plist that was not written to the end
  None

ASSUME BuildsAreBuilds ==
  /\ {Absent, Torn, None} \cap Builds = {}
  /\ Absent # Torn /\ Absent # None /\ Torn # None

VARIABLES
  job,     \* the executable launchd has on record
  up,      \* the executable of the daemon it runs
  plist,   \* what is in ~/Library/LaunchAgents
  pc,      \* where each command is
  build,   \* the executable each install is run from
  want,    \* from some moment on nothing fails, and this build is installed
  tries,   \* how often it has been since
  (* History, read by properties only. *)
  alone,   \* no two commands have been under way since all were idle last
  blind,   \* an unload has failed since although there was a job
  told,    \* the latest stop came without the note that launchd will start
           \* the daemon again, and no install has written or loaded since
  unsure   \* ... because it could not look, although launchd had a job

agentVars   == <<job, up, plist>>
userVars    == <<pc, build, want, tries>>
toldVars    == <<told, unsure>>
historyVars == <<alone, blind, toldVars>>
vars == <<agentVars, userVars, historyVars>>

-----------------------------------------------------------------------------
(* Install goes through "unload", "write" and "load", uninstall through     *)
(* "stat", "unloadOnly" and "remove", stop through "shutdown", "status" and *)
(* "list", restart through "installed" and "kickstart" or "shutdownOnly".   *)
First == {"unload", "stat", "shutdown", "installed"}
Label == First \cup {"idle", "write", "load", "unloadOnly", "remove", "status",
                     "list", "kickstart", "shutdownOnly"}

Goto(c, l) == pc' = [pc EXCEPT ![c] = l]
AllIdle    == \A c \in Commands : pc[c] = "idle"

(* Anything may fail until somebody wants one build installed.              *)
Flaky == want = None

(* launchd keeps alive what the plist does not say.                         *)
Orphan == job # None /\ plist # job

Init ==
  /\ job = None
  /\ up = None
  /\ plist = Absent
  /\ pc = [c \in Commands |-> "idle"]
  /\ build \in [Commands -> Builds]
  /\ want = None
  /\ tries = 0
  /\ alone = TRUE
  /\ blind = FALSE
  /\ told = FALSE
  /\ unsure = FALSE

-----------------------------------------------------------------------------
(* A command begins.                                                        *)
Overlap(c) ==
  /\ alone' = \A d \in Commands \ {c} : pc[d] = "idle"
  /\ blind' = (blind /\ ~AllIdle)
  /\ UNCHANGED toldVars

Begin(c, l) ==
  /\ Flaky
  /\ pc[c] = "idle"
  /\ Goto(c, l)
  /\ Overlap(c)
  /\ IF l = "unload" THEN \E b \in Builds : build' = [build EXCEPT ![c] = b]
                     ELSE UNCHANGED build
  /\ UNCHANGED <<agentVars, want, tries>>

(* From here on one user repeats the same install, whatever was left.       *)
WantInstalled(b) ==
  /\ Flaky
  /\ AllIdle
  /\ want' = b
  /\ UNCHANGED <<agentVars, pc, build, tries, historyVars>>

Retry(c) ==
  /\ ~Flaky
  /\ tries < 2
  /\ AllIdle
  /\ Goto(c, "unload")
  /\ build' = [build EXCEPT ![c] = want]
  /\ tries' = tries + 1
  /\ Overlap(c)
  /\ UNCHANGED <<agentVars, want>>

(* Ctrl-C, or an error before the first change a step makes.                *)
Abort(c) ==
  /\ Flaky
  /\ pc[c] # "idle"
  /\ Goto(c, "idle")
  /\ UNCHANGED <<agentVars, build, want, tries, historyVars>>

-----------------------------------------------------------------------------
(* Install and Uninstall.                                                   *)
CanUnload == job # None /\ plist \in Builds
CanLoad   == job = None /\ plist \in Builds

Unloads     == job' = None /\ up' = None /\ UNCHANGED blind
UnloadFails == UNCHANGED <<job, up>> /\ blind' = (blind \/ job # None)

(* Seeded fault: Install takes a failed unload for a failure of its own.    *)
UnloadMustSucceed(c) ==
  /\ pc[c] \in {"unload", "unloadOnly"}
  /\ IF CanUnload
       THEN Unloads /\ Goto(c, IF pc[c] = "unload" THEN "write" ELSE "remove")
       ELSE UnloadFails /\ Goto(c, "idle")
  /\ UNCHANGED <<plist, build, want, tries, alone, toldVars>>

(* Seeded fault: Install does not unload what it replaces.                  *)
UnloadSkipped(c) ==
  /\ pc[c] \in {"unload", "unloadOnly"}
  /\ IF pc[c] = "unload"
       THEN UNCHANGED <<job, up, blind>>
       ELSE \/ CanUnload /\ Unloads
            \/ (Flaky \/ ~CanUnload) /\ UnloadFails
  /\ Goto(c, IF pc[c] = "unload" THEN "write" ELSE "remove")
  /\ UNCHANGED <<plist, build, want, tries, alone, toldVars>>

(* Both ignore the error.                                                   *)
Unload(c) ==
  /\ pc[c] \in {"unload", "unloadOnly"}
  /\ \/ CanUnload /\ Unloads
     \/ (Flaky \/ ~CanUnload) /\ UnloadFails
  /\ Goto(c, IF pc[c] = "unload" THEN "write" ELSE "remove")
  /\ UNCHANGED <<plist, build, want, tries, alone, toldVars>>

Outdated == told' = FALSE /\ unsure' = FALSE

Write(c) ==
  /\ pc[c] = "write"
  /\ plist' = build[c]
  /\ Goto(c, "load")
  /\ Outdated
  /\ UNCHANGED <<job, up, build, want, tries, alone, blind>>

(* The file is not written to the end.  (If it cannot even be opened, that  *)
(* is an Abort.)                                                            *)
WriteFails(c) ==
  /\ Flaky
  /\ pc[c] = "write"
  /\ plist' = Torn
  /\ Goto(c, "idle")
  /\ UNCHANGED <<job, up, build, want, tries, historyVars>>

Load(c) ==
  /\ pc[c] = "load"
  /\ \/ CanLoad /\ job' = plist /\ Outdated
     \/ (Flaky \/ ~CanLoad) /\ UNCHANGED <<job, toldVars>>
  /\ Goto(c, "idle")
  /\ UNCHANGED <<up, plist, build, want, tries, alone, blind>>

(* Uninstall looks whether there is a plist, and does nothing without.      *)
Stat(c) ==
  /\ pc[c] = "stat"
  /\ Goto(c, IF plist = Absent THEN "idle" ELSE "unloadOnly")
  /\ UNCHANGED <<agentVars, build, want, tries, historyVars>>

Remove(c) ==
  /\ pc[c] = "remove"
  /\ plist' = Absent
  /\ Goto(c, "idle")
  /\ UNCHANGED <<job, up, build, want, tries, historyVars>>

-----------------------------------------------------------------------------
(* stop: the Shutdown request, which fails if no daemon is there...         *)
Shutdown(c) ==
  /\ pc[c] = "shutdown"
  /\ up' = None
  /\ Goto(c, IF up = None THEN "idle" ELSE "status")
  /\ UNCHANGED <<job, plist, build, want, tries, historyVars>>

(* ... and Status, whose answer decides about the note.  A look that fails  *)
(* is one that sees nothing.                                                *)
NoNote     == told' = TRUE /\ unsure' = FALSE
LookFailed == Flaky /\ told' = TRUE /\ unsure' = (job # None)

(* No note without a plist, nor if it cannot be told whether there is one...*)
Status(c) ==
  /\ pc[c] = "status"
  /\ \/ plist = Absent /\ Goto(c, "idle") /\ NoNote
     \/ plist # Absent /\ Goto(c, "list") /\ UNCHANGED toldVars
     \/ Goto(c, "idle") /\ LookFailed
  /\ UNCHANGED <<agentVars, build, want, tries, alone, blind>>

(* Seeded fault: Loaded is whether the daemon runs, not whether launchd has *)
(* a job.                                                                   *)
ListProcess(c) ==
  /\ pc[c] = "list"
  /\ \/ up = None /\ NoNote
     \/ up # None /\ Outdated
     \/ LookFailed
  /\ Goto(c, "idle")
  /\ UNCHANGED <<agentVars, build, want, tries, alone, blind>>

(* ... nor without a job, nor if `launchctl list` fails for another reason. *)
List(c) ==
  /\ pc[c] = "list"
  /\ \/ job = None /\ NoNote
     \/ job # None /\ Outdated
     \/ LookFailed
  /\ Goto(c, "idle")
  /\ UNCHANGED <<agentVars, build, want, tries, alone, blind>>

(* restart: Status first, and a plain stop if there is no plist.  A daemon  *)
(* of launchd that answers then is an orphan's, and will be back.           *)
Installed(c) ==
  /\ pc[c] = "installed"
  /\ Goto(c, IF plist = Absent THEN "shutdownOnly" ELSE "kickstart")
  /\ UNCHANGED <<agentVars, build, want, tries, historyVars>>

ShutdownOnly(c) ==
  /\ pc[c] = "shutdownOnly"
  /\ up' = None
  /\ Goto(c, "idle")
  /\ UNCHANGED <<job, plist, build, want, tries, historyVars>>

(* Seeded fault: restart starts the executable it is run from.              *)
KickstartOwn(c) ==
  /\ pc[c] = "kickstart"
  /\ up' = build[c]
  /\ Goto(c, "idle")
  /\ UNCHANGED <<job, plist, build, want, tries, historyVars>>

Kickstart(c) ==
  /\ pc[c] = "kickstart"
  /\ \/ job # None /\ up' = job
     \/ UNCHANGED up
  /\ Goto(c, "idle")
  /\ UNCHANGED <<job, plist, build, want, tries, historyVars>>

-----------------------------------------------------------------------------
(* launchd.  RunAtLoad and KeepAlive: whatever ends is started again.       *)
Spawn ==
  /\ job # None
  /\ up = None
  /\ up' = job
  /\ UNCHANGED <<job, plist, userVars, historyVars>>

Dies ==
  /\ Flaky
  /\ up # None
  /\ up' = None
  /\ UNCHANGED <<job, plist, userVars, historyVars>>

(* The end of the session ends its commands; the next one loads the plist.  *)
Login ==
  /\ Flaky
  /\ job' = IF plist \in Builds THEN plist ELSE None
  /\ up' = None
  /\ pc' = [c \in Commands |-> "idle"]
  /\ Outdated
  /\ UNCHANGED <<plist, build, want, tries, alone, blind>>

-----------------------------------------------------------------------------
Install(c)   == Write(c) \/ WriteFails(c) \/ Load(c)
Uninstall(c) == Stat(c) \/ Remove(c)
Stop(c)      == Shutdown(c) \/ Status(c) \/ List(c)
Restart(c)   == Installed(c) \/ ShutdownOnly(c) \/ Kickstart(c)
Proceed(c)   == Unload(c) \/ Install(c) \/ Uninstall(c) \/ Stop(c) \/ Restart(c)

Next ==
  \/ \E c \in Commands, l \in First : Begin(c, l)
  \/ \E c \in Commands : Retry(c) \/ Abort(c) \/ Proceed(c)
  \/ \E b \in Builds : WantInstalled(b)
  \/ Spawn
  \/ Dies
  \/ Login

Spec == Init /\ [][Next]_vars

(* Commands run, launchd keeps its job alive, and who wants a build         *)
(* installed tries again.                                                   *)
Fairness ==
  /\ WF_vars(\E c \in Commands : Retry(c))
  /\ \A c \in Commands : WF_vars(Proceed(c))
  /\ WF_vars(Spawn)

FairSpec == Spec /\ Fairness

-----------------------------------------------------------------------------
(* Types: launchd runs what it has on record, and who repeats an install is *)
(* the only one.                                                            *)
TypeOK ==
  /\ job \in Builds \cup {None}
  /\ up \in {job, None}
  /\ plist \in Builds \cup {Absent, Torn}
  /\ pc \in [Commands -> Label]
  /\ build \in [Commands -> Builds]
  /\ want \in Builds \cup {None}
  /\ tries \in 0..2
  /\ alone \in BOOLEAN
  /\ blind \in BOOLEAN
  /\ told \in BOOLEAN
  /\ unsure \in BOOLEAN

(* launchd never ends up with a job that the plist does not describe, by    *)
(* failed writes, Ctrl-C or logins, unless an unload has failed or two      *)
(* commands overlapped.  An uninstall after which this holds is final.      *)
OrphansHaveCause ==
  [][Orphan' => Orphan \/ blind \/ ~alone]_vars

(* Who stopped the daemon, without a note that launchd will start it again, *)
(* does not see it again before an install or a login, whatever other       *)
(* commands did before and do after; except that there is no note either if *)
(* the plist is gone and launchd still has an orphan of it, or if the look  *)
(* at the two failed.                                                       *)
StoppedForGood ==
  told => up = None \/ Orphan \/ unsure

(* Installing twice in a row works, whatever failed, torn, orphaned or      *)
(* half-removed installation came before; once does not always.             *)
SecondInstallWorks ==
  tries = 2 /\ AllIdle => job = want /\ plist = want

(* ... and then the daemon that runs is the one installed.                  *)
InstallRecovers ==
  want # None ~> [](want # None /\ up = want)
=============================================================================

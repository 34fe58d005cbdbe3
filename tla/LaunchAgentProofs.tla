------------------------- MODULE LaunchAgentProofs --------------------------
(* Theorems about LaunchAgent, for any set of commands and builds.          *)
EXTENDS LaunchAgent, TLAPS

(* Every step preserves the types.                                          *)
LEMMA TypeStep == TypeOK /\ [Next]_vars => TypeOK'
<1> SUFFICES ASSUME TypeOK, [Next]_vars PROVE TypeOK'
  OBVIOUS
<1> USE DEF TypeOK, Label, First, Goto, Flaky, agentVars, userVars, toldVars, historyVars
<1>1. ASSUME NEW c \in Commands, NEW l \in First, Begin(c, l) PROVE TypeOK'
  <2>1. alone' \in BOOLEAN /\ blind' \in BOOLEAN
    BY <1>1 DEF Begin, Overlap
  <2>2. build' \in [Commands -> Builds]
    BY <1>1 DEF Begin
  <2> QED
    BY <1>1, <2>1, <2>2 DEF Begin, Overlap
<1>2. ASSUME NEW c \in Commands, Retry(c) PROVE TypeOK'
  <2>1. alone' \in BOOLEAN /\ blind' \in BOOLEAN
    BY <1>2 DEF Retry, Overlap
  <2>2. build' \in [Commands -> Builds] /\ tries' \in 0..2
    BY <1>2 DEF Retry
  <2> QED
    BY <1>2, <2>1, <2>2 DEF Retry, Overlap
<1>3. ASSUME NEW c \in Commands, Abort(c) PROVE TypeOK'
  BY <1>3 DEF Abort
<1>4. ASSUME NEW c \in Commands, Unload(c) PROVE TypeOK'
  <2>1. blind' \in BOOLEAN
    BY <1>4 DEF Unload, Unloads, UnloadFails
  <2> QED
    BY <1>4, <2>1 DEF Unload, Unloads, UnloadFails, CanUnload
<1>5. ASSUME NEW c \in Commands, Install(c) PROVE TypeOK'
  <2>1. told' \in BOOLEAN /\ unsure' \in BOOLEAN
    BY <1>5 DEF Install, Write, WriteFails, Load, Outdated
  <2> QED
    BY <1>5, <2>1 DEF Install, Write, WriteFails, Load, CanLoad
<1>6. ASSUME NEW c \in Commands, Uninstall(c) PROVE TypeOK'
  BY <1>6 DEF Uninstall, Stat, Remove
<1>7. ASSUME NEW c \in Commands, Stop(c) PROVE TypeOK'
  <2>1. told' \in BOOLEAN /\ unsure' \in BOOLEAN
    BY <1>7 DEF Stop, Shutdown, Status, List, NoNote, LookFailed, Outdated
  <2> QED
    BY <1>7, <2>1 DEF Stop, Shutdown, Status, List
<1>8. ASSUME NEW c \in Commands, Restart(c) PROVE TypeOK'
  BY <1>8 DEF Restart, Installed, ShutdownOnly, Kickstart
<1>9. ASSUME NEW b \in Builds, WantInstalled(b) PROVE TypeOK'
  BY <1>9 DEF WantInstalled
<1>10. CASE Spawn \/ Dies
  BY <1>10 DEF Spawn, Dies
<1>11. CASE Login
  <2>1. told' \in BOOLEAN /\ unsure' \in BOOLEAN
    BY <1>11 DEF Login, Outdated
  <2> QED
    BY <1>11, <2>1 DEF Login
<1>12. CASE UNCHANGED vars
  BY <1>12 DEF vars
<1> QED
  BY <1>1, <1>2, <1>3, <1>4, <1>5, <1>6, <1>7, <1>8, <1>9, <1>10, <1>11, <1>12
     DEF Next, Proceed

(* Type correctness: in particular launchd runs only what it has on record. *)
THEOREM TypeCorrect == Spec => []TypeOK
<1>1. ASSUME Init PROVE TypeOK
  <2>1. alone \in BOOLEAN /\ blind \in BOOLEAN /\ told \in BOOLEAN /\ unsure \in BOOLEAN
    BY <1>1 DEF Init
  <2> QED
    BY <1>1, <2>1 DEF Init, TypeOK, Label, First
<1> QED
  BY <1>1, TypeStep, PTL DEF Spec

-----------------------------------------------------------------------------
(* Who was told nothing of launchd by a look that went through has been     *)
(* told so while launchd had no job, which only an install or a login gives *)
(* it, or one that the plist does not describe, which only an install, an   *)
(* unload or a login changes.                                               *)
StoppedInv == told => job = None \/ Orphan \/ unsure

(* Every step preserves StoppedInv.                                         *)
LEMMA StoppedStep == TypeOK /\ StoppedInv /\ [Next]_vars => StoppedInv'
<1> SUFFICES ASSUME TypeOK, StoppedInv, [Next]_vars PROVE StoppedInv'
  OBVIOUS
<1> USE BuildsAreBuilds
    DEF TypeOK, StoppedInv, Orphan, agentVars, userVars, toldVars, historyVars
<1>1. ASSUME NEW c \in Commands, NEW l \in First, Begin(c, l) PROVE StoppedInv'
  BY <1>1 DEF Begin, Overlap
<1>2. ASSUME NEW c \in Commands, Retry(c) \/ Abort(c) PROVE StoppedInv'
  BY <1>2 DEF Retry, Overlap, Abort
<1>3. ASSUME NEW c \in Commands, Unload(c) \/ Uninstall(c) PROVE StoppedInv'
  BY <1>3 DEF Unload, Unloads, UnloadFails, Uninstall, Stat, Remove
<1>8. ASSUME NEW c \in Commands, Install(c) PROVE StoppedInv'
  BY <1>8 DEF Install, Write, WriteFails, Load, Outdated
<1>4. ASSUME NEW c \in Commands, Stop(c) PROVE StoppedInv'
  <2>1. CASE Shutdown(c)
    BY <2>1 DEF Shutdown
  <2>2. CASE Status(c)
    BY <2>2 DEF Status, NoNote, LookFailed
  <2>3. CASE List(c)
    BY <2>3 DEF List, NoNote, LookFailed, Outdated
  <2> QED
    BY <1>4, <2>1, <2>2, <2>3 DEF Stop
<1>5. ASSUME NEW c \in Commands, Restart(c) PROVE StoppedInv'
  BY <1>5 DEF Restart, Installed, ShutdownOnly, Kickstart
<1>6. ASSUME NEW b \in Builds, WantInstalled(b) PROVE StoppedInv'
  BY <1>6 DEF WantInstalled
<1>7. CASE Spawn \/ Dies \/ Login \/ UNCHANGED vars
  BY <1>7 DEF Spawn, Dies, Login, Outdated, vars
<1> QED
  BY <1>1, <1>2, <1>3, <1>4, <1>5, <1>6, <1>7, <1>8 DEF Next, Proceed

(* A stop without the note is for good, but for orphans and failed looks.  *)
THEOREM StoppedForGoodHolds == Spec => []StoppedForGood
<1>1. Init => StoppedInv
  BY DEF Init, StoppedInv
<1>2. TypeOK /\ StoppedInv => StoppedForGood
  BY DEF TypeOK, StoppedInv, StoppedForGood
<1> QED
  BY <1>1, <1>2, StoppedStep, TypeCorrect, PTL DEF Spec

-----------------------------------------------------------------------------
(* Why orphans have a cause: a command that is alone and whose unload did   *)
(* what it could changes the plist only while launchd has no job.           *)
AloneInv ==
  alone =>
    /\ \A c, d \in Commands : pc[c] # "idle" /\ pc[d] # "idle" => c = d
    /\ ~blind => \A c \in Commands : pc[c] \in {"write", "remove"} => job = None

(* Every step preserves AloneInv.                                           *)
LEMMA AloneStep == TypeOK /\ AloneInv /\ [Next]_vars => AloneInv'
<1> SUFFICES ASSUME TypeOK, AloneInv, [Next]_vars PROVE AloneInv'
  OBVIOUS
<1> USE DEF TypeOK, AloneInv, Goto, agentVars, userVars, historyVars
<1>1. ASSUME NEW c \in Commands, NEW l \in First, Begin(c, l) PROVE AloneInv'
  <2>1. l \notin {"write", "remove"}
    BY DEF First
  <2> QED
    BY <1>1, <2>1 DEF Begin, Overlap
<1>2. ASSUME NEW c \in Commands, Retry(c) PROVE AloneInv'
  BY <1>2 DEF Retry, Overlap
<1>3. ASSUME NEW c \in Commands, Abort(c) PROVE AloneInv'
  BY <1>3 DEF Abort
<1>4. ASSUME NEW c \in Commands, Unload(c) PROVE AloneInv'
  BY <1>4 DEF Unload, Unloads, UnloadFails
<1>5. ASSUME NEW c \in Commands, Install(c) PROVE AloneInv'
  BY <1>5 DEF Install, Write, WriteFails, Load
<1>6. ASSUME NEW c \in Commands, Uninstall(c) PROVE AloneInv'
  BY <1>6 DEF Uninstall, Stat, Remove
<1>7. ASSUME NEW c \in Commands, Stop(c) PROVE AloneInv'
  BY <1>7 DEF Stop, Shutdown, Status, List
<1>8. ASSUME NEW c \in Commands, Restart(c) PROVE AloneInv'
  BY <1>8 DEF Restart, Installed, ShutdownOnly, Kickstart
<1>9. ASSUME NEW b \in Builds, WantInstalled(b) PROVE AloneInv'
  BY <1>9 DEF WantInstalled
<1>10. CASE Spawn \/ Dies \/ Login \/ UNCHANGED vars
  BY <1>10 DEF Spawn, Dies, Login, vars
<1> QED
  BY <1>1, <1>2, <1>3, <1>4, <1>5, <1>6, <1>7, <1>8, <1>9, <1>10 DEF Next, Proceed

(* Only a failed unload or an overlap makes an orphan.                      *)
LEMMA OrphanStep ==
  ASSUME TypeOK, AloneInv, [Next]_vars, Orphan'
  PROVE  Orphan \/ blind \/ ~alone
<1> SUFFICES ASSUME ~Orphan, ~blind, alone PROVE FALSE
  OBVIOUS
<1> USE BuildsAreBuilds DEF TypeOK, AloneInv, Orphan, agentVars, userVars, historyVars
<1>1. ASSUME NEW c \in Commands, NEW l \in First, Begin(c, l) PROVE FALSE
  BY <1>1 DEF Begin
<1>2. ASSUME NEW c \in Commands, Retry(c) \/ Abort(c) PROVE FALSE
  BY <1>2 DEF Retry, Abort
<1>3. ASSUME NEW c \in Commands, Unload(c) PROVE FALSE
  BY <1>3 DEF Unload, Unloads, UnloadFails
<1>4. ASSUME NEW c \in Commands, Write(c) \/ WriteFails(c) \/ Remove(c) PROVE FALSE
  <2>1. job = None
    BY <1>4 DEF Write, WriteFails, Remove
  <2> QED
    BY <1>4, <2>1 DEF Write, WriteFails, Remove
<1>5. ASSUME NEW c \in Commands, Load(c) \/ Stat(c) PROVE FALSE
  <2>1. plist' = plist /\ (job' = plist \/ job' = job)
    BY <1>5 DEF Load, Stat
  <2> QED
    BY <2>1
<1>6. ASSUME NEW c \in Commands, Stop(c) \/ Restart(c) PROVE FALSE
  BY <1>6 DEF Stop, Shutdown, Status, List, Restart, Installed, ShutdownOnly, Kickstart
<1>7. ASSUME NEW b \in Builds, WantInstalled(b) PROVE FALSE
  BY <1>7 DEF WantInstalled
<1>8. CASE Spawn \/ Dies
  BY <1>8 DEF Spawn, Dies
<1>9. CASE Login
  BY <1>9 DEF Login
<1>10. CASE UNCHANGED vars
  BY <1>10 DEF vars
<1> QED
  BY <1>1, <1>2, <1>3, <1>4, <1>5, <1>6, <1>7, <1>8, <1>9, <1>10
     DEF Next, Proceed, Install, Uninstall

(* launchd keeps alive what the plist says, unless an unload has failed or  *)
(* two commands overlapped.                                                 *)
THEOREM OrphansHaveCauseHolds == Spec => OrphansHaveCause
<1>1. Init => AloneInv
  BY DEF Init, AloneInv
<1>2. TypeOK /\ AloneInv /\ [Next]_vars => [Orphan' => Orphan \/ blind \/ ~alone]_vars
  BY OrphanStep
<1> QED
  BY <1>1, <1>2, AloneStep, TypeCorrect, PTL DEF Spec, OrphansHaveCause

-----------------------------------------------------------------------------
(* Why two installs are enough: the first leaves the plist of the build     *)
(* wanted, with which the second can unload whatever job there is, and      *)
(* without a job the load works.                                            *)
RetryInv ==
  /\ want = None => tries = 0
  /\ want # None =>
       /\ \A c, d \in Commands : pc[c] # "idle" /\ pc[d] # "idle" => c = d
       /\ tries = 0 => AllIdle
       /\ \A c \in Commands : pc[c] # "idle" =>
            pc[c] \in {"unload", "write", "load"} /\ build[c] = want
       /\ tries = 1 /\ (\A c \in Commands : pc[c] \in {"idle", "load"}) => plist = want
       /\ tries = 2 =>
            /\ plist = want
            /\ AllIdle => job = want
            /\ \A c \in Commands : pc[c] \in {"write", "load"} => job = None

(* Every step preserves RetryInv.                                           *)
LEMMA RetryStep == TypeOK /\ RetryInv /\ [Next]_vars => RetryInv'
<1> SUFFICES ASSUME TypeOK, RetryInv, [Next]_vars PROVE RetryInv'
  OBVIOUS
<1> USE BuildsAreBuilds
    DEF TypeOK, RetryInv, Flaky, AllIdle, Goto, agentVars, userVars, historyVars
<1>1. ASSUME NEW c \in Commands, NEW l \in First, Begin(c, l) PROVE RetryInv'
  BY <1>1 DEF Begin
<1>2. ASSUME NEW c \in Commands, Retry(c) PROVE RetryInv'
  BY <1>2 DEF Retry
<1>3. ASSUME NEW c \in Commands, Abort(c) PROVE RetryInv'
  BY <1>3 DEF Abort
<1>4. ASSUME NEW c \in Commands, Unload(c) PROVE RetryInv'
  BY <1>4 DEF Unload, Unloads, UnloadFails, CanUnload
<1>5. ASSUME NEW c \in Commands, Install(c) PROVE RetryInv'
  <2>1. CASE Write(c)
    BY <1>5, <2>1 DEF Write
  <2>2. CASE WriteFails(c)
    BY <1>5, <2>2 DEF WriteFails
  <2>3. CASE Load(c)
    BY <1>5, <2>3 DEF Load, CanLoad
  <2> QED
    BY <1>5, <2>1, <2>2, <2>3 DEF Install
<1>6. ASSUME NEW c \in Commands, Uninstall(c) PROVE RetryInv'
  BY <1>6 DEF Uninstall, Stat, Remove
<1>7. ASSUME NEW c \in Commands, Stop(c) PROVE RetryInv'
  BY <1>7 DEF Stop, Shutdown, Status, List
<1>8. ASSUME NEW c \in Commands, Restart(c) PROVE RetryInv'
  BY <1>8 DEF Restart, Installed, ShutdownOnly, Kickstart
<1>9. ASSUME NEW b \in Builds, WantInstalled(b) PROVE RetryInv'
  BY <1>9 DEF WantInstalled
<1>10. CASE Spawn \/ Dies \/ Login \/ UNCHANGED vars
  BY <1>10 DEF Spawn, Dies, Login, vars
<1> QED
  BY <1>1, <1>2, <1>3, <1>4, <1>5, <1>6, <1>7, <1>8, <1>9, <1>10 DEF Next, Proceed

(* Two installs in a row repair any installation.                           *)
THEOREM SecondInstallWorksHolds == Spec => []SecondInstallWorks
<1>1. Init => RetryInv
  BY DEF Init, RetryInv
<1>2. RetryInv => SecondInstallWorks
  BY DEF RetryInv, SecondInstallWorks
<1> QED
  BY <1>1, <1>2, RetryStep, TypeCorrect, PTL DEF Spec

(* What RetryInv leaves to a finished repair: nothing but launchd's spawn.  *)
LEMMA RepairedStep ==
  ASSUME TypeOK, RetryInv, Next, tries = 2, AllIdle
  PROVE  Spawn /\ up' = want
<1>1. want \in Builds /\ job = want
  BY DEF TypeOK, RetryInv
<1>2. \A c \in Commands : pc[c] = "idle"
  BY DEF AllIdle
<1>3. ~\E c \in Commands, l \in First : Begin(c, l)
  BY <1>1, BuildsAreBuilds DEF Begin, Flaky
<1>4. ~\E c \in Commands : Retry(c) \/ Abort(c)
  BY <1>1, BuildsAreBuilds DEF Retry, Abort, Flaky
<1>5. ~\E c \in Commands : Proceed(c)
  BY <1>2 DEF Proceed, Unload, Install, Write, WriteFails, Load, Uninstall, Stat,
              Remove, Stop, Shutdown, Status, List, Restart, Installed,
              ShutdownOnly, Kickstart
<1>6. ~(\E b \in Builds : WantInstalled(b)) /\ ~Dies /\ ~Login
  BY <1>1, BuildsAreBuilds DEF WantInstalled, Dies, Login, Flaky
<1>7. Spawn
  BY <1>3, <1>4, <1>5, <1>6 DEF Next
<1> QED
  BY <1>1, <1>7 DEF Spawn

(* Once two installs have put an agent right it stays right: the one thing  *)
(* that can still happen is that launchd starts the build that was wanted.  *)
(* This is InstallRecovers, short of its fairness.                          *)
THEOREM RepairedForGood ==
  Spec => [][tries = 2 /\ AllIdle => Spawn /\ up' = want]_vars
<1>1. Init => RetryInv
  BY DEF Init, RetryInv
<1>2. TypeOK /\ RetryInv /\ [Next]_vars
        => [tries = 2 /\ AllIdle => Spawn /\ up' = want]_vars
  BY RepairedStep
<1> QED
  BY <1>1, <1>2, RetryStep, TypeCorrect, PTL DEF Spec
=============================================================================

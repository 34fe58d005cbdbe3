---------------------------- MODULE DaemonProofs ----------------------------
(* Theorems about Daemon, for any set of hotkeys and connections.  Each     *)
(* invariant is a named lemma "every step preserves it"; NoLostTrigger and  *)
(* TypeOK are inductive as they stand, AgreedApplyHeals needs CalmInv.        *)
EXTENDS Daemon, TLAPS

(* Every goroutine the actions speak of is one of Worker.                   *)
LEMMA WorkerMembers ==
  /\ Main \in Worker
  /\ Mon \in Worker
  /\ \A w \in PauseKeys \cup SwapKeys \cup Conns : w \in Worker
BY DEF Worker

(* Every step preserves the types.                                          *)
LEMMA TypeStep == TypeOK /\ [Next]_vars => TypeOK'
<1> SUFFICES ASSUME TypeOK, [Next]_vars PROVE TypeOK'
  OBVIOUS
<1> USE DEF TypeOK, Device, Direction, Unknown, Label, Writing, Goto,
            daemonVars, systemVars, historyVars
<1>1. CASE InitialPoll
  BY <1>1, WorkerMembers DEF InitialPoll
<1>2. CASE Poll
  BY <1>2, WorkerMembers DEF Poll
<1>3. CASE OnMouseChange
  BY <1>3, WorkerMembers DEF OnMouseChange
<1>4. ASSUME NEW w \in Worker, TogglePause(w) PROVE TypeOK'
  BY <1>4 DEF TogglePause
<1>5. ASSUME NEW w \in Worker, NEW p \in BOOLEAN, SetPaused(w, p) PROVE TypeOK'
  BY <1>5 DEF SetPaused
<1>6. ASSUME NEW w \in Worker, SwapTargets(w) PROVE TypeOK'
  BY <1>6 DEF SwapTargets
<1>7. ASSUME NEW w \in Worker, ResetApplied(w) PROVE TypeOK'
  BY <1>7 DEF ResetApplied
<1>8. ASSUME NEW w \in Worker, NEW d \in Device, NEW v \in Direction, SetTarget(w, d, v)
      PROVE TypeOK'
  BY <1>8 DEF SetTarget
<1>9. ASSUME NEW w \in Worker, Apply(w) PROVE TypeOK'
  <2>1. CASE SnapshotPaused(w)
    BY <2>1 DEF SnapshotPaused
  <2>2. CASE Snapshot(w)
    <3>1. calm' \in BOOLEAN
      BY <2>2 DEF Snapshot, Agreed
    <3> QED
      BY <2>2, <3>1 DEF Snapshot, Target
  <2>3. CASE VerifySkips(w)
    BY <2>3 DEF VerifySkips, Return
  <2>4. CASE VerifyWrites(w)
    BY <2>4 DEF VerifyWrites
  <2>5. CASE SetLive(w)
    BY <2>5 DEF SetLive
  <2>6. CASE SetPref(w)
    BY <2>6 DEF SetPref
  <2>7. CASE SetPrefFails(w)
    BY <2>7 DEF SetPrefFails, Return
  <2>8. CASE Record(w)
    BY <2>8 DEF Record, Return
  <2> QED
    BY <1>9, <2>1, <2>2, <2>3, <2>4, <2>5, <2>6, <2>7, <2>8 DEF Apply
<1>10. CASE OutsideChange
  BY <1>10 DEF OutsideChange
<1>11. CASE UNCHANGED vars
  BY <1>11 DEF vars
<1> QED
  BY <1>1, <1>2, <1>3, <1>4, <1>5, <1>6, <1>7, <1>8, <1>9, <1>10, <1>11,
     WorkerMembers DEF Next, Request

(* Type correctness: Daemon never leaves its types, whatever the hotkeys    *)
(* and connections; in particular apply() has a target exactly while it     *)
(* needs one.                                                               *)
THEOREM TypeCorrect == Spec => []TypeOK
<1>1. Init => TypeOK
  BY WorkerMembers, MainIsNotMon
     DEF Init, TypeOK, Device, Direction, Unknown, Label, Writing
<1> QED
  BY <1>1, TypeStep, PTL DEF Spec

-----------------------------------------------------------------------------
(* The goroutine that still owes an apply() is not disturbed by a step of   *)
(* another one, and a handler that changes the target, or resumes, owes one *)
(* itself.  So no step loses a change.                                      *)
LEMMA NoLostTriggerStep == TypeOK /\ NoLostTrigger /\ [Next]_vars => NoLostTrigger'
<1> SUFFICES ASSUME TypeOK, NoLostTrigger, [Next]_vars PROVE NoLostTrigger'
  OBVIOUS
<1> USE DEF TypeOK, NoLostTrigger, Pending, Target, Goto,
            daemonVars, systemVars, historyVars
<1>1. CASE InitialPoll
  BY <1>1, WorkerMembers DEF InitialPoll
<1>2. CASE Poll
  BY <1>2, WorkerMembers DEF Poll
<1>3. CASE OnMouseChange
  BY <1>3, WorkerMembers DEF OnMouseChange
<1>4. ASSUME NEW w \in Worker, TogglePause(w) PROVE NoLostTrigger'
  BY <1>4 DEF TogglePause
<1>5. ASSUME NEW w \in Worker, NEW p \in BOOLEAN, SetPaused(w, p) PROVE NoLostTrigger'
  BY <1>5 DEF SetPaused
<1>6. ASSUME NEW w \in Worker, SwapTargets(w) PROVE NoLostTrigger'
  BY <1>6 DEF SwapTargets
<1>7. ASSUME NEW w \in Worker, ResetApplied(w) PROVE NoLostTrigger'
  BY <1>7 DEF ResetApplied
<1>8. ASSUME NEW w \in Worker, NEW d \in Device, NEW v \in Direction, SetTarget(w, d, v)
      PROVE NoLostTrigger'
  BY <1>8 DEF SetTarget
<1>9. ASSUME NEW w \in Worker, Apply(w) PROVE NoLostTrigger'
  <2>1. CASE SnapshotPaused(w)
    BY <2>1 DEF SnapshotPaused
  <2>2. CASE Snapshot(w)
    BY <2>2 DEF Snapshot
  <2>3. CASE VerifySkips(w)
    BY <2>3 DEF VerifySkips, Return
  <2>4. CASE VerifyWrites(w)
    BY <2>4 DEF VerifyWrites
  <2>5. CASE SetLive(w)
    BY <2>5 DEF SetLive
  <2>6. CASE SetPref(w)
    BY <2>6 DEF SetPref
  <2>7. CASE SetPrefFails(w)
    BY <2>7 DEF SetPrefFails, Return
  <2>8. CASE Record(w)
    BY <2>8 DEF Record, Return
  <2> QED
    BY <1>9, <2>1, <2>2, <2>3, <2>4, <2>5, <2>6, <2>7, <2>8 DEF Apply
<1>10. CASE OutsideChange
  BY <1>10 DEF OutsideChange
<1>11. CASE UNCHANGED vars
  BY <1>11 DEF vars
<1> QED
  BY <1>1, <1>2, <1>3, <1>4, <1>5, <1>6, <1>7, <1>8, <1>9, <1>10, <1>11,
     WorkerMembers DEF Next, Request

(* No change of the mouse, of a target or of the pause is ever forgotten.   *)
THEOREM NoLostTriggerHolds == Spec => []NoLostTrigger
<1>1. Init => NoLostTrigger
  BY WorkerMembers DEF Init, NoLostTrigger, Pending
<1> QED
  BY <1>1, TypeCorrect, NoLostTriggerStep, PTL DEF Spec

-----------------------------------------------------------------------------
(* What AgreedApplyHeals needs to be inductive.  Since a snapshot that met   *)
(* no write of another direction, and as long as nothing has spoiled it,    *)
(* all that is about to be written is the target of that snapshot, and the  *)
(* preference holds it once the writers are through.                        *)
CalmInv ==
  calm =>
    /\ \A w \in Worker : Writing(w) => tgt[w] = lastSnap
    /\ (\A w \in Worker : ~Writing(w)) => pref = lastSnap

(* Every step preserves CalmInv.                                            *)
LEMMA CalmStep == TypeOK /\ CalmInv /\ [Next]_vars => CalmInv'
<1> SUFFICES ASSUME TypeOK, CalmInv, [Next]_vars, calm' PROVE CalmInv'
  BY DEF CalmInv
<1> USE DEF TypeOK, CalmInv, Writing, Goto, daemonVars, systemVars, historyVars
<1>1. CASE InitialPoll
  BY <1>1, WorkerMembers DEF InitialPoll
<1>2. CASE Poll
  BY <1>2, WorkerMembers DEF Poll
<1>3. CASE OnMouseChange
  BY <1>3, WorkerMembers DEF OnMouseChange
<1>4. ASSUME NEW w \in Worker, TogglePause(w) PROVE CalmInv'
  BY <1>4 DEF TogglePause
<1>5. ASSUME NEW w \in Worker, NEW p \in BOOLEAN, SetPaused(w, p) PROVE CalmInv'
  BY <1>5 DEF SetPaused
<1>6. ASSUME NEW w \in Worker, SwapTargets(w) PROVE CalmInv'
  BY <1>6 DEF SwapTargets
<1>7. ASSUME NEW w \in Worker, ResetApplied(w) PROVE CalmInv'
  BY <1>7 DEF ResetApplied
<1>8. ASSUME NEW w \in Worker, NEW d \in Device, NEW v \in Direction, SetTarget(w, d, v)
      PROVE CalmInv'
  BY <1>8 DEF SetTarget
<1>9. ASSUME NEW w \in Worker, Apply(w) PROVE CalmInv'
  <2>1. CASE SnapshotPaused(w)
    BY <2>1 DEF SnapshotPaused
  <2>2. CASE Snapshot(w)
    <3>1. Writing(w)' /\ tgt'[w] = lastSnap'
      BY <2>2 DEF Snapshot
    <3>2. ASSUME NEW v \in Worker, v # w, Writing(v)' PROVE tgt'[v] = lastSnap'
      <4>1. Agreed /\ Writing(v)
        BY <2>2, <3>2 DEF Snapshot
      <4>2. tgt[v] = Target
        BY <4>1 DEF Agreed
      <4> QED
        BY <2>2, <3>2, <4>2 DEF Snapshot
    <3> QED
      BY <3>1, <3>2
  <2>3. CASE VerifySkips(w)
    BY <2>3 DEF VerifySkips, Return
  <2>4. CASE VerifyWrites(w)
    BY <2>4 DEF VerifyWrites
  <2>5. CASE SetLive(w)
    BY <2>5 DEF SetLive
  <2>6. CASE SetPref(w)
    BY <2>6 DEF SetPref
  <2>7. CASE SetPrefFails(w)
    BY <2>7 DEF SetPrefFails
  <2>8. CASE Record(w)
    BY <2>8 DEF Record, Return
  <2> QED
    BY <1>9, <2>1, <2>2, <2>3, <2>4, <2>5, <2>6, <2>7, <2>8 DEF Apply
<1>10. CASE OutsideChange
  BY <1>10 DEF OutsideChange
<1>11. CASE UNCHANGED vars
  BY <1>11 DEF vars
<1> QED
  BY <1>1, <1>2, <1>3, <1>4, <1>5, <1>6, <1>7, <1>8, <1>9, <1>10, <1>11,
     WorkerMembers DEF Next, Request

(* An apply() that met no write of another direction leaves the stored      *)
(* preference right, whatever races, failures or outside changes came       *)
(* before it.                                                               *)
THEOREM AgreedApplyHealsHolds == Spec => []AgreedApplyHeals
<1>1. Init => CalmInv
  BY DEF Init, CalmInv
<1>2. NoLostTrigger /\ CalmInv => AgreedApplyHeals
  BY DEF NoLostTrigger, CalmInv, AgreedApplyHeals, Quiet
<1> QED
  BY <1>1, <1>2, TypeCorrect, NoLostTriggerHolds, CalmStep, PTL DEF Spec

-----------------------------------------------------------------------------
(* Only a goroutine that was writing, or somebody else, changes the setting.*)
LEMMA OnlyWritersWrite ==
  ASSUME TypeOK, [Next]_vars, \A w \in Worker : ~Writing(w)
  PROVE  UNCHANGED systemVars \/ OutsideChange
<1>1. ASSUME NEW w \in Worker, Apply(w) PROVE UNCHANGED systemVars
  BY <1>1
     DEF Apply, SnapshotPaused, Snapshot, VerifySkips, VerifyWrites, SetLive,
         SetPref, SetPrefFails, Record, Writing
<1>2. ASSUME NEW w \in Worker, Request(w) PROVE UNCHANGED systemVars
  BY <1>2 DEF Request, SetPaused, SetTarget, SwapTargets
<1> QED
  BY <1>1, <1>2, WorkerMembers
     DEF Next, InitialPoll, Poll, OnMouseChange, TogglePause, SwapTargets,
         ResetApplied, vars, systemVars

(* While paused no goroutine starts to write: apply() re-reads the pause in *)
(* its own critical section.                                                *)
LEMMA NoNewWriter ==
  ASSUME TypeOK, [Next]_vars, paused, NEW v \in Worker, Writing(v)'
  PROVE  Writing(v)
<1> USE DEF TypeOK, Writing, Goto, daemonVars, systemVars, historyVars
<1>1. CASE InitialPoll \/ Poll \/ OnMouseChange
  BY <1>1, WorkerMembers DEF InitialPoll, Poll, OnMouseChange
<1>2. ASSUME NEW w \in Worker,
             TogglePause(w) \/ SwapTargets(w) \/ ResetApplied(w)
      PROVE Writing(v)
  BY <1>2 DEF TogglePause, SwapTargets, ResetApplied
<1>3. ASSUME NEW w \in Worker, Request(w) PROVE Writing(v)
  BY <1>3 DEF Request, SetPaused, SetTarget, SwapTargets
<1>4. ASSUME NEW w \in Worker, Apply(w) PROVE Writing(v)
  <2>1. CASE SnapshotPaused(w) \/ VerifySkips(w) \/ SetPrefFails(w) \/ Record(w)
    BY <2>1 DEF SnapshotPaused, VerifySkips, SetPrefFails, Record, Return
  <2>2. CASE Snapshot(w)
    BY <2>2 DEF Snapshot
  <2>3. CASE VerifyWrites(w) \/ SetLive(w) \/ SetPref(w)
    BY <2>3 DEF VerifyWrites, SetLive, SetPref
  <2> QED
    BY <1>4, <2>1, <2>2, <2>3 DEF Apply
<1>5. CASE OutsideChange \/ UNCHANGED vars
  BY <1>5 DEF OutsideChange, vars
<1> QED
  BY <1>1, <1>2, <1>3, <1>4, <1>5, WorkerMembers DEF Next

(* A pause holds, but for the writes that were under way when it came.      *)
THEOREM PauseAdmitsNoWriterHolds == Spec => PauseAdmitsNoWriter
<1>1. TypeOK /\ [Next]_vars
        => [paused =>
              /\ \A w \in Worker : Writing(w)' => Writing(w)
              /\ (\E w \in Worker : Writing(w)) \/ UNCHANGED systemVars
                   \/ OutsideChange]_vars
  BY NoNewWriter, OnlyWritersWrite
<1> QED
  BY <1>1, TypeCorrect, PTL DEF Spec, PauseAdmitsNoWriter

(* Once onMouseChange has run, the daemon knows what its monitor knows,     *)
(* paused or not.                                                           *)
THEOREM ResumeSeesDeviceHolds == Spec => []ResumeSeesDevice
<1>1. Init => ResumeSeesDevice
  BY DEF Init, ResumeSeesDevice
<1>2. TypeOK /\ ResumeSeesDevice /\ [Next]_vars => ResumeSeesDevice'
  <2> SUFFICES ASSUME TypeOK, ResumeSeesDevice, [Next]_vars PROVE ResumeSeesDevice'
    OBVIOUS
  <2> USE DEF TypeOK, ResumeSeesDevice, Goto, daemonVars, systemVars, historyVars
  <2>1. CASE InitialPoll \/ Poll \/ OnMouseChange
    BY <2>1, WorkerMembers DEF InitialPoll, Poll, OnMouseChange
  <2>2. ASSUME NEW w \in Worker,
               TogglePause(w) \/ SwapTargets(w) \/ ResetApplied(w)
        PROVE ResumeSeesDevice'
    BY <2>2, WorkerMembers DEF TogglePause, SwapTargets, ResetApplied
  <2>3. ASSUME NEW w \in Worker, Request(w) PROVE ResumeSeesDevice'
    BY <2>3, WorkerMembers DEF Request, SetPaused, SetTarget, SwapTargets
  <2>4. ASSUME NEW w \in Worker, Apply(w) PROVE ResumeSeesDevice'
    BY <2>4, WorkerMembers
       DEF Apply, SnapshotPaused, Snapshot, VerifySkips, VerifyWrites, SetLive,
           SetPref, SetPrefFails, Record, Return
  <2>5. CASE OutsideChange \/ UNCHANGED vars
    BY <2>5 DEF OutsideChange, vars
  <2> QED
    BY <2>1, <2>2, <2>3, <2>4, <2>5, WorkerMembers DEF Next
<1> QED
  BY <1>1, <1>2, TypeCorrect, PTL DEF Spec

-----------------------------------------------------------------------------
(* Why Settles is not spoiled by a cycle: how many steps a goroutine makes  *)
(* at most, from each of its places, before it is idle.                     *)
StepsLeft ==
  [l \in Label |-> CASE l = "idle" -> 0
                    [] l = "rec" -> 1
                    [] l = "pref" -> 2
                    [] l = "live" -> 3
                    [] l = "get" -> 4
                    [] l = "snap" -> 5
                    [] l \in {"reset", "changed"} -> 6
                    [] l = "start" -> 7]

(* The goroutine w, and no other, comes closer to being idle.               *)
Advances(w) ==
  /\ StepsLeft[pc'[w]] < StepsLeft[pc[w]]
  /\ \A v \in Worker \ {w} : pc'[v] = pc[v]

(* StepsLeft, place by place.                                               *)
LEMMA Distances ==
  /\ StepsLeft["idle"] = 0
  /\ StepsLeft["rec"] = 1
  /\ StepsLeft["pref"] = 2
  /\ StepsLeft["live"] = 3
  /\ StepsLeft["get"] = 4
  /\ StepsLeft["snap"] = 5
  /\ StepsLeft["reset"] = 6
  /\ StepsLeft["changed"] = 6
BY DEF StepsLeft, Label

(* A step of one goroutine to a place with fewer steps left.                *)
LEMMA GotoAdvances ==
  ASSUME pc \in [Worker -> Label], NEW w \in Worker, NEW l \in Label,
         Goto(w, l), StepsLeft[l] < StepsLeft[pc[w]]
  PROVE  Advances(w)
BY DEF Goto, Advances

(* Whoever goes on goes forward: a step that is no input brings one         *)
(* goroutine closer to being idle and moves no other, so that without       *)
(* inputs all work ends, whatever fails and however goroutines interleave.  *)
THEOREM WorkRunsOut == Spec => [][~InputStep => \E w \in Worker : Advances(w)]_vars
<1>1. ASSUME TypeOK, Next, ~InputStep PROVE \E w \in Worker : Advances(w)
  <2>a. pc \in [Worker -> Label]
    BY <1>1 DEF TypeOK
  <2> USE <2>a, Distances, GotoAdvances DEF Label
  <2>1. CASE OnMouseChange
    <3>1. Advances(Mon)
      BY <2>1, WorkerMembers DEF OnMouseChange
    <3> QED
      BY <3>1, WorkerMembers
  <2>2. ASSUME NEW w \in SwapKeys \cup Conns, ResetApplied(w) PROVE Advances(w)
    BY <2>2, WorkerMembers DEF ResetApplied
  <2>3. ASSUME NEW w \in Worker, Apply(w) PROVE Advances(w)
    <3>1. CASE SnapshotPaused(w) \/ VerifySkips(w) \/ SetPrefFails(w) \/ Record(w)
      BY <3>1 DEF SnapshotPaused, VerifySkips, SetPrefFails, Record, Return
    <3>2. CASE Snapshot(w)
      BY <3>2 DEF Snapshot
    <3>3. CASE VerifyWrites(w)
      BY <3>3 DEF VerifyWrites
    <3>4. CASE SetLive(w)
      BY <3>4 DEF SetLive
    <3>5. CASE SetPref(w)
      BY <3>5 DEF SetPref
    <3> QED
      BY <2>3, <3>1, <3>2, <3>3, <3>4, <3>5 DEF Apply
  <2> QED
    BY <1>1, <2>1, <2>2, <2>3, WorkerMembers DEF Next, InputStep
<1>2. TypeOK /\ [Next]_vars => [~InputStep => \E w \in Worker : Advances(w)]_vars
  BY <1>1
<1> QED
  BY <1>2, TypeCorrect, PTL DEF Spec

-----------------------------------------------------------------------------
(* Every step of Daemon is a step of Intent or leaves Intent's state alone. *)
(* What Intent must know of the goroutine that moves, that it has a target  *)
(* exactly while it writes, is in the types.                                *)
LEMMA IntendedStep == TypeOK /\ TypeOK' /\ [Next]_vars => [Intended!Next]_Intended!vars
<1> SUFFICES ASSUME TypeOK, TypeOK', [Next]_vars
             PROVE  Intended!Next \/ UNCHANGED Intended!vars
  OBVIOUS
<1>a. Target \in Direction /\ Target' \in Direction
  BY DEF TypeOK, Target
<1>1. ASSUME UNCHANGED <<tgt, systemVars>> PROVE Intended!Next
  <2>1. Intended!Change
    BY <1>1, <1>a DEF Intended!Change, Intended!setting, TypeOK, systemVars
  <2> QED
    BY <2>1 DEF Intended!Next
<1>2. ASSUME NEW w \in Worker, Snapshot(w) PROVE Intended!Next
  <2>1. tgt[w] = Unknown
    BY <1>2 DEF Snapshot, TypeOK, Writing
  <2>2. Intended!Take(w)
    BY <1>2, <2>1 DEF Snapshot, Intended!Take, Intended!setting, Target,
                      daemonVars, systemVars
  <2> QED
    BY <2>2 DEF Intended!Next
<1>3. ASSUME NEW w \in Worker,
             VerifySkips(w) \/ SetLive(w) \/ SetPref(w) \/ SetPrefFails(w) \/ Record(w)
      PROVE  Intended!Next
  <2>1. tgt[w] # Unknown
    BY <1>3 DEF VerifySkips, SetLive, SetPref, SetPrefFails, Record, TypeOK, Writing
  <2>2. Intended!Write(w)
    BY <1>3, <2>1 DEF VerifySkips, SetLive, SetPref, SetPrefFails, Record, Return,
                      Goto, Intended!Write, Target, daemonVars, systemVars
  <2> QED
    BY <2>2 DEF Intended!Next
<1>4. CASE OutsideChange
  <2>1. Intended!OtherWrite
    BY <1>4 DEF OutsideChange, Intended!OtherWrite, Target, TypeOK, daemonVars
  <2> QED
    BY <2>1 DEF Intended!Next
<1>5. ASSUME NEW w \in Worker, SnapshotPaused(w) \/ VerifyWrites(w)
      PROVE  UNCHANGED <<tgt, systemVars>>
  BY <1>5 DEF SnapshotPaused, VerifyWrites
<1>6. CASE InitialPoll \/ Poll \/ OnMouseChange
  BY <1>6, <1>1 DEF InitialPoll, Poll, OnMouseChange
<1>7. ASSUME NEW w \in Worker,
             TogglePause(w) \/ SwapTargets(w) \/ Request(w) \/ ResetApplied(w)
      PROVE  UNCHANGED <<tgt, systemVars>>
  BY <1>7 DEF TogglePause, SwapTargets, Request, SetPaused, SetTarget, ResetApplied
<1>8. CASE UNCHANGED vars
  BY <1>8, <1>1 DEF vars
<1> QED
  BY <1>1, <1>2, <1>3, <1>4, <1>5, <1>6, <1>7, <1>8, WorkerMembers DEF Next, Apply

(* Daemon implements Intent: whatever the goroutines and their interleaving,*)
(* the daemon writes only directions that were the target, at a moment when *)
(* it was not paused, for an apply() that has not ended.                    *)
THEOREM ImplementsIntentHolds == Spec => ImplementsIntent
<1>1. Init => Intended!Init
  BY DEF Init, Intended!Init, Target, Device
<1>2. TypeOK /\ [Next]_vars => TypeOK'
  BY TypeStep
<1> QED
  BY <1>1, <1>2, TypeCorrect, IntendedStep, PTL DEF Spec, ImplementsIntent, Intended!Spec
=============================================================================

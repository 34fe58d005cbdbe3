-------------------------- MODULE ConfigFileProofs --------------------------
(* Theorems about ConfigFile, for any set of handlers.                      *)
EXTENDS ConfigFile, TLAPS

(* A document has between one and three bytes more than the shortest text   *)
(* that is none.                                                            *)
LEMMA LengthRange == ASSUME NEW t \in Targets PROVE Length(t) \in 1..3
BY DEF Length

(* A file that parses is the document of the targets in it.                 *)
LEMMA DocShape ==
  ASSUME NEW f \in Content, f.kind = "doc"
  PROVE  f.targets \in Targets /\ f = Doc(f.targets)
BY DEF Content, Absent, Empty, Garbage, Doc

(* The longest remainder a shorter document can leave.                      *)
LEMMA ContentLength ==
  ASSUME NEW f \in Content, f # Absent, NEW t \in Targets, f.len > Length(t)
  PROVE  f.len \in 2..3
<1>1. CASE f = Empty
  BY <1>1, LengthRange DEF Empty
<1>2. ASSUME NEW n \in 2..3, f = Garbage(n) PROVE f.len \in 2..3
  BY <1>2 DEF Garbage
<1>3. ASSUME NEW u \in Targets, f = Doc(u) PROVE f.len \in 2..3
  <2>1. f.len = Length(u)
    BY <1>3 DEF Doc
  <2>2. Length(u) \in 1..3 /\ Length(t) \in 1..3
    BY LengthRange
  <2> QED
    BY <2>1, <2>2
<1> QED
  BY <1>1, <1>2, <1>3 DEF Content

(* Every change of the targets yields targets.                              *)
LEMMA SwapTargetsType ==
  ASSUME mem \in Targets
  PROVE  [d \in Device |-> mem[CHOOSE e \in Device : e # d]] \in Targets
BY DEF Targets, Device

-----------------------------------------------------------------------------
(* Every step preserves the types.                                          *)
LEMMA TypeStep == TypeOK /\ [Next]_vars => TypeOK'
<1> SUFFICES ASSUME TypeOK, [Next]_vars PROVE TypeOK'
  OBVIOUS
<1>a. Boot \in Saver /\ Handlers \subseteq Saver /\ Boot \notin Handlers
  BY BootIsNoHandler DEF Saver
<1>b. "connected" \in Device /\ "disconnected" \in Device /\ Default \in Targets
  BY DEF Device, Default, Targets, Direction
<1> USE <1>a DEF TypeOK, Phase, Label, Goto
<1>1. ASSUME NEW current \in Direction, FirstLaunch(current) PROVE TypeOK'
  <2>1. mem' \in Targets
    BY <1>1, <1>b DEF FirstLaunch, Targets
  <2> QED
    BY <1>1, <2>1 DEF FirstLaunch
<1>2. ASSUME NEW current \in Direction, Repair(current) PROVE TypeOK'
  <2>1. mem' \in Targets
    BY <1>2, <1>b DEF Repair, Targets
  <2> QED
    BY <1>2, <2>1 DEF Repair
<1>3. CASE Load
  BY <1>3, DocShape DEF Load
<1>4. CASE NothingToRepair
  BY <1>4 DEF NothingToRepair
<1>5. ASSUME NEW g \in Handlers, Swap(g) PROVE TypeOK'
  BY <1>5, SwapTargetsType DEF Swap
<1>6. ASSUME NEW g \in Handlers, NEW d \in Device, NEW v \in Direction, SetTarget(g, d, v)
      PROVE TypeOK'
  <2>1. mem' \in Targets
    BY <1>6 DEF SetTarget, Targets
  <2> QED
    BY <1>6, <2>1 DEF SetTarget
<1>7. ASSUME NEW g \in Saver, Save(g) PROVE TypeOK'
  <2>1. CASE ReadConnected(g)
    <3>1. buf' \in [Saver -> Targets]
      BY <2>1, <1>b DEF ReadConnected, Targets
    <3>2. alone' \in BOOLEAN
      BY <2>1 DEF ReadConnected
    <3> QED
      BY <2>1, <3>1, <3>2 DEF ReadConnected
  <2>2. CASE ReadDisconnected(g)
    <3>1. buf' \in [Saver -> Targets]
      BY <2>2, <1>b DEF ReadDisconnected, Targets
    <3> QED
      BY <2>2, <3>1 DEF ReadDisconnected
  <2>3. CASE Open(g)
    <3>1. file' \in Content /\ file' # Absent
      BY <2>3 DEF Open, Content, Absent, Empty
    <3> QED
      BY <2>3, <3>1 DEF Open
  <2>4. CASE Write(g)
    <3>1. file' \in Content /\ file' # Absent
      <4>1. file # Absent /\ buf[g] \in Targets
        BY <2>4 DEF Write
      <4>2. CASE file.len > Length(buf[g])
        <5>1. file.len \in 2..3
          BY <4>1, <4>2, ContentLength
        <5> QED
          BY <2>4, <4>2, <5>1 DEF Write, Content, Garbage, Absent
      <4>3. CASE ~(file.len > Length(buf[g]))
        BY <2>4, <4>1, <4>3 DEF Write, Content, Doc, Absent
      <4> QED
        BY <4>2, <4>3
    <3> QED
      BY <2>4, <3>1 DEF Write, Saved
  <2>5. CASE SaveFails(g)
    BY <2>5 DEF SaveFails
  <2> QED
    BY <1>7, <2>1, <2>2, <2>3, <2>4, <2>5 DEF Save
<1>8. CASE Shutdown \/ Crash
  <2>1. alone' \in BOOLEAN
    BY <1>8 DEF Shutdown, Crash, Ends
  <2> QED
    BY <1>8, <2>1 DEF Shutdown, Crash, Ends
<1>9. CASE UNCHANGED vars
  BY <1>9 DEF vars
<1> QED
  BY <1>1, <1>2, <1>3, <1>4, <1>5, <1>6, <1>7, <1>8, <1>9 DEF Next

(* Type correctness: in particular New and the handlers never save at the   *)
(* same time.                                                               *)
THEOREM TypeCorrect == Spec => []TypeOK
<1>1. Init => TypeOK
  <2>1. Default \in Targets
    BY DEF Default, Targets, Device, Direction
  <2>2. Absent \in Content
    BY DEF Content
  <2> QED
    BY <2>1, <2>2 DEF Init, TypeOK, Phase, Label, Saver
<1> QED
  BY <1>1, TypeStep, PTL DEF Spec

-----------------------------------------------------------------------------
(* Why a save that met no other is enough: it is the only one under way,    *)
(* what it has read is what memory holds unless another save is due, and    *)
(* nobody else has the file open.                                           *)
SaveInv ==
  alone =>
    /\ \A g, h \in Saver : Saving(g) /\ Saving(h) => g = h
    /\ \A g \in Saver : pc[g] = "write" => file = Empty
    /\ (\A g \in Saver : ~Saving(g)) => Loadable(file)
    /\ (\A g \in Saver : ~Due(g)) =>
         /\ \A g \in Saver :
              pc[g] = "disconnected" => buf[g]["connected"] = mem["connected"]
         /\ \A g \in Saver : pc[g] \in {"open", "write"} => buf[g] = mem
         /\ (\A g \in Saver : ~Saving(g)) => file = Doc(mem)

(* Every step preserves SaveInv.                                            *)
LEMMA SaveStep == TypeOK /\ SaveInv /\ [Next]_vars => SaveInv'
<1> SUFFICES ASSUME TypeOK, SaveInv, [Next]_vars, alone' PROVE SaveInv'
  BY DEF SaveInv
<1>a. Boot \in Saver /\ Handlers \subseteq Saver
  BY DEF Saver
<1> USE <1>a DEF TypeOK, SaveInv, Label, Due, Saving, Goto
<1>1. ASSUME NEW current \in Direction, FirstLaunch(current) \/ Repair(current)
      PROVE SaveInv'
  BY <1>1 DEF FirstLaunch, Repair
<1>2. CASE Load
  <2>1. file = Doc(mem')
    BY <1>2, DocShape DEF Load
  <2>2. \A g \in Saver : pc'[g] = "idle"
    BY <1>2 DEF Load, Saver
  <2> QED
    BY <1>2, <2>1, <2>2 DEF Load
<1>3. CASE NothingToRepair
  BY <1>3 DEF NothingToRepair
<1>4. ASSUME NEW g \in Handlers, Swap(g) PROVE SaveInv'
  BY <1>4 DEF Swap
<1>5. ASSUME NEW g \in Handlers, NEW d \in Device, NEW v \in Direction, SetTarget(g, d, v)
      PROVE SaveInv'
  BY <1>5 DEF SetTarget
<1>6. ASSUME NEW g \in Saver, Save(g) PROVE SaveInv'
  <2>1. CASE ReadConnected(g)
    <3>1. \A h \in Saver : ~Saving(h)
      BY <2>1 DEF ReadConnected
    <3>2. \A h \in Saver : Saving(h)' => h = g
      BY <2>1, <3>1 DEF ReadConnected
    <3>3. pc'[g] = "disconnected" /\ buf'[g]["connected"] = mem'["connected"]
      BY <2>1 DEF ReadConnected, Targets, Device
    <3> QED
      BY <3>2, <3>3
  <2>2. CASE ReadDisconnected(g)
    <3>1. alone /\ pc'[g] = "open"
      BY <2>2 DEF ReadDisconnected
    <3>2. \A h \in Saver : Saving(h)' => h = g
      BY <2>2, <3>1 DEF ReadDisconnected
    <3>3. (\A h \in Saver : ~Due(h)') => buf'[g] = mem'
      <4> SUFFICES ASSUME \A h \in Saver : ~Due(h)' PROVE buf'[g] = mem'
        OBVIOUS
      <4>1. buf[g]["connected"] = mem["connected"]
        BY <2>2, <3>1 DEF ReadDisconnected
      <4>2. buf'[g] = [buf[g] EXCEPT !["disconnected"] = mem["disconnected"]]
        BY <2>2 DEF ReadDisconnected
      <4>3. buf[g] \in Targets /\ mem \in Targets /\ mem' = mem
        BY <2>2 DEF ReadDisconnected
      <4> QED
        BY <4>1, <4>2, <4>3 DEF Targets, Device
    <3> QED
      BY <3>1, <3>2, <3>3
  <2>3. CASE Open(g)
    BY <2>3 DEF Open
  <2>4. CASE Write(g)
    <3>1. alone /\ file = Empty /\ buf[g] \in Targets
      BY <2>4 DEF Write
    <3>2. file' = Doc(buf[g])
      <4>1. ~(file.len > Length(buf[g]))
        BY <3>1, LengthRange DEF Empty
      <4> QED
        BY <2>4, <4>1 DEF Write
    <3>3. \A h \in Saver : ~Saving(h)'
      BY <2>4, <3>1 DEF Write, Saved
    <3>4. (\A h \in Saver : ~Due(h)') => buf[g] = mem'
      BY <2>4, <3>1 DEF Write, Saved
    <3>5. Loadable(file')
      BY <3>2 DEF Loadable, Doc
    <3> QED
      BY <2>4, <3>1, <3>2, <3>3, <3>4, <3>5
  <2>5. CASE SaveFails(g)
    BY <2>5 DEF SaveFails
  <2> QED
    BY <1>6, <2>1, <2>2, <2>3, <2>4, <2>5 DEF Save
<1>7. CASE Shutdown \/ Crash
  <2>1. alone /\ AtRest
    BY <1>7 DEF Shutdown, Crash, Ends
  <2>2. file = Doc(mem) /\ Loadable(file)
    BY <2>1 DEF AtRest
  <2> QED
    BY <1>7, <2>2 DEF Shutdown, Crash, Ends
<1>8. CASE UNCHANGED vars
  BY <1>8 DEF vars
<1> QED
  BY <1>1, <1>2, <1>3, <1>4, <1>5, <1>6, <1>7, <1>8 DEF Next

(* SaveInv is an invariant.                                                 *)
LEMMA SaveInvariant == Spec => []SaveInv
<1>1. Init => SaveInv
  BY DEF Init, SaveInv
<1> QED
  BY <1>1, TypeCorrect, SaveStep, PTL DEF Spec

(* Torn, reordered and failed saves are put right by the next save that     *)
(* meets no other.                                                          *)
THEOREM SoloSaveHealsHolds == Spec => []SoloSaveHeals
<1>1. SaveInv => SoloSaveHeals
  BY DEF SaveInv, SoloSaveHeals, AtRest, Due, Saving
<1> QED
  BY <1>1, SaveInvariant, PTL

(* Between saves a command finds a config it can load.                      *)
THEOREM ClientsCanLoadHolds == Spec => []ClientsCanLoad
<1>1. SaveInv => ClientsCanLoad
  BY DEF SaveInv, ClientsCanLoad
<1> QED
  BY <1>1, SaveInvariant, PTL

(* Settings survive a restart or a crash that finds the daemon at rest.     *)
THEOREM RestartKeepsTargetsHolds == Spec => RestartKeepsTargets
<1>1. ASSUME TypeOK, SoloSaveHeals, [Next]_vars, phase = "down", phase' # "down", alone
      PROVE mem' = mem
  <2>1. \A g \in Saver : pc[g] = "idle"
    BY <1>1 DEF TypeOK, Saver
  <2>2. file = Doc(mem)
    BY <1>1, <2>1 DEF SoloSaveHeals, AtRest
  <2>3. file # Absent /\ file.targets = mem
    BY <2>2 DEF Doc, Absent
  <2>4. ASSUME NEW g \in Saver, Save(g) PROVE FALSE
    BY <2>1, <2>4 DEF Save, ReadConnected, ReadDisconnected, Open, Write, SaveFails
  <2>5. CASE Load
    BY <2>3, <2>5 DEF Load
  <2> QED
    BY <1>1, <2>3, <2>4, <2>5
       DEF Next, FirstLaunch, Repair, NothingToRepair, Swap, SetTarget, Shutdown,
           Crash, vars
<1>2. TypeOK /\ SoloSaveHeals /\ [Next]_vars
        => [phase = "down" /\ phase' # "down" /\ alone => mem' = mem]_vars
  BY <1>1
<1> QED
  BY <1>2, TypeCorrect, SoloSaveHealsHolds, PTL DEF Spec, RestartKeepsTargets

(* A swap keeps different targets different.                                *)
LEMMA SwapKeepsDifferent ==
  ASSUME mem \in Targets, NEW g \in Handlers, Swap(g), ~Identical(mem)
  PROVE  ~Identical(mem')
<1>1. (CHOOSE e \in Device : e # "connected") = "disconnected"
  BY DEF Device
<1>2. (CHOOSE e \in Device : e # "disconnected") = "connected"
  BY DEF Device
<1> QED
  BY <1>1, <1>2 DEF Swap, Identical, Device

(* Targets become identical only where somebody set them so, at the first   *)
(* launch, or by loading what a troubled save has left.                     *)
THEOREM TwinsHaveCauseHolds == Spec => TwinsHaveCause
<1>1. ASSUME TypeOK, SoloSaveHeals, [Next]_vars, Identical(mem'), ~Identical(mem)
      PROVE  \/ \E g \in Handlers, d \in Device, v \in Direction : SetTarget(g, d, v)
             \/ phase = "down" /\ (file = Absent \/ ~alone)
  <2>1. ASSUME NEW current \in Direction, FirstLaunch(current) \/ Repair(current)
        PROVE  phase = "down" /\ file = Absent
    BY <1>1, <2>1 DEF FirstLaunch, Repair
  <2>2. CASE Load
    <3>1. phase = "down" /\ \A g \in Saver : pc[g] = "idle"
      BY <1>1, <2>2 DEF Load, TypeOK, Saver
    <3>2. alone => file = Doc(mem)
      BY <1>1, <3>1 DEF SoloSaveHeals, AtRest
    <3>3. alone => mem' = mem
      BY <2>2, <3>2 DEF Load, Doc
    <3> QED
      BY <1>1, <3>1, <3>3
  <2>3. ASSUME NEW g \in Handlers, Swap(g) PROVE FALSE
    BY <1>1, <2>3, SwapKeepsDifferent DEF TypeOK
  <2>4. ASSUME NEW g \in Saver, Save(g) PROVE mem' = mem
    BY <2>4 DEF Save, ReadConnected, ReadDisconnected, Open, Write, SaveFails
  <2>5. CASE NothingToRepair \/ Shutdown \/ Crash \/ UNCHANGED vars
    BY <1>1, <2>5 DEF NothingToRepair, Shutdown, Crash, Ends, vars
  <2> QED
    BY <1>1, <2>1, <2>2, <2>3, <2>4, <2>5 DEF Next
<1>2. TypeOK /\ SoloSaveHeals /\ [Next]_vars
        => [Identical(mem') /\ ~Identical(mem) =>
              \/ \E g \in Handlers, d \in Device, v \in Direction : SetTarget(g, d, v)
              \/ phase = "down" /\ (file = Absent \/ ~alone)]_vars
  BY <1>1
<1> QED
  BY <1>2, TypeCorrect, SoloSaveHealsHolds, PTL DEF Spec, TwinsHaveCause
=============================================================================

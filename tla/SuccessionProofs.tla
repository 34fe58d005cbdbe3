-------------------------- MODULE SuccessionProofs --------------------------
(* Theorems about Succession, for any processes, files and settings; what   *)
(* is proved about InstanceLock carries over.                               *)
EXTENDS Succession, InstanceLockProofs

(* Loading and saving take nothing away from the lock and the socket.       *)
LEMMA LockStepOrNone == [NextAll]_allVars => [Next]_vars
BY DEF NextAll, allVars, Load, Change, LockMoves, Next

(* The composition implements InstanceLock.                                 *)
THEOREM LockSurvives == SpecAll => Spec
<1>1. InitAll => Init
  BY DEF InitAll
<1> QED
  BY <1>1, LockStepOrNone, PTL DEF SpecAll, Spec

(* So one daemon runs at a time here too, unless a handover happened.       *)
THEOREM SingleInSuccession == SpecAll => []SingleUnlessHandover
BY LockSurvives, SingleUnlessHandoverHolds, PTL

(* ... and the daemon that accepts connections is the one clients reach.    *)
THEOREM ServedInSuccession == SpecAll => []SocketIsServed
BY LockSurvives, SocketIsServedHolds, PTL

(* ... and so are the invariants that this rests on.                        *)
LEMMA LockFacts == SpecAll => [](TypeOK /\ LockInv)
BY LockSurvives, TypeCorrect, LockInvariant, PTL

-----------------------------------------------------------------------------
(* A process is there after a step of the lock if it was there before.      *)
LEMMA StaysOff ==
  ASSUME TypeOK, LockMoves, NEW q \in Procs, pc[q] = "off"
  PROVE  pc'[q] = "off"
BY DEF TypeOK, LockMoves, Proceed, Serve, Open, Flock, FlockRefused, ServerFails,
       CloseListener, UnlinkSocket, Unlock, Remove, Exit, CleanSocket, Bind,
       Register, AcceptFails, Stop, Crash, LeaveAlone, Goto

(* Every step preserves the types of the config.                            *)
LEMMA ConfigTypeStep ==
  TypeOK /\ ConfigTypeOK /\ [NextAll]_allVars => ConfigTypeOK'
<1> SUFFICES ASSUME TypeOK, ConfigTypeOK, [NextAll]_allVars PROVE ConfigTypeOK'
  OBVIOUS
<1> USE NoneIsNoSetting, TornIsNoSetting DEF ConfigTypeOK
<1>1. ASSUME NEW p \in Procs, Load(p) PROVE ConfigTypeOK'
  BY <1>1 DEF Load, Start, Goto, TypeOK
<1>2. ASSUME NEW p \in Procs, NEW s \in Settings, Change(p, s) PROVE ConfigTypeOK'
  <2>1. late' \in BOOLEAN
    BY <1>2 DEF Change
  <2>2. pc[p] # "off" /\ pc' = pc
    BY <1>2 DEF Change, Running, vars
  <2>3. apart' \in [Procs -> BOOLEAN]
    BY <1>2 DEF Change
  <2> QED
    BY <1>2, <2>1, <2>2, <2>3 DEF Change
<1>3. CASE LockMoves
  <2>1. apart' \in [Procs -> BOOLEAN]
    BY <1>3 DEF LockMoves, Overtake
  <2>2. mem' = [q \in Procs |-> IF pc'[q] = "off" THEN None ELSE mem[q]]
    BY <1>3 DEF LockMoves, Forget
  <2>3. \A q \in Procs : mem'[q] = None <=> pc'[q] = "off"
    BY <1>3, <2>2, StaysOff
  <2> QED
    BY <1>3, <2>1, <2>2, <2>3 DEF LockMoves
<1>4. CASE UNCHANGED allVars
  BY <1>4 DEF allVars, configVars, vars
<1> QED
  BY <1>1, <1>2, <1>3, <1>4 DEF NextAll

(* Type correctness: every process that is there has a config.              *)
THEOREM ConfigTypeCorrect == SpecAll => []ConfigTypeOK
<1>1. InitAll => ConfigTypeOK
  BY DEF InitAll, Init, ConfigTypeOK
<1> QED
  BY <1>1, ConfigTypeStep, LockFacts, PTL DEF SpecAll

-----------------------------------------------------------------------------
(* Why a daemon has what is on disk: who waits for the lock while nobody    *)
(* runs has loaded after the last daemon was gone, or is known to be apart. *)
CurrentInv ==
  ~handover /\ ~late =>
    /\ \A p \in Procs : Running(p) /\ ~apart[p] => mem[p] = disk
    /\ (\A q \in Procs : ~Running(q)) =>
         \A p \in Procs : pc[p] \in {"open", "flock"} /\ ~apart[p] => mem[p] = disk

(* Who runs has a lock, and who stops running gives it up.                  *)
LEMMA GivenUp ==
  ASSUME TypeOK, TypeOK', NEW q \in Procs, Running(q), ~Running(q)'
  PROVE  \E f \in Files : owner[f] # None /\ owner'[f] # owner[f]
<1>1. fd[q] \in Files /\ owner[fd[q]] = q
  BY DEF TypeOK, Running
<1>2. owner'[fd[q]] # q
  BY <1>1 DEF TypeOK, Running
<1> QED
  BY <1>1, <1>2, NoneIsNothing

(* Who starts to run without a handover is the only one.                    *)
LEMMA TakenFree ==
  ASSUME TypeOK, LockInv, NEW p \in Procs, Flock(p), ~handover'
  PROVE  \A q \in Procs : ~Running(q)
<1>1. ~handover /\ fd[p] = name /\ owner[fd[p]] = None
  BY DEF Flock, Doomed
<1> QED
  BY <1>1, NoneIsNothing DEF LockInv, TypeOK

(* How a process comes to wait, or to run: from the state before.           *)
LEMMA Before ==
  ASSUME TypeOK, LockMoves, NEW p \in Procs
  PROVE  /\ pc'[p] \in {"open", "flock"} => pc[p] \in {"open", "flock"}
         /\ Running(p)' /\ ~Running(p) => Flock(p) /\ pc[p] = "flock"
<1> USE DEF TypeOK, Running, Goto
<1>1. ASSUME NEW q \in Procs, Proceed(q)
      PROVE  /\ pc'[p] \in {"open", "flock"} => pc[p] \in {"open", "flock"}
             /\ Running(p)' /\ ~Running(p) => Flock(p) /\ pc[p] = "flock"
  BY <1>1 DEF Proceed, Open, Flock, FlockRefused, ServerFails, CloseListener,
              UnlinkSocket, Unlock, Remove, Exit
<1>2. ASSUME NEW q \in Procs, Serve(q) \/ Stop(q) \/ AcceptFails(q) \/ Crash(q) \/ LeaveAlone
      PROVE  /\ pc'[p] \in {"open", "flock"} => pc[p] \in {"open", "flock"}
             /\ Running(p)' => Running(p)
  BY <1>2 DEF Serve, CleanSocket, Bind, Register, AcceptFails, Stop, Crash, LeaveAlone
<1> QED
  BY <1>1, <1>2 DEF LockMoves

(* Every step preserves CurrentInv.                                         *)
LEMMA CurrentStep ==
  ASSUME TypeOK, TypeOK', LockInv, ConfigTypeOK, CurrentInv, [NextAll]_allVars
  PROVE  CurrentInv'
<1> SUFFICES ASSUME ~handover', ~late' PROVE CurrentInv'
  BY DEF CurrentInv
<1>a. ~handover
  BY DEF NextAll, Load, Change, LockMoves, allVars, vars, LeaveAlone, Proceed, Serve,
         Start, Open, Flock, FlockRefused, ServerFails, CloseListener, UnlinkSocket,
         Unlock, Remove, Exit, CleanSocket, Bind, Register, AcceptFails, Stop, Crash,
         historyVars
<1>b. ~late
  BY DEF NextAll, Load, Change, LockMoves, allVars, configVars
<1>1. ASSUME NEW p \in Procs, Load(p) PROVE CurrentInv'
  BY <1>1, <1>a, <1>b DEF Load, Start, Goto, CurrentInv, TypeOK, ConfigTypeOK, Running
<1>2. ASSUME NEW p \in Procs, NEW s \in Settings, Change(p, s) PROVE CurrentInv'
  <2>1. Running(p) /\ \A q \in Procs : Running(q) => q = p
    BY <1>2, <1>a, OneOwner DEF Change, SingleUnlessHandover
  <2>2. \A q \in Procs : Running(q)' <=> Running(q)
    BY <1>2 DEF Change, vars, Running
  <2>3. mem'[p] = s /\ (disk' # s => apart'[p])
    BY <1>2, <1>a DEF Change, ConfigTypeOK
  <2> QED
    BY <2>1, <2>2, <2>3 DEF CurrentInv
<1>3. CASE LockMoves
  <2>1. disk' = disk /\ \A p \in Procs : pc'[p] # "off" => mem'[p] = mem[p]
    BY <1>3 DEF LockMoves, Forget
  <2>2. \A p \in Procs :
          (Running(p)' \/ pc'[p] \in {"open", "flock"}) /\ apart[p] => apart'[p]
    BY <1>3, <1>b DEF LockMoves, Overtake
  <2>3. ASSUME NEW p \in Procs, Running(p)', ~apart'[p] PROVE mem'[p] = disk'
    <3>1. pc'[p] # "off" /\ ~apart[p]
      BY <2>2, <2>3 DEF Running
    <3>2. CASE Running(p)
      BY <3>1, <3>2, <2>1, <1>a, <1>b DEF CurrentInv
    <3>3. CASE ~Running(p)
      <4>1. Flock(p) /\ pc[p] = "flock"
        BY <1>3, <2>3, <3>3, Before
      <4>2. \A q \in Procs : ~Running(q)
        BY <4>1, TakenFree
      <4> QED
        BY <3>1, <4>1, <4>2, <2>1, <1>a, <1>b DEF CurrentInv
    <3> QED
      BY <3>2, <3>3
  <2>4. ASSUME NEW p \in Procs, \A q \in Procs : ~Running(q)',
               pc'[p] \in {"open", "flock"}, ~apart'[p]
        PROVE  mem'[p] = disk'
    <3>1. pc[p] \in {"open", "flock"} /\ ~apart[p]
      BY <1>3, <2>2, <2>4, Before
    <3>2. \A q \in Procs : ~Running(q)
      <4> SUFFICES ASSUME NEW q \in Procs, Running(q) PROVE FALSE
        OBVIOUS
      <4>1. \E f \in Files : owner[f] # None /\ owner'[f] # owner[f]
        BY <2>4, GivenUp
      <4>2. apart'[p]
        BY <1>3, <1>b, <2>4, <3>1, <4>1 DEF LockMoves, Overtake
      <4> QED
        BY <4>2, <2>4
    <3> QED
      BY <3>1, <3>2, <2>1, <2>4, <1>a, <1>b DEF CurrentInv
  <2> QED
    BY <2>3, <2>4 DEF CurrentInv
<1>4. CASE UNCHANGED allVars
  <2>1. UNCHANGED <<pc, handover, late, mem, disk, apart>>
    BY <1>4 DEF allVars, configVars, vars, historyVars
  <2> QED
    BY <2>1, <1>a, <1>b DEF CurrentInv, Running
<1> QED
  BY <1>1, <1>2, <1>3, <1>4 DEF NextAll

(* A daemon whose predecessor was gone before it loaded has what is on disk *)
(* in memory, although it read that without the lock.                       *)
THEOREM LoadedIsCurrentHolds == SpecAll => []LoadedIsCurrent
<1>1. InitAll => CurrentInv
  BY DEF InitAll, Init, CurrentInv, Running
<1>2. CurrentInv => LoadedIsCurrent
  BY DEF CurrentInv, LoadedIsCurrent
<1>3. TypeOK /\ LockInv /\ [NextAll]_allVars => TypeOK'
  BY LockStepOrNone, TypeStep
<1>4. TypeOK /\ LockInv /\ ConfigTypeOK /\ CurrentInv /\ [NextAll]_allVars => CurrentInv'
  BY <1>3, CurrentStep
<1> QED
  BY <1>1, <1>2, <1>4, LockFacts, ConfigTypeCorrect, PTL DEF SpecAll

(* A save takes nothing back: whatever other daemons saved before it, who   *)
(* sets and saves the config had in memory what was on disk, unless one of  *)
(* the races came between or its own latest save had not gone through.      *)
THEOREM SavesBuildOnTheLast ==
  SpecAll =>
    [][\A p \in Procs, s \in Settings :
         Change(p, s) => mem[p] = disk \/ apart[p] \/ handover \/ late']_allVars
<1>1. ASSUME LoadedIsCurrent, NEW p \in Procs, NEW s \in Settings, Change(p, s)
      PROVE  mem[p] = disk \/ apart[p] \/ handover \/ late'
  <2>1. late' \/ (Running(p) /\ ~late)
    BY <1>1 DEF Change
  <2> QED
    BY <1>1, <2>1 DEF LoadedIsCurrent
<1>2. LoadedIsCurrent
        => [\A p \in Procs, s \in Settings :
              Change(p, s) => mem[p] = disk \/ apart[p] \/ handover \/ late']_allVars
  BY <1>1
<1> QED
  BY <1>2, LoadedIsCurrentHolds, PTL
=============================================================================

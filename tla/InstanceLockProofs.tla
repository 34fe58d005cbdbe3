------------------------- MODULE InstanceLockProofs -------------------------
(* Theorems about InstanceLock, for any set of processes and files.         *)
EXTENDS InstanceLock, TLAPS

(* Every step preserves the types: in particular a process holds exactly    *)
(* the lock of the file it has open, and only while it runs.                *)
LEMMA TypeStep == TypeOK /\ [Next]_vars => TypeOK'
<1> SUFFICES ASSUME TypeOK, [Next]_vars PROVE TypeOK'
  OBVIOUS
<1> USE NoneIsNothing
    DEF TypeOK, Label, Serving, Running, Goto, Srv, lockVars, historyVars
<1>1. ASSUME NEW p \in Procs, Start(p) PROVE TypeOK'
  BY <1>1 DEF Start
<1>2. ASSUME NEW p \in Procs, Proceed(p) PROVE TypeOK'
  <2>1. CASE Open(p)
    BY <2>1 DEF Open
  <2>2. CASE Flock(p)
    <3>1. handover' \in BOOLEAN
      BY <2>2 DEF Flock
    <3> QED
      BY <2>2, <3>1 DEF Flock
  <2>3. CASE FlockRefused(p)
    BY <2>3 DEF FlockRefused
  <2>4. CASE ServerFails(p)
    BY <2>4 DEF ServerFails
  <2>5. CASE CloseListener(p)
    <3>1. early' \in BOOLEAN
      BY <2>5 DEF CloseListener
    <3> QED
      BY <2>5, <3>1 DEF CloseListener
  <2>6. CASE UnlinkSocket(p)
    BY <2>6 DEF UnlinkSocket
  <2>7. CASE Unlock(p)
    BY <2>7 DEF Unlock
  <2>8. CASE Remove(p)
    BY <2>8 DEF Remove
  <2>9. CASE Exit(p)
    BY <2>9 DEF Exit
  <2> QED
    BY <1>2, <2>1, <2>2, <2>3, <2>4, <2>5, <2>6, <2>7, <2>8, <2>9 DEF Proceed
<1>3. ASSUME NEW p \in Procs, Serve(p) PROVE TypeOK'
  BY <1>3 DEF Serve, CleanSocket, Bind, Register
<1>4. ASSUME NEW p \in Procs, Stop(p) PROVE TypeOK'
  BY <1>4 DEF Stop
<1>8. ASSUME NEW p \in Procs, AcceptFails(p) PROVE TypeOK'
  BY <1>8 DEF AcceptFails
<1>5. ASSUME NEW p \in Procs, Crash(p) PROVE TypeOK'
  BY <1>5 DEF Crash
<1>6. CASE LeaveAlone
  <2>1. left' \in BOOLEAN
    BY <1>6 DEF LeaveAlone
  <2> QED
    BY <1>6, <2>1 DEF LeaveAlone
<1>7. CASE UNCHANGED vars
  BY <1>7 DEF vars
<1> QED
  BY <1>1, <1>2, <1>3, <1>4, <1>5, <1>6, <1>7, <1>8 DEF Next

(* Type correctness of the lock and of the socket.                          *)
THEOREM TypeCorrect == Spec => []TypeOK
<1>1. Init => TypeOK
  BY NoneIsNothing DEF Init, TypeOK, Label, Serving, Running
<1> QED
  BY <1>1, TypeStep, PTL DEF Spec

-----------------------------------------------------------------------------
(* Why the exclusion holds without a handover: the running daemon has the   *)
(* file that is called daemon.lock, and while a release is about to unlink  *)
(* that name nobody runs.                                                   *)
LockInv ==
  ~handover =>
    /\ \A p \in Procs : Running(p) => fd[p] = name
    /\ \A p, q \in Procs : pc[p] = "remove" => ~Running(q)

(* A file has one owner, so two daemons that have the same file are one.    *)
LEMMA OneOwner == TypeOK /\ LockInv => SingleUnlessHandover
BY NoneIsNothing DEF TypeOK, LockInv, SingleUnlessHandover

(* Every step preserves LockInv.                                            *)
LEMMA LockStep == TypeOK /\ LockInv /\ [Next]_vars => LockInv'
<1> SUFFICES ASSUME TypeOK, LockInv, [Next]_vars, ~handover' PROVE LockInv'
  BY DEF LockInv
<1>a. ~handover
  BY DEF Next, LeaveAlone, Proceed, Serve, Start, Open, Flock, FlockRefused,
         ServerFails, CloseListener, UnlinkSocket, Unlock, Remove, Exit, CleanSocket,
         Bind, Register, AcceptFails, Stop, Crash, vars, historyVars
<1>b. \A p, q \in Procs : Running(p) /\ Running(q) => p = q
  BY <1>a, OneOwner DEF SingleUnlessHandover
<1> USE <1>a, NoneIsNothing
    DEF TypeOK, LockInv, Running, Goto, Srv, lockVars, historyVars
<1>1. ASSUME NEW p \in Procs, Start(p) PROVE LockInv'
  BY <1>1 DEF Start
<1>2. ASSUME NEW p \in Procs, Proceed(p) PROVE LockInv'
  <2>1. CASE Open(p)
    BY <2>1 DEF Open
  <2>2. CASE Flock(p)
    <3>1. ~Doomed(p)
      BY <2>2 DEF Flock
    <3>2. fd[p] = name /\ \A q \in Procs : pc[q] # "remove"
      BY <3>1 DEF Doomed
    <3> QED
      BY <2>2, <3>2 DEF Flock
  <2>3. CASE FlockRefused(p)
    BY <2>3 DEF FlockRefused
  <2>4. CASE ServerFails(p)
    BY <2>4 DEF ServerFails
  <2>5. CASE CloseListener(p)
    BY <2>5 DEF CloseListener
  <2>6. CASE UnlinkSocket(p)
    BY <2>6 DEF UnlinkSocket
  <2>7. CASE Unlock(p)
    BY <2>7, <1>b DEF Unlock
  <2>8. CASE Remove(p)
    BY <2>8 DEF Remove
  <2>9. CASE Exit(p)
    BY <2>9 DEF Exit
  <2> QED
    BY <1>2, <2>1, <2>2, <2>3, <2>4, <2>5, <2>6, <2>7, <2>8, <2>9 DEF Proceed
<1>3. ASSUME NEW p \in Procs, Serve(p) PROVE LockInv'
  BY <1>3 DEF Serve, CleanSocket, Bind, Register
<1>4. ASSUME NEW p \in Procs, Stop(p) PROVE LockInv'
  BY <1>4 DEF Stop
<1>7. ASSUME NEW p \in Procs, AcceptFails(p) PROVE LockInv'
  BY <1>7 DEF AcceptFails
<1>5. ASSUME NEW p \in Procs, Crash(p) PROVE LockInv'
  BY <1>5 DEF Crash
<1>6. CASE LeaveAlone \/ UNCHANGED vars
  BY <1>6 DEF LeaveAlone, vars
<1> QED
  BY <1>1, <1>2, <1>3, <1>4, <1>5, <1>6, <1>7 DEF Next

(* LockInv is an invariant.                                                 *)
LEMMA LockInvariant == Spec => []LockInv
<1>1. Init => LockInv
  BY DEF Init, LockInv, Running
<1> QED
  BY <1>1, TypeCorrect, LockStep, PTL DEF Spec

(* Crashes, restarts and refused starts never make two daemons run: only a  *)
(* lock taken in the window between LOCK_UN and Remove does.                *)
THEOREM SingleUnlessHandoverHolds == Spec => []SingleUnlessHandover
BY TypeCorrect, LockInvariant, OneOwner, PTL

-----------------------------------------------------------------------------
(* Why the socket belongs to the daemon that accepts on it: only a daemon   *)
(* between "run" and "close" still has a server, and the name, once cleared *)
(* and then bound, has not been touched since, because whoever touches it   *)
(* is running too.                                                          *)
SocketInv ==
  ~handover /\ ~early =>
    \A p \in Procs :
      /\ srv[p] # "failed"
      /\ srv[p] = "bind" => sock = None
      /\ srv[p] \in {"clean", "bind", "register", "accept", "broken"} => pc[p] \in {"run", "close"}
      /\ srv[p] \in {"register", "accept", "broken"} => sock = p

(* Every step preserves SocketInv.                                          *)
LEMMA SocketStep == TypeOK /\ LockInv /\ SocketInv /\ [Next]_vars => SocketInv'
<1> SUFFICES ASSUME TypeOK, LockInv, SocketInv, [Next]_vars, ~handover', ~early'
             PROVE SocketInv'
  BY DEF SocketInv
<1>h. ~handover
  BY DEF Next, LeaveAlone, Proceed, Serve, Start, Open, Flock, FlockRefused,
         ServerFails, CloseListener, UnlinkSocket, Unlock, Remove, Exit, CleanSocket,
         Bind, Register, AcceptFails, Stop, Crash, vars, historyVars
<1>e. ~early
  BY DEF Next, LeaveAlone, Proceed, Serve, Start, Open, Flock, FlockRefused,
         ServerFails, CloseListener, UnlinkSocket, Unlock, Remove, Exit, CleanSocket,
         Bind, Register, AcceptFails, Stop, Crash, vars, historyVars
<1>a. ~handover /\ ~early
  BY <1>h, <1>e
<1>b. \A p, q \in Procs : Running(p) /\ Running(q) => p = q
  BY <1>a, OneOwner DEF SingleUnlessHandover
<1> USE <1>a, NoneIsNothing
    DEF TypeOK, SocketInv, Running, Goto, Srv, Label, Serving, lockVars, historyVars
<1>1. ASSUME NEW p \in Procs, Start(p) PROVE SocketInv'
  BY <1>1 DEF Start
<1>2. ASSUME NEW p \in Procs, Proceed(p) PROVE SocketInv'
  <2>1. CASE Open(p)
    BY <2>1 DEF Open
  <2>2. CASE Flock(p)
    BY <2>2 DEF Flock
  <2>3. CASE FlockRefused(p)
    BY <2>3 DEF FlockRefused
  <2>4. CASE ServerFails(p)
    BY <2>4 DEF ServerFails
  <2>5. CASE CloseListener(p)
    <3>1. CASE srv[p] \in {"accept", "broken"}
      BY <2>5, <3>1, <1>b DEF CloseListener
    <3>2. CASE srv[p] \notin {"accept", "broken"}
      <4>1. srv[p] = "failed"
        BY <2>5, <3>2 DEF CloseListener
      <4> QED
        BY <2>5, <3>2, <4>1 DEF CloseListener
    <3> QED
      BY <3>1, <3>2
  <2>6. CASE UnlinkSocket(p)
    BY <2>6, <1>b DEF UnlinkSocket
  <2>7. CASE Unlock(p)
    BY <2>7 DEF Unlock
  <2>8. CASE Remove(p)
    BY <2>8 DEF Remove
  <2>9. CASE Exit(p)
    BY <2>9 DEF Exit
  <2> QED
    BY <1>2, <2>1, <2>2, <2>3, <2>4, <2>5, <2>6, <2>7, <2>8, <2>9 DEF Proceed
<1>3. ASSUME NEW p \in Procs, Serve(p) PROVE SocketInv'
  <2>1. CASE CleanSocket(p)
    BY <2>1, <1>b DEF CleanSocket
  <2>2. CASE Bind(p)
    BY <2>2, <1>b DEF Bind
  <2>3. CASE Register(p)
    BY <2>3 DEF Register
  <2> QED
    BY <1>3, <2>1, <2>2, <2>3 DEF Serve
<1>4. ASSUME NEW p \in Procs, Stop(p) PROVE SocketInv'
  BY <1>4 DEF Stop
<1>7. ASSUME NEW p \in Procs, AcceptFails(p) PROVE SocketInv'
  BY <1>7 DEF AcceptFails
<1>5. ASSUME NEW p \in Procs, Crash(p) PROVE SocketInv'
  BY <1>5 DEF Crash
<1>6. CASE LeaveAlone \/ UNCHANGED vars
  BY <1>6 DEF LeaveAlone, vars
<1> QED
  BY <1>1, <1>2, <1>3, <1>4, <1>5, <1>6, <1>7 DEF Next

(* Starts and stops unlink daemon.sock by name, and still never under a     *)
(* daemon that accepts connections, unless one of the two races happened.   *)
THEOREM SocketIsServedHolds == Spec => []SocketIsServed
<1>1. Init => SocketInv
  BY DEF Init, SocketInv
<1>2. SocketInv => SocketIsServed
  BY DEF SocketInv, SocketIsServed
<1> QED
  BY <1>1, <1>2, TypeCorrect, LockInvariant, SocketStep, PTL DEF Spec
=============================================================================

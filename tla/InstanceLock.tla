---------------------------- MODULE InstanceLock ----------------------------
(***************************************************************************)
(* How daemon processes exclude each other: AcquireLock and its release on *)
(* daemon.lock, and the control socket that the daemon holding the lock    *)
(* binds and unlinks.                                                      *)
(*                                                                         *)
(* flock locks the file a process opened, not the name: the name may since *)
(* have been unlinked and given to another file.  The kernel drops the     *)
(* locks of a process that dies; files stay.                               *)
(***************************************************************************)
CONSTANTS
  Procs,     \* daemon processes; one that has ended may be started again
  Files,     \* the files that may be the lock file, one after the other
  None

ASSUME NoneIsNothing == None \notin Procs \cup Files

VARIABLES
  pc,       \* where the main goroutine of each process is
  srv,      \* where its ListenAndServe is
  fd,       \* the lock file the process has open
  owner,    \* which process has locked each file
  name,     \* the file called daemon.lock
  sock,     \* the process whose listener is called daemon.sock
  left,     \* from some moment on nobody stops or kills a daemon any more,
            \* and no call of one fails without a reason in this module
  (* History, read by properties only. *)
  handover, \* a lock was taken on a file that is no longer the one called
            \* daemon.lock, or is about to be unlinked
  early     \* Close ran before ListenAndServe had a listener to close

lockVars    == <<fd, owner, name>>
historyVars == <<handover, early>>
vars == <<pc, srv, lockVars, sock, left, historyVars>>

-----------------------------------------------------------------------------
(* "open", "flock": in AcquireLock; "run": in New and Run; "close",         *)
(* "unlink": in Server.Close; "unlock", "remove": in the release function;  *)
(* "exit": main is about to return.                                         *)
Label == {"off", "open", "flock", "run", "close", "unlink", "unlock", "remove", "exit"}

(* "clean", "bind", "register": before the three steps of ListenAndServe;   *)
(* "failed", "broken": it has returned an error, without or with a listener.*)
Serving == {"none", "clean", "bind", "register", "accept", "failed", "broken"}

Goto(p, l) == pc' = [pc EXCEPT ![p] = l]
Srv(p, l)  == srv' = [srv EXCEPT ![p] = l]

(* From AcquireLock's success until its release is called.                  *)
Running(p) == pc[p] \in {"run", "close", "unlink", "unlock"}

(* A client that dials the socket reaches p.                                *)
Reachable(p) == pc[p] = "run" /\ srv[p] = "accept" /\ sock = p

(* A file that is gone from the directory and from every process.           *)
Fresh(f) == name # f /\ \A p \in Procs : fd[p] # f

Init ==
  /\ pc = [p \in Procs |-> "off"]
  /\ srv = [p \in Procs |-> "none"]
  /\ fd = [p \in Procs |-> None]
  /\ owner = [f \in Files |-> None]
  /\ name \in {None} \cup Files
  /\ sock = None
  /\ left = FALSE
  /\ handover = FALSE
  /\ early = FALSE

-----------------------------------------------------------------------------
(* launchd, or a user, runs `macscrollswap daemon`.                         *)
Start(p) ==
  /\ pc[p] = "off"
  /\ Goto(p, "open")
  /\ UNCHANGED <<srv, lockVars, sock, left, historyVars>>

(* Seeded fault: the file must not exist yet (O_EXCL).                      *)
OpenExclusive(p) ==
  /\ pc[p] = "open"
  /\ IF name = None
       THEN \E f \in Files : /\ Fresh(f)
                             /\ name' = f
                             /\ fd' = [fd EXCEPT ![p] = f]
                             /\ Goto(p, "flock")
       ELSE Goto(p, "off") /\ UNCHANGED <<fd, name>>
  /\ UNCHANGED <<srv, owner, sock, left, historyVars>>

(* OpenFile with O_CREATE.                                                  *)
Open(p) ==
  /\ pc[p] = "open"
  /\ \E f \in Files :
       /\ IF name = None THEN Fresh(f) ELSE f = name
       /\ name' = f
       /\ fd' = [fd EXCEPT ![p] = f]
  /\ Goto(p, "flock")
  /\ UNCHANGED <<srv, owner, sock, left, historyVars>>

(* The file p has open has been unlinked, or a release that has unlocked it *)
(* is about to unlink it.                                                   *)
Doomed(p) ==
  \/ fd[p] # name
  \/ \E q \in Procs : pc[q] = "remove"

Flock(p) ==
  /\ pc[p] = "flock"
  /\ owner[fd[p]] = None
  /\ owner' = [owner EXCEPT ![fd[p]] = p]
  /\ handover' = (handover \/ Doomed(p))
  /\ Goto(p, "run")
  /\ Srv(p, "clean")
  /\ UNCHANGED <<fd, name, sock, early, left>>

(* Seeded fault: the file is removed although another instance has it.      *)
FlockRefusedRemoves(p) ==
  /\ pc[p] = "flock"
  /\ owner[fd[p]] # None
  /\ fd' = [fd EXCEPT ![p] = None]
  /\ name' = None
  /\ Goto(p, "off")
  /\ UNCHANGED <<srv, owner, sock, left, historyVars>>

(* Seeded fault: a lock that cannot be had is taken for granted.            *)
FlockRefusedIgnored(p) ==
  /\ pc[p] = "flock"
  /\ owner[fd[p]] # None
  /\ Goto(p, "run")
  /\ Srv(p, "clean")
  /\ UNCHANGED <<lockVars, sock, left, historyVars>>

(* "Another instance is already running", whatever the error of flock was:  *)
(* close the file and exit with code 1.                                     *)
FlockRefused(p) ==
  /\ pc[p] = "flock"
  /\ owner[fd[p]] # None \/ ~left
  /\ fd' = [fd EXCEPT ![p] = None]
  /\ Goto(p, "off")
  /\ UNCHANGED <<srv, owner, name, sock, left, historyVars>>

-----------------------------------------------------------------------------
(* ListenAndServe, a goroutine of its own.                                  *)

(* It removes whatever is called daemon.sock...                             *)
CleanSocket(p) ==
  /\ srv[p] = "clean"
  /\ sock' = None
  /\ Srv(p, "bind")
  /\ UNCHANGED <<pc, lockVars, left, historyVars>>

(* ... binds it, which fails if the name has come back...                   *)
Bind(p) ==
  /\ srv[p] = "bind"
  /\ sock' = IF sock = None THEN p ELSE sock
  /\ Srv(p, IF sock = None THEN "register" ELSE "failed")
  /\ UNCHANGED <<pc, lockVars, left, historyVars>>

(* ... and stores the listener where Close looks for it.                    *)
Register(p) ==
  /\ srv[p] = "register"
  /\ Srv(p, "accept")
  /\ UNCHANGED <<pc, lockVars, sock, left, historyVars>>

(* Accept fails; the listener stays, and has its name.                      *)
AcceptFails(p) ==
  /\ ~left
  /\ srv[p] = "accept"
  /\ Srv(p, "broken")
  /\ UNCHANGED <<pc, lockVars, sock, left, historyVars>>

(* Run is left when the server cannot listen or accept...                   *)
ServerFails(p) ==
  /\ pc[p] = "run"
  /\ srv[p] \in {"failed", "broken"}
  /\ Goto(p, "close")
  /\ UNCHANGED <<srv, lockVars, sock, left, historyVars>>

(* Seeded fault: the lock is released before the server is closed.          *)
StopUnlocksFirst(p) ==
  /\ ~left
  /\ pc[p] = "run"
  /\ owner' = [f \in Files |-> IF owner[f] = p THEN None ELSE owner[f]]
  /\ Goto(p, "close")
  /\ UNCHANGED <<srv, fd, name, sock, left, historyVars>>

(* ... on a Shutdown request, SIGINT or SIGTERM; a signal does not wait for *)
(* the server to be there.                                                  *)
Stop(p) ==
  /\ ~left
  /\ pc[p] = "run"
  /\ Goto(p, "close")
  /\ UNCHANGED <<srv, lockVars, sock, left, historyVars>>

(* Closing a listener unlinks the name, whoever has it by then.             *)
CloseListener(p) ==
  /\ pc[p] = "close"
  /\ IF srv[p] \in {"accept", "broken"}
       THEN sock' = None /\ Srv(p, "none") /\ early' = early
       ELSE UNCHANGED <<sock, srv>> /\ early' = (early \/ srv[p] # "failed")
  /\ Goto(p, "unlink")
  /\ UNCHANGED <<lockVars, handover, left>>

UnlinkSocket(p) ==
  /\ pc[p] = "unlink"
  /\ sock' = None
  /\ Goto(p, "unlock")
  /\ UNCHANGED <<srv, lockVars, left, historyVars>>

-----------------------------------------------------------------------------
(* The release function: LOCK_UN and close, then Remove by name.            *)
Unlock(p) ==
  /\ pc[p] = "unlock"
  /\ owner' = [owner EXCEPT ![fd[p]] = None]
  /\ fd' = [fd EXCEPT ![p] = None]
  /\ Goto(p, "remove")
  /\ UNCHANGED <<srv, name, sock, left, historyVars>>

Remove(p) ==
  /\ pc[p] = "remove"
  /\ name' = None
  /\ Goto(p, "exit")
  /\ UNCHANGED <<srv, fd, owner, sock, left, historyVars>>

(* main returns, and what other goroutines were doing ends with it.         *)
Exit(p) ==
  /\ pc[p] = "exit"
  /\ Goto(p, "off")
  /\ Srv(p, "none")
  /\ UNCHANGED <<lockVars, sock, left, historyVars>>

(* SIGKILL, a panic or a power loss at any moment, or what ends in os.Exit  *)
(* without the deferred release: an error of AcquireLock before flock, or   *)
(* of New, whose own saves and readings of the setting may fail.            *)
Crash(p) ==
  /\ ~left
  /\ pc[p] # "off"
  /\ owner' = [f \in Files |-> IF owner[f] = p THEN None ELSE owner[f]]
  /\ fd' = [fd EXCEPT ![p] = None]
  /\ Goto(p, "off")
  /\ Srv(p, "none")
  /\ UNCHANGED <<name, sock, left, historyVars>>

-----------------------------------------------------------------------------
(* What a process does on its own once it has been started.                 *)
Proceed(p) ==
  \/ Open(p)
  \/ Flock(p)
  \/ FlockRefused(p)
  \/ ServerFails(p)
  \/ CloseListener(p)
  \/ UnlinkSocket(p)
  \/ Unlock(p)
  \/ Remove(p)
  \/ Exit(p)

Serve(p) ==
  \/ CleanSocket(p)
  \/ Bind(p)
  \/ Register(p)

(* The daemons are left alone from here on, whatever state they are in.     *)
LeaveAlone ==
  /\ ~left
  /\ left' = TRUE
  /\ UNCHANGED <<pc, srv, lockVars, sock, historyVars>>

Next ==
  \/ \E p \in Procs : Start(p) \/ Proceed(p) \/ Serve(p)
  \/ \E p \in Procs : Stop(p) \/ AcceptFails(p) \/ Crash(p)
  \/ LeaveAlone

Spec == Init /\ [][Next]_vars

-----------------------------------------------------------------------------
(* Types: a process has the lock file open and locked exactly while it      *)
(* runs, and serves only from then until it is gone.                        *)
TypeOK ==
  /\ pc \in [Procs -> Label]
  /\ srv \in [Procs -> Serving]
  /\ fd \in [Procs -> Files \cup {None}]
  /\ owner \in [Files -> Procs \cup {None}]
  /\ name \in Files \cup {None}
  /\ sock \in Procs \cup {None}
  /\ left \in BOOLEAN
  /\ handover \in BOOLEAN
  /\ early \in BOOLEAN
  /\ \A p \in Procs : fd[p] # None <=> pc[p] = "flock" \/ Running(p)
  /\ \A p \in Procs, f \in Files : owner[f] = p <=> Running(p) /\ fd[p] = f
  /\ \A p \in Procs : srv[p] # "none" => Running(p) \/ pc[p] \in {"remove", "exit"}

(* Two daemons run at once only after a handover: as long as nobody takes   *)
(* the lock between another's LOCK_UN and the Remove that follows it, or on *)
(* a file so removed, crashes and restarts cannot break the exclusion.      *)
SingleUnlessHandover ==
  ~handover => \A p, q \in Procs : Running(p) /\ Running(q) => p = q

(* The lock protects the socket: a daemon that has the lock can bind the    *)
(* name, whatever was left behind, and the daemon that accepts connections  *)
(* is the one clients reach, although every start and every stop unlinks    *)
(* the name whoever it belongs to.                                          *)
SocketIsServed ==
  ~handover /\ ~early =>
    \A p \in Procs :
      /\ srv[p] # "failed"
      /\ pc[p] = "run" /\ srv[p] = "accept" => sock = p

-----------------------------------------------------------------------------
(* README: "the daemon acquires an exclusive lock", for a "Single instance".*)
SingleInstance ==
  \A p, q \in Procs : Running(p) /\ Running(q) => p = q
=============================================================================

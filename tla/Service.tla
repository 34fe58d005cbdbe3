------------------------------ MODULE Service -------------------------------
(***************************************************************************)
(* Calls over the control socket and the end of a daemon: clients that     *)
(* call once and give up after five seconds, the server's goroutine per    *)
(* connection, Run from its hotkeys to its return, and the polling         *)
(* goroutine that Monitor.Stop waits for.                                  *)
(*                                                                         *)
(* A request is written before anything can fail, so it stays readable on  *)
(* the server's side whatever becomes of the client.  The server's         *)
(* deadline of ten seconds starts when it serves the connection: by then   *)
(* the client's of five has been running.                                  *)
(***************************************************************************)
EXTENDS Hotkeys

CONSTANTS
  Clients,   \* the processes that make one call each
  Combos,    \* what the config may give as a combo
  ChordOf(_) \* the chord the hotkey library makes of what Parse returns

VARIABLES
  run,      \* where Run is
  ch,       \* a value is in shutdownCh, whose capacity is one
  signal,   \* a caught SIGINT or SIGTERM has cancelled Run's context
  srv,      \* where ListenAndServe is
  named,    \* the listener is called daemon.sock
  call,     \* what each client knows of its call
  method,   \* what it asked for
  conn,     \* where the server is with its connection
  mon,      \* where the polling goroutine is
  stop,     \* m.stop is closed
  combos,   \* the config's combos, until they have been read
  taken,    \* chords the system refuses, being in use elsewhere
  held,     \* chords that are registered
  (* History, read by properties only. *)
  ran,      \* how often each request has been handled
  asked     \* a shutdown has been handled, or a signal has arrived

runVars    == <<run, ch, signal>>
serverVars == <<srv, named>>
callVars   == <<call, method, conn>>
monVars    == <<mon, stop>>
keyVars    == <<combos, taken, held>>
historyVars == <<ran, asked>>
vars == <<runVars, serverVars, callVars, monVars, keyVars, historyVars>>

-----------------------------------------------------------------------------
(* "pause", "direction": before the registration of the two hotkeys;        *)
(* "apply", "select": before Run's select, and in it; "close", "fail":      *)
(* before Close, the latter after the server's error; then before           *)
(* UnregisterAll and Monitor.Stop, waiting for done, and before the lock is *)
(* released.                                                                *)
Hotkey  == {"pause", "direction"}
Running == Hotkey \cup {"apply", "select", "close", "fail", "keys", "stop",
                        "join", "release", "gone"}

(* Signals are caught from the select until Run returns from Close, unless  *)
(* the server has failed; otherwise they end the process at once.           *)
Uncaught == Hotkey \cup {"apply", "fail", "keys", "stop", "join", "release"}

(* "bound" to "open": between net.Listen and the assignment of s.ln.        *)
(* "failed", "broken": it has returned an error, without or with a listener.*)
Serving == {"none", "bound", "open", "closed", "failed", "broken"}

(* "backlog" to "read": accepted, request not read; "handle"; "reply": the  *)
(* response is written but not flushed; "next": reading for another request.*)
Connection == {"none", "backlog", "read", "handle", "reply", "next", "ended"}

Method == {"Shutdown", "SwapDirection"}

Alive == run # "gone"

(* What the combos in c stand for, whatever they look like.                 *)
Chords(c) == {ChordOf(Parse(w)) : w \in {v \in c : WellFormed(v)}}

Init ==
  /\ run = "pause"
  /\ ch = FALSE
  /\ signal = FALSE
  /\ srv = "none"
  /\ named = FALSE
  /\ call = [c \in Clients |-> "idle"]
  /\ method \in [Clients -> Method]
  /\ conn = [c \in Clients |-> "none"]
  /\ mon = "poll"
  /\ stop = FALSE
  /\ combos \in [Hotkey -> Combos]
  /\ taken \in SUBSET Chords(Combos)
  /\ held = {}
  /\ ran = [c \in Clients |-> 0]
  /\ asked = FALSE

-----------------------------------------------------------------------------
(* The client.                                                              *)
Knows(c, a) == call' = [call EXCEPT ![c] = a]
Conn(c, l)  == conn' = [conn EXCEPT ![c] = l]

Dial(c) ==
  /\ call[c] = "idle"
  /\ IF named /\ Alive
       THEN Knows(c, "sent") /\ Conn(c, "backlog")
       ELSE Knows(c, "refused") /\ UNCHANGED conn
  /\ UNCHANGED <<runVars, serverVars, method, monVars, keyVars, historyVars>>

(* Seeded fault: a client whose deadline has passed sends its request again.*)
TimeoutRetries(c) ==
  /\ call[c] = "sent"
  /\ named /\ Alive
  /\ Conn(c, "backlog")
  /\ UNCHANGED <<runVars, serverVars, call, method, monVars, keyVars, historyVars>>

(* The deadline passes before the response is read.                         *)
Timeout(c) ==
  /\ call[c] = "sent"
  /\ Knows(c, "failed")
  /\ UNCHANGED <<runVars, serverVars, method, conn, monVars, keyVars, historyVars>>

(* Seeded fault: the end of the connection is taken for an empty response.  *)
BrokenMeansOk(c) ==
  /\ call[c] = "sent"
  /\ conn[c] = "ended"
  /\ Knows(c, "ok")
  /\ UNCHANGED <<runVars, serverVars, method, conn, monVars, keyVars, historyVars>>

(* The connection is closed before the response is read.                    *)
Broken(c) ==
  /\ call[c] = "sent"
  /\ conn[c] = "ended"
  /\ Knows(c, "failed")
  /\ UNCHANGED <<runVars, serverVars, method, conn, monVars, keyVars, historyVars>>

-----------------------------------------------------------------------------
(* ListenAndServe.                                                          *)
Bind ==
  /\ Alive
  /\ run \notin Hotkey
  /\ srv = "none"
  /\ srv' = "bound"
  /\ named' = TRUE
  /\ UNCHANGED <<runVars, callVars, monVars, keyVars, historyVars>>

BindFails ==
  /\ Alive
  /\ run \notin Hotkey
  /\ srv = "none"
  /\ srv' = "failed"
  /\ UNCHANGED <<runVars, named, callVars, monVars, keyVars, historyVars>>

Register ==
  /\ Alive
  /\ srv = "bound"
  /\ srv' = "open"
  /\ UNCHANGED <<runVars, named, callVars, monVars, keyVars, historyVars>>

Accept(c) ==
  /\ Alive
  /\ srv = "open"
  /\ conn[c] = "backlog"
  /\ Conn(c, "read")
  /\ UNCHANGED <<runVars, serverVars, call, method, monVars, keyVars, historyVars>>

(* Accept fails, with the listener not closed: nobody accepts any more what *)
(* clients still dial.                                                      *)
AcceptFails ==
  /\ Alive
  /\ srv = "open"
  /\ srv' = "broken"
  /\ UNCHANGED <<runVars, named, callVars, monVars, keyVars, historyVars>>

-----------------------------------------------------------------------------
(* serve, one goroutine per connection.                                     *)
Read(c) ==
  /\ Alive
  /\ conn[c] = "read"
  /\ Conn(c, "handle")
  /\ UNCHANGED <<runVars, serverVars, call, method, monVars, keyVars, historyVars>>

(* The server's deadline, which comes after the client's.                   *)
ReadFails(c) ==
  /\ Alive
  /\ conn[c] = "read"
  /\ call[c] # "sent"
  /\ Conn(c, "ended")
  /\ UNCHANGED <<runVars, serverVars, call, method, monVars, keyVars, historyVars>>

Handled(c) ==
  /\ Conn(c, "reply")
  /\ ran' = [ran EXCEPT ![c] = @ + 1]
  /\ asked' = (asked \/ method[c] = "Shutdown")

(* Seeded fault: shutdownCh has no capacity, so that a send succeeds only   *)
(* while Run is in its select.                                              *)
HandleUnbuffered(c) ==
  /\ Alive
  /\ conn[c] = "handle"
  /\ ch' = (ch \/ (method[c] = "Shutdown" /\ run = "select"))
  /\ Handled(c)
  /\ UNCHANGED <<run, signal, serverVars, call, method, monVars, keyVars>>

(* handleShutdown never blocks: a value that is there already will do.      *)
Handle(c) ==
  /\ Alive
  /\ conn[c] = "handle"
  /\ ch' = (ch \/ method[c] = "Shutdown")
  /\ Handled(c)
  /\ UNCHANGED <<run, signal, serverVars, call, method, monVars, keyVars>>

(* Flush, and the next ReadBytes; or the client is gone.                    *)
Reply(c) ==
  /\ Alive
  /\ conn[c] = "reply"
  /\ IF call[c] = "sent"
       THEN Knows(c, "ok") /\ Conn(c, "next")
       ELSE Conn(c, "ended") /\ UNCHANGED call
  /\ UNCHANGED <<runVars, serverVars, method, monVars, keyVars, historyVars>>

(* The client has closed its end.                                           *)
EndOfFile(c) ==
  /\ Alive
  /\ conn[c] = "next"
  /\ Conn(c, "ended")
  /\ UNCHANGED <<runVars, serverVars, call, method, monVars, keyVars, historyVars>>

-----------------------------------------------------------------------------
(* The polling goroutine.                                                   *)

(* ioreg ends.  Whether it found a change is Daemon's affair.               *)
PollEnds ==
  /\ Alive
  /\ mon = "poll"
  /\ mon' \in {"callback", "wait"}
  /\ UNCHANGED <<runVars, serverVars, callVars, stop, keyVars, historyVars>>

CallbackEnds ==
  /\ Alive
  /\ mon = "callback"
  /\ mon' = "wait"
  /\ UNCHANGED <<runVars, serverVars, callVars, stop, keyVars, historyVars>>

Tick ==
  /\ Alive
  /\ mon = "wait"
  /\ mon' = "poll"
  /\ UNCHANGED <<runVars, serverVars, callVars, stop, keyVars, historyVars>>

(* The select chooses at random between the ticker and the closed channel.  *)
SeeStop ==
  /\ Alive
  /\ mon = "wait"
  /\ stop
  /\ mon' = "done"
  /\ UNCHANGED <<runVars, serverVars, callVars, stop, keyVars, historyVars>>

-----------------------------------------------------------------------------
(* Run.                                                                     *)
NextHotkey(k) == IF k = "pause" THEN "direction" ELSE "apply"

(* Seeded fault: a combo that cannot be registered skips the other.         *)
RegisterOrSkip(k) ==
  /\ run = k
  /\ IF WellFormed(combos[k]) /\ ChordOf(Parse(combos[k])) \notin taken
       THEN held' = held \cup {ChordOf(Parse(combos[k]))} /\ run' = NextHotkey(k)
       ELSE run' = "apply" /\ UNCHANGED held
  /\ UNCHANGED <<ch, signal, serverVars, callVars, monVars, combos, taken, historyVars>>

(* A combo that is none, or that the system refuses, is reported and left.  *)
RegisterHotkey(k) ==
  /\ run = k
  /\ run' = NextHotkey(k)
  /\ held' = held \cup (Chords({combos[k]}) \ taken)
  /\ UNCHANGED <<ch, signal, serverVars, callVars, monVars, combos, taken, historyVars>>

(* The combos are not read again.                                           *)
FirstApply ==
  /\ run = "apply"
  /\ run' = "select"
  /\ combos' = [k \in Hotkey |-> <<>>]
  /\ taken' = {}
  /\ UNCHANGED <<ch, signal, serverVars, callVars, monVars, held, historyVars>>

LeaveSelect ==
  /\ run = "select"
  /\ \/ ch /\ ch' = FALSE
     \/ signal /\ UNCHANGED ch
  /\ run' = "close"
  /\ UNCHANGED <<signal, serverVars, callVars, monVars, keyVars, historyVars>>

(* Seeded fault: the server's error is logged and Run stays.                *)
ServerFailedStays ==
  /\ run = "select"
  /\ srv \in {"failed", "broken"}
  /\ srv' = "closed"
  /\ UNCHANGED <<runVars, named, callVars, monVars, keyVars, historyVars>>

(* The server's error, upon which Run also stops catching signals.          *)
ServerFailed ==
  /\ run = "select"
  /\ srv \in {"failed", "broken"}
  /\ run' = "fail"
  /\ UNCHANGED <<ch, signal, serverVars, callVars, monVars, keyVars, historyVars>>

(* Seeded fault: the name of the socket outlives the listener.              *)
CloseServerKeepsName ==
  /\ run \in {"close", "fail"}
  /\ run' = "keys"
  /\ IF srv \in {"open", "broken"}
       THEN /\ srv' = "closed"
            /\ conn' = [c \in Clients |-> IF conn[c] = "backlog" THEN "ended" ELSE conn[c]]
       ELSE UNCHANGED <<srv, conn>>
  /\ UNCHANGED <<ch, signal, named, call, method, monVars, keyVars, historyVars>>

(* What the kernel has not handed to Accept is reset with the listener.     *)
CloseServer ==
  /\ run \in {"close", "fail"}
  /\ run' = "keys"
  /\ named' = FALSE
  /\ IF srv \in {"open", "broken"}
       THEN /\ srv' = "closed"
            /\ conn' = [c \in Clients |-> IF conn[c] = "backlog" THEN "ended" ELSE conn[c]]
       ELSE UNCHANGED <<srv, conn>>
  /\ UNCHANGED <<ch, signal, call, method, monVars, keyVars, historyVars>>

(* Seeded fault: UnregisterAll forgets the hotkeys before it goes over them.*)
UnregisterNone ==
  /\ run = "keys"
  /\ run' = "stop"
  /\ UNCHANGED <<ch, signal, serverVars, callVars, monVars, keyVars, historyVars>>

(* Deferred calls, the last first.                                          *)
UnregisterAll ==
  /\ run = "keys"
  /\ held' = {}
  /\ run' = "stop"
  /\ UNCHANGED <<ch, signal, serverVars, callVars, monVars, combos, taken, historyVars>>

(* Monitor.Stop closes m.stop...                                            *)
StopMonitor ==
  /\ run = "stop"
  /\ stop' = TRUE
  /\ run' = "join"
  /\ UNCHANGED <<ch, signal, serverVars, callVars, mon, keyVars, historyVars>>

(* ... and waits for done.                                                  *)
Join ==
  /\ run = "join"
  /\ mon = "done"
  /\ run' = "release"
  /\ UNCHANGED <<ch, signal, serverVars, callVars, monVars, keyVars, historyVars>>

(* The process ends, whatever its other goroutines are doing: their         *)
(* connections are closed, and the system frees their chords.               *)
Ends ==
  /\ run' = "gone"
  /\ conn' = [c \in Clients |-> IF conn[c] = "none" THEN "none" ELSE "ended"]
  /\ combos' = [k \in Hotkey |-> <<>>]
  /\ taken' = {}
  /\ held' = {}
  /\ UNCHANGED <<ch, serverVars, call, method, monVars, ran>>

(* The lock is released and main returns.                                   *)
Exit ==
  /\ run = "release"
  /\ Ends
  /\ UNCHANGED <<signal, asked>>

(* SIGINT or SIGTERM.                                                       *)
Signal ==
  /\ Alive
  /\ asked' = TRUE
  /\ IF run \in Uncaught
       THEN Ends /\ UNCHANGED signal
       ELSE /\ signal' = TRUE
            /\ UNCHANGED <<run, ch, serverVars, callVars, monVars, keyVars, ran>>

(* SIGKILL, or a power loss.                                                *)
Kill ==
  /\ Alive
  /\ Ends
  /\ UNCHANGED <<signal, asked>>

-----------------------------------------------------------------------------
Client(c) == Dial(c) \/ Timeout(c) \/ Broken(c)
Serve(c)  == Accept(c) \/ Read(c) \/ ReadFails(c) \/ Handle(c) \/ Reply(c) \/ EndOfFile(c)
Listen    == Bind \/ BindFails \/ Register
Poller    == PollEnds \/ CallbackEnds \/ Tick \/ SeeStop
Leave     == \/ \E k \in Hotkey : RegisterHotkey(k)
             \/ FirstApply
             \/ LeaveSelect
             \/ ServerFailed
             \/ CloseServer
             \/ UnregisterAll
             \/ StopMonitor
             \/ Join
             \/ Exit

Next ==
  \/ \E c \in Clients : Client(c) \/ Serve(c)
  \/ Listen
  \/ AcceptFails
  \/ Poller
  \/ Leave
  \/ Signal
  \/ Kill

Spec == Init /\ [][Next]_vars

(* Goroutines run, and a select that keeps finding m.stop closed chooses it *)
(* in the end.  Nothing says that an ioreg ends, and nobody has to call.    *)
Fairness ==
  /\ WF_vars(Leave)
  /\ WF_vars(Listen)
  /\ WF_vars(CallbackEnds)
  /\ SF_vars(SeeStop)
  /\ \A c \in Clients : WF_vars(Serve(c))

FairSpec == Spec /\ Fairness

-----------------------------------------------------------------------------
KeysTypeOK ==
  /\ combos \in [Hotkey -> Combos \cup {<<>>}]
  /\ taken \subseteq Chords(Combos)
  /\ held \subseteq Chords(Combos)

(* Types: a connection exists exactly for the calls that got through, and   *)
(* a waiting client whose connection has not ended will find an answer.     *)
TypeOK ==
  /\ run \in Running
  /\ ch \in BOOLEAN
  /\ signal \in BOOLEAN
  /\ srv \in Serving
  /\ named \in BOOLEAN
  /\ call \in [Clients -> {"idle", "sent", "ok", "failed", "refused"}]
  /\ method \in [Clients -> Method]
  /\ conn \in [Clients -> Connection]
  /\ mon \in {"poll", "callback", "wait", "done"}
  /\ stop \in BOOLEAN
  /\ KeysTypeOK
  /\ ran \in [Clients -> Nat]
  /\ asked \in BOOLEAN
  /\ named => srv \in {"bound", "open", "broken"}
  /\ \A c \in Clients : conn[c] = "none" <=> call[c] \in {"idle", "refused"}

(* A request runs at most once, whatever times out; one that was answered   *)
(* has run, one that was refused has not and will not.  A client that gave  *)
(* up cannot tell.                                                          *)
AnsweredOnce ==
  \A c \in Clients :
    /\ ran[c] <= 1
    /\ call[c] = "ok" => ran[c] = 1
    /\ call[c] = "refused" => ran[c] = 0

(* One combo that is misspelt or in use elsewhere costs neither the daemon  *)
(* nor the other hotkey, and two spellings of one chord are one hotkey.     *)
HotkeysBestEffort ==
  run = "apply" => held = Chords({combos[k] : k \in Hotkey}) \ taken

(* A shutdown is neither lost nor made up: as long as Run has not left its  *)
(* select, a daemon that was asked to stop has it in shutdownCh or in its   *)
(* context, however early the request came and however many there were, and *)
(* one that was not asked has nothing there.                                *)
ShutdownIsHeard ==
  run \in Hotkey \cup {"apply", "select"} => (asked <=> ch \/ signal)

(* A daemon on its way out lets go of the system in this order: its chords  *)
(* before it waits for an ioreg that may hang, so that the next daemon can  *)
(* have them, and its polling goroutine, which could still write the        *)
(* setting, before it lets go of the lock.                                  *)
LetsGoInOrder ==
  /\ run \in {"stop", "join", "release"} => held = {}
  /\ run = "release" => mon = "done"

(* Whatever times out, breaks or ends when, callers see what Calls allows:  *)
(* no request runs twice, nobody is told "ok" of one that has not run, and  *)
(* one that found no daemon never runs.                                     *)
Promised == INSTANCE Calls WITH Callers <- Clients, call <- call, ran <- ran

ImplementsCalls == Promised!Spec

(* A shutdown that was handled, or a signal, ends the process, in whatever  *)
(* state it arrives, if no ioreg hangs.                                     *)
StopsWhenAsked ==
  []<>(mon # "poll") => (asked ~> ~Alive)

(* A daemon serves, or ends: one that cannot listen, or whose Accept fails  *)
(* at some moment, does not live on unseen.                                 *)
ServesOrLeaves ==
  []<>(mon # "poll") => (run = "select" ~> (srv = "open" \/ ~Alive))
=============================================================================

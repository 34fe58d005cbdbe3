--------------------------- MODULE ServiceProofs ----------------------------
(* Theorems about Service, for any set of clients and of combos.            *)
EXTENDS Service, TLAPS

(* Chords come from combos that are combos; <<>> is none.                   *)
LEMMA ChordsMonotonic ==
  ASSUME NEW w \in Combos \cup {<<>>}
  PROVE  Chords({w}) \subseteq Chords(Combos)
<1>1. ~WellFormed(<<>>)
  BY DEF WellFormed
<1> QED
  BY <1>1 DEF Chords

(* Every step preserves the types of the hotkeys.                           *)
LEMMA KeysTypeStep == KeysTypeOK /\ [Next]_vars => KeysTypeOK'
<1> SUFFICES ASSUME KeysTypeOK, [Next]_vars PROVE KeysTypeOK'
  OBVIOUS
<1>1. ASSUME UNCHANGED keyVars PROVE KeysTypeOK'
  BY <1>1 DEF keyVars, KeysTypeOK
<1>2. ASSUME NEW k \in Hotkey, RegisterHotkey(k) PROVE KeysTypeOK'
  <2>1. Chords({combos[k]}) \subseteq Chords(Combos)
    BY ChordsMonotonic DEF KeysTypeOK
  <2> QED
    BY <1>2, <2>1 DEF RegisterHotkey, KeysTypeOK
<1>3. CASE FirstApply \/ UnregisterAll \/ StopMonitor
  BY <1>3 DEF FirstApply, UnregisterAll, StopMonitor, KeysTypeOK, keyVars
<1>4. ASSUME Ends PROVE KeysTypeOK'
  BY <1>4 DEF Ends, KeysTypeOK
<1>5. ASSUME NEW c \in Clients, Client(c) \/ Serve(c) PROVE KeysTypeOK'
  BY <1>5, <1>1 DEF Client, Dial, Timeout, Broken, Serve, Accept, Read, ReadFails,
                    Handle, Reply, EndOfFile
<1>6. CASE Listen \/ AcceptFails \/ Poller \/ LeaveSelect \/ ServerFailed \/ CloseServer
           \/ Join
  BY <1>6, <1>1 DEF Listen, Bind, BindFails, Register, AcceptFails, Poller, PollEnds,
                    CallbackEnds, Tick, SeeStop, LeaveSelect, ServerFailed, CloseServer, Join
<1>7. CASE Signal \/ Kill \/ Exit
  BY <1>7, <1>1, <1>4 DEF Signal, Kill, Exit
<1>8. CASE UNCHANGED vars
  BY <1>8, <1>1 DEF vars
<1> QED
  BY <1>2, <1>3, <1>5, <1>6, <1>7, <1>8 DEF Next, Leave

(* Every step preserves the types: a connection exists exactly for the      *)
(* calls that got through, and the socket has a name only while it listens. *)
LEMMA TypeStep == TypeOK /\ [Next]_vars => TypeOK'
<1> SUFFICES ASSUME TypeOK, [Next]_vars PROVE TypeOK'
  OBVIOUS
<1>k. KeysTypeOK'
  BY KeysTypeStep DEF TypeOK
<1> USE <1>k DEF TypeOK, Running, Hotkey, Serving, Connection, Method, Conn, Knows,
            Alive, runVars, serverVars, callVars, monVars, historyVars
<1>1. ASSUME NEW c \in Clients, Client(c) PROVE TypeOK'
  BY <1>1 DEF Client, Dial, Timeout, Broken
<1>2. ASSUME NEW c \in Clients, Serve(c) PROVE TypeOK'
  <2>1. CASE Handle(c)
    <3>1. ch' \in BOOLEAN /\ asked' \in BOOLEAN
      BY <2>1 DEF Handle, Handled
    <3> QED
      BY <2>1, <3>1 DEF Handle, Handled
  <2>2. CASE Reply(c)
    BY <2>2 DEF Reply
  <2>3. CASE Accept(c) \/ Read(c) \/ ReadFails(c) \/ EndOfFile(c)
    BY <2>3 DEF Accept, Read, ReadFails, EndOfFile
  <2> QED
    BY <1>2, <2>1, <2>2, <2>3 DEF Serve
<1>9. CASE AcceptFails
  BY <1>9 DEF AcceptFails
<1>3. CASE Listen
  <2>1. named' \in BOOLEAN
    BY <1>3 DEF Listen, Bind, BindFails, Register
  <2> QED
    BY <1>3, <2>1 DEF Listen, Bind, BindFails, Register
<1>4. CASE Poller
  BY <1>4 DEF Poller, PollEnds, CallbackEnds, Tick, SeeStop
<1>5. CASE Leave
  <2>1. CASE FirstApply \/ ServerFailed \/ UnregisterAll \/ Join
    BY <2>1 DEF FirstApply, ServerFailed, UnregisterAll, Join
  <2>6. ASSUME NEW k \in Hotkey, RegisterHotkey(k) PROVE TypeOK'
    BY <2>6 DEF RegisterHotkey, NextHotkey
  <2>2. CASE LeaveSelect
    <3>1. ch' \in BOOLEAN
      BY <2>2 DEF LeaveSelect
    <3> QED
      BY <2>2, <3>1 DEF LeaveSelect
  <2>3. CASE CloseServer
    <3>1. named' \in BOOLEAN
      BY <2>3 DEF CloseServer
    <3> QED
      BY <2>3, <3>1 DEF CloseServer
  <2>4. CASE StopMonitor
    <3>1. stop' \in BOOLEAN
      BY <2>4 DEF StopMonitor
    <3> QED
      BY <2>4, <3>1 DEF StopMonitor
  <2>5. CASE Exit
    BY <2>5 DEF Exit, Ends
  <2> QED
    BY <1>5, <2>1, <2>2, <2>3, <2>4, <2>5, <2>6 DEF Leave
<1>6. CASE Signal
  <2>1. asked' \in BOOLEAN /\ signal' \in BOOLEAN
    BY <1>6 DEF Signal, Ends
  <2>2. CASE run \in Uncaught
    BY <1>6, <2>1, <2>2 DEF Signal, Ends
  <2>3. CASE run \notin Uncaught
    BY <1>6, <2>1, <2>3 DEF Signal
  <2> QED
    BY <2>2, <2>3
<1>7. CASE Kill
  BY <1>7 DEF Kill, Ends
<1>8. CASE UNCHANGED vars
  BY <1>8 DEF vars
<1> QED
  BY <1>1, <1>2, <1>3, <1>4, <1>5, <1>6, <1>7, <1>8, <1>9 DEF Next

(* Type correctness of the calls, the server, Run and the monitor.          *)
THEOREM TypeCorrect == Spec => []TypeOK
<1>1. ASSUME Init PROVE TypeOK
  <2>1. ch \in BOOLEAN /\ signal \in BOOLEAN /\ named \in BOOLEAN
        /\ stop \in BOOLEAN /\ asked \in BOOLEAN
    BY <1>1 DEF Init
  <2>2. ran \in [Clients -> Nat]
    BY <1>1 DEF Init
  <2> QED
    BY <1>1, <2>1, <2>2 DEF Init, TypeOK, KeysTypeOK, Running, Hotkey, Serving, Connection
<1> QED
  BY <1>1, TypeStep, PTL DEF Spec

-----------------------------------------------------------------------------
(* Why a request runs at most once: it has not run until the server is past *)
(* handling it, and the server does not come back to it.                    *)
CallInv ==
  \A c \in Clients :
    /\ ran[c] \in {0, 1}
    /\ conn[c] \in {"none", "backlog", "read", "handle"} => ran[c] = 0
    /\ conn[c] \in {"reply", "next"} => ran[c] = 1
    /\ call[c] = "ok" => ran[c] = 1 /\ conn[c] \in {"next", "ended"}

(* Every step preserves CallInv.                                            *)
LEMMA CallStep == TypeOK /\ CallInv /\ [Next]_vars => CallInv'
<1> SUFFICES ASSUME TypeOK, CallInv, [Next]_vars PROVE CallInv'
  OBVIOUS
<1> USE DEF TypeOK, CallInv, Connection, Conn, Knows,
            runVars, serverVars, callVars, monVars, keyVars, historyVars
<1>1. ASSUME NEW c \in Clients, Client(c) PROVE CallInv'
  BY <1>1 DEF Client, Dial, Timeout, Broken
<1>2. ASSUME NEW c \in Clients, Serve(c) PROVE CallInv'
  <2>1. CASE Handle(c)
    BY <2>1 DEF Handle, Handled
  <2>2. CASE Reply(c)
    BY <2>2 DEF Reply
  <2>3. CASE Accept(c) \/ Read(c) \/ ReadFails(c) \/ EndOfFile(c)
    BY <2>3 DEF Accept, Read, ReadFails, EndOfFile
  <2> QED
    BY <1>2, <2>1, <2>2, <2>3 DEF Serve
<1>3. ASSUME UNCHANGED <<call, conn, ran>> PROVE CallInv'
  BY <1>3
<1>4. ASSUME Ends PROVE CallInv'
  BY <1>4 DEF Ends
<1>5. CASE CloseServer
  BY <1>5 DEF CloseServer
<1>6. CASE Listen \/ AcceptFails \/ Poller
  BY <1>6, <1>3 DEF Listen, Bind, BindFails, Register, AcceptFails,
                    Poller, PollEnds, CallbackEnds, Tick, SeeStop
<1>11. ASSUME NEW k \in Hotkey, RegisterHotkey(k) PROVE CallInv'
  BY <1>11, <1>3 DEF RegisterHotkey
<1>7. CASE FirstApply \/ LeaveSelect \/ ServerFailed \/ UnregisterAll \/ StopMonitor \/ Join
  BY <1>7, <1>3 DEF FirstApply, LeaveSelect, ServerFailed, UnregisterAll, StopMonitor, Join
<1>8. CASE Exit \/ Kill
  BY <1>8, <1>4 DEF Exit, Kill
<1>9. CASE Signal
  BY <1>9, <1>3, <1>4 DEF Signal
<1>10. CASE UNCHANGED vars
  BY <1>10, <1>3 DEF vars
<1> QED
  BY <1>1, <1>2, <1>5, <1>6, <1>7, <1>8, <1>9, <1>10, <1>11 DEF Next, Leave

-----------------------------------------------------------------------------
(* Every step of Service is a step of Calls or leaves its callers alone.    *)
(* That a request is performed once, and before it is answered, is CallInv; *)
(* that a connection has a caller who sent something is in the types.       *)
LEMMA PromisedStep == TypeOK /\ CallInv /\ [Next]_vars => [Promised!Next]_Promised!vars
<1> SUFFICES ASSUME TypeOK, CallInv, [Next]_vars
             PROVE  Promised!Next \/ UNCHANGED <<call, ran>>
  BY DEF Promised!vars
<1> USE DEF runVars, serverVars, callVars, monVars, keyVars, historyVars
<1>1. ASSUME NEW c \in Clients, Client(c) PROVE Promised!Next
  <2>1. Promised!Send(c) \/ Promised!Refuse(c) \/ Promised!GiveUp(c)
    BY <1>1 DEF Client, Dial, Timeout, Broken, Knows, Promised!Send, Promised!Refuse,
                Promised!GiveUp, Promised!Learns
  <2> QED
    BY <2>1 DEF Promised!Next
<1>2. ASSUME NEW c \in Clients, Handle(c) PROVE Promised!Next
  <2>1. call[c] \in {"sent", "failed"} /\ ran[c] = 0
    BY <1>2 DEF Handle, TypeOK, CallInv
  <2>2. ran' = [ran EXCEPT ![c] = 1] /\ UNCHANGED call
    BY <1>2, <2>1 DEF Handle, Handled
  <2>3. Promised!Perform(c)
    BY <2>1, <2>2 DEF Promised!Perform
  <2> QED
    BY <2>3 DEF Promised!Next
<1>3. ASSUME NEW c \in Clients, Reply(c) PROVE Promised!Next \/ UNCHANGED <<call, ran>>
  <2>1. CASE call[c] = "sent"
    <3>1. Promised!Answer(c)
      BY <1>3, <2>1 DEF Reply, Knows, CallInv, Promised!Answer, Promised!Learns
    <3> QED
      BY <3>1 DEF Promised!Next
  <2>2. CASE call[c] # "sent"
    BY <1>3, <2>2 DEF Reply
  <2> QED
    BY <2>1, <2>2
<1>4. ASSUME NEW c \in Clients, Accept(c) \/ Read(c) \/ ReadFails(c) \/ EndOfFile(c)
      PROVE  UNCHANGED <<call, ran>>
  BY <1>4 DEF Accept, Read, ReadFails, EndOfFile
<1>5. CASE Listen \/ AcceptFails \/ Poller
  BY <1>5 DEF Listen, Bind, BindFails, Register, AcceptFails,
              Poller, PollEnds, CallbackEnds, Tick, SeeStop
<1>6. CASE Leave
  BY <1>6 DEF Leave, RegisterHotkey, FirstApply, LeaveSelect,
              ServerFailed, CloseServer, UnregisterAll, StopMonitor, Join, Exit, Ends
<1>7. CASE Signal \/ Kill
  BY <1>7 DEF Signal, Kill, Ends
<1>8. CASE UNCHANGED vars
  BY <1>8 DEF vars
<1> QED
  BY <1>1, <1>2, <1>3, <1>4, <1>5, <1>6, <1>7, <1>8 DEF Next, Serve

(* Service implements Calls, for any clients, deadlines, signals and kills. *)
THEOREM ImplementsCallsHolds == Spec => ImplementsCalls
<1>1. Init => CallInv
  BY DEF Init, CallInv
<1>2. Init => Promised!Init
  BY DEF Init, Promised!Init
<1> QED
  BY <1>1, <1>2, CallStep, TypeCorrect, PromisedStep, PTL
  DEF Spec, ImplementsCalls, Promised!Spec

(* Why Calls keeps its promise: a request that was never sent has not run,  *)
(* and one is performed only as long as it has not run.                     *)
PromiseInv ==
  /\ call \in [Clients -> {"idle", "sent", "ok", "failed", "refused"}]
  /\ ran \in [Clients -> {0, 1}]
  /\ \A c \in Clients :
       /\ call[c] = "ok" => ran[c] = 1
       /\ call[c] \in {"idle", "refused"} => ran[c] = 0

(* Whatever implements Calls runs a request at most once, tells nobody that *)
(* it ran unless it did, and never runs one that was refused.               *)
THEOREM PromiseKept == Promised!Spec => []AnsweredOnce
<1>1. Promised!Init => PromiseInv
  BY DEF Promised!Init, PromiseInv
<1>2. PromiseInv /\ [Promised!Next]_Promised!vars => PromiseInv'
  <2> SUFFICES ASSUME PromiseInv, [Promised!Next]_Promised!vars PROVE PromiseInv'
    OBVIOUS
  <2> USE DEF PromiseInv, Promised!Learns
  <2>1. ASSUME NEW c \in Clients, Promised!Send(c) \/ Promised!Refuse(c) PROVE PromiseInv'
    BY <2>1 DEF Promised!Send, Promised!Refuse
  <2>2. ASSUME NEW c \in Clients, Promised!Perform(c) PROVE PromiseInv'
    BY <2>2 DEF Promised!Perform
  <2>3. ASSUME NEW c \in Clients, Promised!Answer(c) \/ Promised!GiveUp(c) PROVE PromiseInv'
    BY <2>3 DEF Promised!Answer, Promised!GiveUp
  <2>4. CASE UNCHANGED Promised!vars
    BY <2>4 DEF Promised!vars
  <2> QED
    BY <2>1, <2>2, <2>3, <2>4 DEF Promised!Next
<1>3. PromiseInv => AnsweredOnce
  BY DEF PromiseInv, AnsweredOnce
<1> QED
  BY <1>1, <1>2, <1>3, PTL DEF Promised!Spec

(* So does the service: a request runs at most once, and its client is told *)
(* so only if it did.                                                       *)
THEOREM AnsweredOnceHolds == Spec => []AnsweredOnce
BY ImplementsCallsHolds, PromiseKept, PTL DEF ImplementsCalls

-----------------------------------------------------------------------------
(* Every step preserves ShutdownIsHeard: a request leaves its value before  *)
(* it counts as handled, a signal that is caught cancels the context and    *)
(* one that is not ends the process, and only Run, as it leaves its select, *)
(* takes anything away.                                                     *)
LEMMA HeardStep == ShutdownIsHeard /\ [Next]_vars => ShutdownIsHeard'
<1> SUFFICES ASSUME ShutdownIsHeard, [Next]_vars PROVE ShutdownIsHeard'
  OBVIOUS
<1> USE DEF ShutdownIsHeard, Hotkey
<1>1. ASSUME UNCHANGED <<runVars, asked>> PROVE ShutdownIsHeard'
  BY <1>1 DEF runVars
<1>2. ASSUME NEW c \in Clients, Handle(c) PROVE ShutdownIsHeard'
  BY <1>2 DEF Handle, Handled
<1>3. ASSUME NEW c \in Clients, Client(c) PROVE ShutdownIsHeard'
  BY <1>3, <1>1 DEF Client, Dial, Timeout, Broken, historyVars
<1>4. ASSUME NEW c \in Clients,
             Accept(c) \/ Read(c) \/ ReadFails(c) \/ Reply(c) \/ EndOfFile(c)
      PROVE  ShutdownIsHeard'
  BY <1>4, <1>1 DEF Accept, Read, ReadFails, Reply, EndOfFile, historyVars
<1>5. CASE Listen \/ AcceptFails \/ Poller
  BY <1>5, <1>1 DEF Listen, Bind, BindFails, Register, AcceptFails, Poller, PollEnds,
                    CallbackEnds, Tick, SeeStop, historyVars
<1>6. CASE Leave
  BY <1>6 DEF Leave, RegisterHotkey, NextHotkey, FirstApply, LeaveSelect, ServerFailed,
              CloseServer, UnregisterAll, StopMonitor, Join, Exit, Ends, historyVars
<1>7. CASE Signal
  BY <1>7 DEF Signal, Ends, Uncaught
<1>8. CASE Kill
  BY <1>8 DEF Kill, Ends
<1>9. CASE UNCHANGED vars
  BY <1>9, <1>1 DEF vars, historyVars
<1> QED
  BY <1>2, <1>3, <1>4, <1>5, <1>6, <1>7, <1>8, <1>9 DEF Next, Serve

(* No shutdown is lost on its way to Run's select, and none is made up.     *)
THEOREM ShutdownIsHeardHolds == Spec => []ShutdownIsHeard
<1>1. Init => ShutdownIsHeard
  BY DEF Init, ShutdownIsHeard
<1> QED
  BY <1>1, HeardStep, PTL DEF Spec

-----------------------------------------------------------------------------
(* The polling goroutine does not come back once it is done, and Run does   *)
(* not reach the release of the lock before that.                           *)
JoinInv == run = "release" => mon = "done"

(* Every step preserves JoinInv.                                            *)
LEMMA JoinStep == JoinInv /\ [Next]_vars => JoinInv'
<1> SUFFICES ASSUME JoinInv, [Next]_vars PROVE JoinInv'
  OBVIOUS
<1> USE DEF JoinInv, runVars, monVars, serverVars, callVars, keyVars, historyVars
<1>1. ASSUME NEW c \in Clients, Client(c) \/ Serve(c) PROVE JoinInv'
  BY <1>1 DEF Client, Dial, Timeout, Broken,
              Serve, Accept, Read, ReadFails, Handle, Reply, EndOfFile
<1>2. CASE Listen \/ AcceptFails \/ Poller
  BY <1>2 DEF Listen, Bind, BindFails, Register, AcceptFails,
              Poller, PollEnds, CallbackEnds, Tick, SeeStop
<1>3. CASE Leave
  BY <1>3 DEF Leave, RegisterHotkey, NextHotkey, FirstApply, LeaveSelect,
              ServerFailed, CloseServer, UnregisterAll, StopMonitor, Join, Exit, Ends
<1>4. CASE Signal \/ Kill
  BY <1>4 DEF Signal, Kill, Ends
<1>5. CASE UNCHANGED vars
  BY <1>5 DEF vars
<1> QED
  BY <1>1, <1>2, <1>3, <1>4, <1>5 DEF Next

-----------------------------------------------------------------------------
(* After the first of the two, what it could register is registered.        *)
KeysInv ==
  /\ run = "pause" => held = {}
  /\ run = "direction" => held = Chords({combos["pause"]}) \ taken
  /\ HotkeysBestEffort
  /\ run \in {"stop", "join", "release"} => held = {}

(* Every step preserves KeysInv.                                            *)
LEMMA KeysStep == KeysInv /\ [Next]_vars => KeysInv'
<1> SUFFICES ASSUME KeysInv, [Next]_vars PROVE KeysInv'
  OBVIOUS
<1> USE DEF KeysInv, HotkeysBestEffort
<1>1. ASSUME UNCHANGED <<run, combos, taken, held>> PROVE KeysInv'
  BY <1>1
<1>2. ASSUME NEW k \in Hotkey, RegisterHotkey(k) PROVE KeysInv'
  <2>1. CASE k = "pause"
    BY <1>2, <2>1 DEF RegisterHotkey, NextHotkey
  <2>2. CASE k = "direction"
    <3>1. Chords({combos[j] : j \in Hotkey})
            = Chords({combos["pause"]}) \cup Chords({combos["direction"]})
      BY DEF Chords, Hotkey
    <3>2. held' = (Chords({combos["pause"]}) \cup Chords({combos["direction"]})) \ taken
      BY <1>2, <2>2 DEF RegisterHotkey
    <3>3. run' = "apply" /\ UNCHANGED <<combos, taken>>
      BY <1>2, <2>2 DEF RegisterHotkey, NextHotkey
    <3> QED
      BY <3>1, <3>2, <3>3
  <2> QED
    BY <2>1, <2>2 DEF Hotkey
<1>3. CASE FirstApply \/ LeaveSelect \/ ServerFailed \/ CloseServer \/ UnregisterAll
           \/ StopMonitor \/ Join
  BY <1>3 DEF FirstApply, LeaveSelect, ServerFailed, CloseServer, UnregisterAll,
              StopMonitor, Join, keyVars
<1>4. ASSUME Ends PROVE KeysInv'
  BY <1>4 DEF Ends
<1>5. ASSUME NEW c \in Clients, Client(c) \/ Serve(c) PROVE KeysInv'
  BY <1>5, <1>1 DEF Client, Dial, Timeout, Broken, Serve, Accept, Read, ReadFails,
                    Handle, Reply, EndOfFile, runVars, keyVars
<1>6. CASE Listen \/ AcceptFails \/ Poller
  BY <1>6, <1>1 DEF Listen, Bind, BindFails, Register, AcceptFails, Poller, PollEnds,
                    CallbackEnds, Tick, SeeStop, runVars, keyVars
<1>7. CASE Signal \/ Kill \/ Exit
  BY <1>7, <1>1, <1>4 DEF Signal, Kill, Exit, keyVars
<1>8. CASE UNCHANGED vars
  BY <1>8, <1>1 DEF vars, runVars, keyVars
<1> QED
  BY <1>2, <1>3, <1>5, <1>6, <1>7, <1>8 DEF Next, Leave

(* KeysInv is an invariant.                                                 *)
LEMMA KeysInvariant == Spec => []KeysInv
<1>1. Init => KeysInv
  BY DEF Init, KeysInv, HotkeysBestEffort
<1> QED
  BY <1>1, KeysStep, PTL DEF Spec

(* Whatever the config says and other programs use, every hotkey that can   *)
(* be had is registered.                                                    *)
THEOREM HotkeysBestEffortHolds == Spec => []HotkeysBestEffort
<1>1. KeysInv => HotkeysBestEffort
  BY DEF KeysInv
<1> QED
  BY <1>1, KeysInvariant, PTL

(* A daemon gives its chords back before it waits for anything on its way   *)
(* out, and releases the lock when its polling goroutine has ended.         *)
THEOREM LetsGoInOrderHolds == Spec => []LetsGoInOrder
<1>1. Init => JoinInv
  BY DEF Init, JoinInv
<1>2. KeysInv /\ JoinInv => LetsGoInOrder
  BY DEF KeysInv, JoinInv, LetsGoInOrder
<1> QED
  BY <1>1, <1>2, JoinStep, KeysInvariant, PTL DEF Spec

-----------------------------------------------------------------------------
(* What the hotkey library is asked for has one modifier for each word of   *)
(* the combo but the last, the one the word spells: no spelling is of two,  *)
(* none is dropped, and a repetition stays one.                             *)
THEOREM EveryWordCounts ==
  ASSUME NEW words \in Seq(STRING), WellFormed(words)
  PROVE  /\ Parse(words) \in Parsed
         /\ Len(Parse(words).mods) = Len(words) - 1
         /\ \A i \in 1..(Len(words) - 1), m \in Modifier :
              words[i] \in Spelling[m] <=> Parse(words).mods[i] = m
<1> DEFINE n == Len(words)
           f == [i \in 1..(n - 1) |-> CHOOSE m \in Modifier : words[i] \in Spelling[m]]
<1>1. n - 1 \in Nat
  BY DEF WellFormed
<1>2. \A i \in 1..(n - 1) : f[i] \in Modifier /\ words[i] \in Spelling[f[i]]
  BY DEF WellFormed, IsModifier
<1>3. \A w, l, m : l \in Modifier /\ m \in Modifier /\ w \in Spelling[l]
                     /\ w \in Spelling[m] => l = m
  BY DEF Modifier, Spelling
<1>4. f \in Seq(Modifier) /\ Len(f) = n - 1
  <2>1. f \in [1..(n - 1) -> Modifier]
    BY <1>2
  <2>2. ASSUME NEW k \in Nat, NEW g \in [1..k -> Modifier]
        PROVE  g \in Seq(Modifier) /\ Len(g) = k
    OBVIOUS
  <2> QED
    BY <1>1, <2>1, <2>2
<1>5. Parse(words) = [mods |-> f, key |-> KeyOf(words[n])]
  BY DEF Parse
<1>6. KeyOf(words[n]) \in Key
  BY DEF WellFormed
<1> HIDE DEF f
<1>7. Parse(words).mods = f /\ Parse(words) \in Parsed
  BY <1>4, <1>5, <1>6 DEF Parsed
<1> QED
  BY <1>2, <1>3, <1>4, <1>7

(* So what is registered always has a modifier: no combo takes a plain key  *)
(* away from the other programs.                                            *)
THEOREM NoPlainKey ==
  ASSUME NEW words \in Seq(STRING), WellFormed(words)
  PROVE  Parse(words).mods # <<>>
<1>1. Len(words) - 1 >= 1
  BY DEF WellFormed
<1> QED
  BY <1>1, EveryWordCounts
=============================================================================

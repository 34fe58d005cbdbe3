# macscrollswap in TLA+

macscrollswap is a macOS daemon that switches the scroll direction between two
targets, one for when a Bluetooth mouse is connected and one for when none is.
It is a few hundred lines of Go, but six kinds of goroutine share its state, the
setting it manages is shared with the rest of the system, and its files outlive
it. That is what these modules are about.

    Daemon.tla             the goroutines and the setting they write
    Intent.tla             what a daemon may write; Daemon implements it
    DaemonProofs.tla       theorems about Daemon, the refinement among them
    Service.tla            hotkeys, calls over the control socket, and the end of a daemon
    Calls.tla              what a caller may conclude; Service implements it
    Hotkeys.tla            what a combo means, used by Service
    ServiceProofs.tla      theorems about Service and Hotkeys, the refinement among them
    PlistParse.tla         how the monitor reads what ioreg prints
    PlistParseProofs.tla   theorems about PlistParse
    ConfigFile.tla         the two targets on disk: load, repair, save, stop, crash
    ConfigFileProofs.tla   theorems about ConfigFile
    InstanceLock.tla       daemon.lock and daemon.sock between several processes
    InstanceLockProofs.tla theorems about InstanceLock
    Succession.tla         InstanceLock composed with the config of each process
    SuccessionProofs.tla   theorems about the composition
    LaunchAgent.tla        install, uninstall, stop, restart, and launchd
    LaunchAgentProofs.tla  theorems about LaunchAgent
    MC*.tla, *.cfg         instances for TLC

Run `tlc -config <cfg> <MC module>.tla` or `tlapm <...>Proofs.tla` here.
`PROJECT.json` maps every definition to its source lines and lists the runs.

## Inventory

| Component | State it keeps | Operations | What must hold |
|---|---|---|---|
| `internal/daemon` | `paused`, `mouseConnected`, `appliedNatural`/`appliedKnown`, the targets in `cfg`, all under `d.mu` | `New`, `Run`, `onMouseChange`, `apply`, two hotkey callbacks, eight RPC methods | every change is applied, the setting ends up at the target, a pause holds |
| `internal/scroller` | none; the system's direction in force and its preference | `Get` reads the preference, `Set` writes first the one, then the other | the two agree |
| `internal/btmonitor` | cached `connected`, `running`, `stop`, `done` | `Start`, `Stop`, poll loop, ioreg plist parser | transitions reported once and in order; the parser finds every Bluetooth mouse |
| `internal/config` | `config.json` | `Load`, `Save`, `Default` | what is saved can be loaded and is what was in memory |
| single instance (`AcquireLock`) | `daemon.lock` | acquire, release | one daemon at a time |
| `internal/ctlsock` | listener, `closed`, `daemon.sock`; connections | `ListenAndServe`, `Close`, `serve`, `Call` | the running daemon is the one clients reach; a reply belongs to its request |
| `internal/hotkey` | registered hotkeys | `Register`, `UnregisterAll`, `Parse` | one callback at a time per key; combos mean what they say |
| `internal/notify` | none | `Notify`, `Beep` | they end (three-second timeout) |
| `internal/launchd` | the LaunchAgent plist, launchd's own record | `Install`, `Uninstall`, `Status` | what is reported is what launchd does |
| `cmd/macscrollswap` | none | subcommands | order of lock, run and release |

How they interact. `runDaemon` loads the config, takes the lock, builds a
`Daemon` and calls `Run`. `Run` starts the monitor's goroutine, which calls
`onMouseChange`; two hotkey goroutines, which call the toggle and the swap; and
the server, which starts a goroutine per connection, which calls `handle`. All of
them end in `apply()`, and `Run` calls it once itself. `apply()` takes a snapshot
under `d.mu`, releases it, and then reads and writes the system setting.
Handlers that change targets call `cfg.Save()`, also without the mutex.

What is hard: applies overlap; the pause is checked before the write and not
at it; a record of what was applied is made after the write; live direction and
preference are two writes; saves overlap and are not atomic; the process ends
without waiting for its goroutines; a lock file is unlinked by name while another
process may have it open; the config is read before that lock is taken; install
and uninstall are sequences of steps that fail one by one, against a launchd that
keeps a record of its own. `PROJECT.json` lists each at its line.

## Daemon

One action is one critical section of `d.mu` or one call into the system; between
two of them every other goroutine may run. `pc[w]` says where goroutine `w` is:

    "snap"      apply() has been called and has not read the state
    "get"       it read the state and will verify before skipping
    "live"      it is about to call CGSSetSwipeScrollDirection
    "pref"      it is about to store and synchronise the preference
    "rec"       it is about to record appliedNatural
    "reset"     a swap is between its two critical sections
    "changed"   the monitor is about to call onMouseChange

| Code | Model |
|---|---|
| `d.paused`, `d.mouseConnected`, `d.cfg`'s two targets | `paused`, `mouse`, `when` |
| `appliedNatural`, `appliedKnown` | `applied`, `Unknown` when not known |
| `m.connected` | `polled` |
| the WindowServer's direction, `com.apple.swipescrolldirection` | `live`, `pref` |
| `Run`'s first `apply()` | goroutine `Main`, which starts at "snap" |
| `loop`, `onMouseChange` | `InitialPoll`, `Poll`, `OnMouseChange`, goroutine `Mon` |
| hotkeys | `TogglePause(w)` for `w \in PauseKeys`, `SwapTargets(w)` for `w \in SwapKeys` |
| `handle` | `Request(w)` for `w \in Conns` |
| `apply()` | `SnapshotPaused`, `Snapshot`, `VerifySkips`, `VerifyWrites`, `SetLive`, `SetPref`, `SetPrefFails`, `Record` |

`lastSnap` and `calm` are history: the target of the latest snapshot, and whether
that snapshot met no write of another direction under way and nothing (a writer of
another direction, a failure, a change from outside) has spoiled it since. `Get` of the real scroller never
returns an error, so there is no action for one. `Status` and `GetDirection`
change nothing and have no action.

What holds:

- `NoLostTrigger`: while not paused, whenever the target differs from what the
  latest apply read, some goroutine still has an apply to make.
- `AgreedApplyHeals`: an apply that met no write of another direction leaves the
  preference at the target once all is quiet, whatever went wrong before; writes of
  one direction may overlap. This is what the `Get` before a skip is for; without it
  the property fails.
- `ResumeSeesDevice`: connects and disconnects are tracked while paused.
- `PauseAdmitsNoWriter`: while paused no goroutine starts towards a write, and once
  those under way are through, only others touch the setting.
- `ChangesPickedUp`, `Settles`: the same as liveness.
- `ImplementsIntent`: Daemon implements `Intent`, in which every write is an errand
  that a goroutine took on while not paused, carrying the direction that was the
  target at that moment. Changes from outside are switched off in this run, so that
  none of them can stand for a write of the daemon; the theorem holds with and
  without. The mapping: the target is `Target`, and the errand of `w`
  is `tgt[w]`, the local variable of `apply()`. Intent has no records, no
  verification and no mutex, so this is what those three may do at most.

What the documents say and the code does not do:

- `Converged`: at startup, and whenever two applies overlap, the older target can
  be written last, and nothing corrects it until the next event.
- `PausedMeansUntouched`: an apply under way when the pause arrives still writes.
- `LiveMatchesPref`: two overlapping writes can leave the direction in force and
  the preference different, and the verifying `Get` sees only the preference.

Fairness is weak fairness on a goroutine's own steps only: critical sections are
short, `Get` and `Set` are plain C calls and `osascript` is killed after three
seconds. Key presses, requests and polls are not fair: nobody has to press
anything, and `ioreg` has no timeout. `Settles` therefore assumes that inputs
cease; it does not assume that they stop at a good moment.

Bounds. `DaemonKeys.cfg`: Main, the monitor and both hotkeys, which is every
goroutine of a daemon that nobody calls. `DaemonLive.cfg`: Main, the monitor and one
connection that sends any request, for the liveness properties and Intent. Directions and
device states are the two of the code and nothing counts, so the number of
goroutines is the only bound, and the safety theorems hold for any number of
hotkeys and connections.

## ConfigFile

`New` (goroutine `Boot`) loads the file or captures the baseline, repairs
identical targets and saves; handlers change `mem` in one step (their critical
section) and then save in four: the two field reads of `json.MarshalIndent`, and
the two system calls of `os.WriteFile`, truncate and write. A write replaces as
many bytes as it has, so a shorter document over a longer one leaves a tail
(`Garbage`); `false` is one byte longer than `true`, which is why that happens.
`Shutdown` and `Crash` end the process whatever its goroutines are doing: `Run`
waits for the monitor only. A file that does not parse has no `Load`: the process
exits with 1, and the run allows that deadlock (`CHECK_DEADLOCK FALSE`).

Abstracted: the other settings, which no handler changes; a write that fails
writes nothing; files nobody but the daemon writes.

`alone` is history: the latest save to begin met no other and nothing failed since.

- `SoloSaveHeals`: after such a save, and once no other is due, the file is what
  memory holds, whatever torn, reordered or failed saves came before.
- `ClientsCanLoad`: a command, which loads the file only to find the socket, fails
  only while a save is under way, or after one that failed or met another.
- `RestartKeepsTargets`: a daemon that ends then is followed by one that loads
  the same targets.
- `TwinsHaveCause`: the targets become identical, which makes the daemon useless, only
  where somebody sets them so, at the first launch, or where a daemon loads what a
  failed save or two that met have left. daemon.go:93 repairs identical targets "e.g.
  from repeated direction swaps": it takes swaps whose saves meet to make any.
- `RestartsAfterStop` (refuted): a shutdown between the two system calls leaves
  an empty file, and launchd restarts a daemon that exits for ever.

Bounds: two handlers, each with one save under way, as many changes, failures,
stops and restarts as they like.

Identical targets survive until a restart, when `Repair` changes one of them or, if
the setting in force is the same, neither. The code and its documents do not say
whether the user's choice or the repair should win, and no property does.

## InstanceLock

Processes open `daemon.lock`, lock the file they opened, run, and release: unlock,
close, unlink by name. `name` is the file that has the name, `owner` who locked
each file, `fd` which file a process has open. `srv` is the goroutine of
`ListenAndServe`, with its three steps before `Accept`; `sock` is whose listener
has the name `daemon.sock`, and `Accept` may fail later (`AcceptFails`), upon which
`Run` closes it and leaves. A crash at any moment, or an `os.Exit` past the deferred
release, drops the locks and leaves the files. `FlockRefused` is any error of flock:
the code reports each as another instance that is running, whether there is one or
not. `handover` and `early` are history and name the two races:

- a lock taken between another's `LOCK_UN` and its `Remove`, or on a file so
  removed;
- `Close` before `ListenAndServe` has stored its listener.

- `SingleUnlessHandover`, `SocketIsServed`: without the races, one daemon runs, it can
  bind the socket, and once it accepts connections it is the one clients reach.
- `SingleInstance` (refuted): with the first race two daemons run.

A process that has released the lock is at "remove" and then at "exit": main has
not returned, and its other goroutines still run.

Bounds: one launchd-managed and one manual process, each restarted without limit,
and two files: who opens has no file open, so the other's and a new one are all
there can be. Two processes are enough for both races because a process that has
ended may be started again.

## Succession

The composition of InstanceLock with the config: `runDaemon` loads before it locks
(`Load` is `Start` with `mem'[p] = disk`), and New and the handlers change and save
(`Change`) from the lock until main returns, `Run` waiting for none of them. A
change and its save are one step; ConfigFile takes them apart for one process. A
handler goes on when its save fails, so `Change` may leave anything on disk, `Torn`
included, a file that cannot be loaded; with that a process exits at once, which
changes nothing, so `Load` waits until the file can be loaded. All other steps are
those of InstanceLock, so `SpecAll` implements its `Spec`, and the run checks
InstanceLock's properties here, in their composition.

- `LoadedIsCurrent`: a daemon that runs has in memory what is on disk, so that its
  next save takes nothing back, unless one of these happened: the lock was given up
  between its own load and its lock, its own latest save left something else (both
  are `apart`, which ends with its next save that goes through), some process saved
  after its release (`late`), or there was a handover. They are the ways in which a
  setting the user changed is silently lost across a restart; launchd restarts at
  once, so the first and the third (`main.go:87` before `main.go:96`,
  `daemon.go:425`) need only a handler that is still in its notification.
- `SavesBuildOnTheLast` (a theorem only): the same of each save: whoever changes and
  saves the config had in memory what was on disk, with the same exceptions.
- `KeptReachable`: once left alone (`left`: from an arbitrary state on, nobody stops or
  kills a daemon any more, and no call of one fails without a reason that is in the
  model), and unless one of the two races of InstanceLock happens, some daemon ends up
  reachable; provided that the config on disk can be loaded again and again, for with
  one that cannot (`RestartsAfterStop` shows how it comes about) launchd starts a
  daemon for ever in vain. Fairness: a started process keeps running, and launchd
  restarts the processes in `Managed` (`KeepAlive` in the plist). Left alone, the
  daemons come to rest: all serve or have been refused, and nothing is left to do,
  hence `CHECK_DEADLOCK FALSE`.

Bounds: those of InstanceLock, and two settings, which are enough to differ.

## LaunchAgent

Each command is its sequence of steps: `Install` unloads, writes, loads; `Uninstall`
looks for the plist, unloads, removes; `stop` sends Shutdown, looks for the plist and
asks launchd; `restart` looks for the plist and kickstarts. `job` is the executable
launchd has on record, `up` the daemon it runs, `plist` what the file names, `Torn`
when a write broke off. Any step may fail, or Ctrl-C (`Abort`) fall before it, and
another command may run meanwhile. launchd starts what it has on record and nothing
runs (`Spawn`: RunAtLoad and KeepAlive); `Login` forgets the record and loads the
plist. launchctl is external and modelled from its use: `unload` finds the job
through the plist, `load` refuses a job that is loaded, and the exit status tells
what happened. Daemons started by hand belong to InstanceLock.

An orphan is a job that the plist does not describe: `restart` and `stop` go by the
plist, and take it for no agent or for another build. `alone`, `blind`, `told` and
`unsure` are history: no two commands have overlapped since all were idle last; an
unload has failed since although there was a job; the latest `stop` printed no note
that launchd will start the daemon again; and it printed none because it could not
look, although there was a job.

- `OrphansHaveCause`: orphans come from a failed unload or from two commands at once,
  never from failed writes, interruptions or logins. main.go:206 says of
  `uninstall` that it is "to stop for good": these are its exceptions, since
  `Uninstall` removes the plist whether the unload worked or not.
- `StoppedForGood`: after a `stop` without the note the daemon is not seen again before
  an install or a login, although the two looks of `Status` are not one; with two
  exceptions that main.go:203 ("If launchd owns the daemon, warn the user it'll come
  back") does not make: an orphan whose plist is gone, at whose job `Status` does not
  look, and a look that fails (`launchctl list` failing for whatever reason passes
  for no job). In both launchd starts the daemon again and nobody was warned.
- `SecondInstallWorks`, `InstallRecovers`: from any state that all this leaves, two installs
  in a row, of which nothing fails, install (and the daemon then runs).
  One is not enough: with a torn or absent plist and a job, the unload finds nothing,
  the load is refused, and launchd keeps the old build; but the plist is then
  whole, and the second install can unload.
- `RepairedForGood` (a theorem only): after that nothing is left to happen but that
  launchd starts the build wanted.

Fairness: commands run, launchd spawns, and the one who wants a build installed does
try again. Bounds: two commands at once, two builds, two repetitions, from
any state; everything else unbounded. After the two repetitions nothing is left to
do, hence `CHECK_DEADLOCK FALSE`.

## Service

One action is one step of one process or goroutine: a client's `Dial`, its deadline
(`Timeout`) or a closed connection (`Broken`); `ListenAndServe` (`Bind`,
`BindFails`, `Register`, `Accept`, `AcceptFails`); the goroutine of a connection (`Read` to
`EndOfFile`); the polling goroutine (`PollEnds` to `SeeStop`); and `Run`
(`RegisterHotkey` to `Exit`).

| Code | Model |
|---|---|
| where `Run` is, its deferred calls included | `run` |
| `shutdownCh`, with room for one value | `ch` |
| the context of `signal.NotifyContext` | `signal` |
| `s.ln`, `s.closed`, and the name `daemon.sock` | `srv`, `named` |
| what `Call` has returned | `call` |
| where `serve` is with a connection | `conn` |
| where `loop` is; `m.stop` | `mon`, `stop` |
| the combos of the config; `m.hks` | `combos`; `held`, as chords |
| chords the system refuses to register | `taken`, any from the start |

Signals are caught only while `NotifyContext` is in force, from the end of the
first apply to the return of `Run`'s body; before and after, one ends the process
at once (`Uncaught`), its lock and socket left behind. `ran` and `asked` are history:
how often each request was handled, and whether the daemon was told to stop. Time
is not modelled; of the two deadlines the model keeps their order: a connection's
ten seconds start later than its client's five, so the server gives up only on
clients that have gone.

- `AnsweredOnce`: a request is handled at most once, an answered one was, and a
  refused one was not. A client whose deadline passes knows nothing: a swap whose
  notifications take six seconds is done, and its user is told otherwise.
- `ImplementsCalls`: the same step by step: Service implements `Calls`, in which a
  request runs at most once, "ok" follows it, and one that was refused never runs.
- `HotkeysBestEffort`: by its first apply the daemon holds every chord that its two combos
  stand for and the system gives, whichever of them is misspelt, taken or the other's.
- `LetsGoInOrder`: the chords are given back before `Monitor.Stop` waits, and the lock
  only after the polling goroutine has ended.
- `ShutdownIsHeard`: until `Run` leaves its select, a request or a signal to stop is
  waiting there exactly if somebody has asked, however early that was.
- `StopsWhenAsked`: a handled shutdown or a signal ends the process, at whatever
  point of `Run` it arrives. The room in `shutdownCh` is what makes it hold during
  the first apply. It assumes that ioreg keeps ending (`[]<>(mon # "poll")`): one
  that hangs keeps `Monitor.Stop` waiting, with the socket closed and the lock held.
- `ServesOrLeaves`: a daemon in its select either gets to serve or ends, also one whose
  `Accept` fails after it has served.

Fairness: weak for goroutines; strong for `SeeStop`, since a Go select chooses at
random among what is ready and the ticker may be ready each time; none for ioreg,
clients, signals and kills. When the process has ended and every client has its
answer nothing is left to do, hence `CHECK_DEADLOCK FALSE`.

Two clients, each with one call: the one buffered value can be there when the second
shutdown comes, and one call can be served while the other ends the daemon. Three
combos: a default, the same chord spelt otherwise, and none; `taken` is any subset of
their chords. `combos` and `taken` are forgotten once they have been read.
Abstracted: a handler is one step (Daemon takes it apart), `Close` is one step and
processes are one (InstanceLock takes those apart), requests are well formed.

`Hotkeys` is `Parse` and `parseKey`: a combo is the sequence of its words, split,
trimmed and lower-case; `WellFormed` is when there is no error, `Parse` what the
hotkey library is given: a sequence of modifiers, as long as there are words for
them, and a key. What chord the library makes of that is its own affair and a constant
of Service (`ChordOf`); in the run, whose combos repeat no modifier, the modifiers'
set and the key.

## PlistParse

A document is produced token by token, and the parser reacts to each: `Start`,
`KeyOf`, `Leaf` and `End` join a step of the document (`Doc...`, external) with one
of the function that reads. `fn` is that function, `depth` and `pendingKey` are its
local variables, `entry` the device it collects. What the document says is kept
apart: `stack` is the path of open elements, `device` what the open device says of
itself and `present` whether a complete one is a Bluetooth mouse. Values are reduced
to whether they are those `isBluetoothMouse` asks for, keys to the three it looks
at and any other, and an element without elements in it is one token.

- `InStep`: `parseTopDicts`, `readDict` and `skipElement` read exactly outside, in, and
  below a device, and `depth` is the depth below it.
- `RightVerdict`: an answer is for a complete document (or for no output at all), and
  says that there is a mouse exactly if there is; what breaks off is an error, which
  the monitor does not take for "disconnected" once it runs.

Bounds: six open elements, three below a device, so that skips nest and return more
than once; any number of devices, keys and values. A verdict ends a behaviour,
hence `CHECK_DEADLOCK FALSE`. The theorems hold at any depth.

## Proofs

All theorems hold for any sets of hotkeys, connections, handlers, processes, files,
settings, clients, combos, commands and builds and for any depth of nesting, under the named assumptions next to the constants.

- Daemon: `TypeOK` and `NoLostTrigger` are inductive (the latter relative to the
  types: a goroutine that owes an apply is not disturbed by others, and a handler
  that changes the target owes one itself). `AgreedApplyHeals` is not: `CalmInv`
  adds that in a calm state whatever is about to be written is the target of the
  latest snapshot, and that the preference holds that target once the writers are
  through. `AgreedApplyHeals` is then `CalmInv` and `NoLostTrigger` together.
  `PauseAdmitsNoWriter` and `ResumeSeesDevice` follow action by action. So does the
  refinement of Intent (`IntendedStep`): each step of Daemon maps to one of Intent
  or to none, the types telling that a goroutine has a target while it writes.
  `WorkRunsOut` is the safety half of `Settles`: `StepsLeft` bounds the steps of a
  goroutine from each of its places, and every step that is no input lowers it for one
  goroutine and moves no other, so there is no cycle of work, and fairness has only to
  see to it that each goroutine does its steps.
- ConfigFile: `SaveInv` says that the lone saver has read what memory holds unless
  another save is due, that nobody else has the file open, and that the file is then
  whole unless the saver is between truncation and write; it gives `SoloSaveHeals` and
  `ClientsCanLoad`, and that with the types gives `RestartKeepsTargets`. `TwinsHaveCause`
  needs it too: what a lone save left is what memory held, and a swap keeps different
  targets different (`SwapKeepsDifferent`).
- InstanceLock: `LockInv` says that without a handover the running daemon has the
  file of the name, and that nobody runs while a release is about to unlink it;
  a file has one owner, so two such daemons are one. `SocketInv` adds that only a
  daemon before the end of `Close` has a server, so whoever touches the socket's
  name runs, and is therefore the same daemon; nobody binds between its `CleanSocket`
  and its `Bind`, so that succeeds.
- Service: `CallInv` says that a request has not been handled while its connection is
  before the handler's end and has been handled once while it is after; with the types it
  gives the refinement of Calls, action by action (`PromisedStep`). Calls by itself
  keeps `AnsweredOnce` (`PromiseKept`), and so, by the refinement, does Service.
  `ShutdownIsHeard` is inductive, and is what `StopsWhenAsked` adds fairness to.
  `KeysInv` says what has been registered before each of the two hotkeys and after
  them; with `JoinInv`, that the polling goroutine stays done, it gives
  `LetsGoInOrder`. `EveryWordCounts` and `NoPlainKey` are about every combo: each of its
  words but the last gives the one modifier it spells, repetitions included, so there
  is always one. That order or repetition does not matter to the library is not said.
- Succession: `LockSurvives` is a refinement, so InstanceLock's theorems hold. `CurrentInv`
  adds to `LoadedIsCurrent` the processes that wait: while nobody runs, who has loaded
  and is not `apart` has what is on disk. `SavesBuildOnTheLast` follows step by step.
- LaunchAgent: `StoppedInv` says that without a note there is no job, or an orphan, or
  the look had failed.
  `AloneInv`, that a lone command whose unload worked changes the plist only
  without a job, gives `OrphansHaveCause`. `RetryInv` follows the two installs: the
  first leaves the right plist, with which the second can unload; with the guards of the
  other actions it gives `RepairedForGood`.
- PlistParse: `InStep` is not inductive: `DepthInv` adds that `depth` is positive
  during a skip. With the shape of the path (`ShapeInv`) the parser's place
  is the document's; `EntryInv`, that parser and document then agree about the
  device that is open and those complete, gives `RightVerdict`. Two lemmas say what
  `Append` and `SubSeq` do to a path.

Only model-checked: the liveness properties (`ChangesPickedUp`, `Settles`,
`KeptReachable`, `StopsWhenAsked`, `ServesOrLeaves`, `InstallRecovers`); liveness under fairness is out
of the prover's reach. For three of them the part that is a property of single steps
or states is proved: `WorkRunsOut`, `ShutdownIsHeard` and `RepairedForGood`.

## Seeded faults

Operators marked "Seeded fault" are plausible mistakes in the definition that
follows them; `PROJECT.json` says which property notices which.

## Plan

Done: Daemon, Intent, ConfigFile, InstanceLock, Succession, Service, Calls, Hotkeys,
PlistParse and LaunchAgent, with the theorems above. What is left would refine what is
here:

1. Succession with the saves of ConfigFile taken apart, so that a process that is
   killed in a save leaves its torn file to the other.
2. LaunchAgent with the daemons of InstanceLock, so that one started by hand holds the
   lock against launchd's.
3. The answers of `Status` and `GetDirection` against what is in force.

## Not modelled

Notifications (no state, `internal/notify`): their three seconds are what fairness and
delays in Daemon stand for. Logging, paths and directories, the location of the
executable, the wording of output, flag parsing, the settings no handler changes,
`GetViaDefaults` and `parseBoolish` (tests only), `Start`'s error returns (no caller can
meet them), malformed requests and several requests on one connection (the only client
sends neither), the `recover` around hotkey callbacks (none panics), and the event
loop of the hotkey library.

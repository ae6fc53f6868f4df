# A formal model of ssh-agent-proxy

`ssh-agent-proxy` sits between SSH clients and one upstream SSH agent. It offers
several *key groups*; each has a Unix socket of its own and shows, and signs with,
only the upstream keys its selectors match. This directory holds TLA+ models of its
concurrent parts, TLC configurations that check them on small instances, and proofs
that TLAPS checks for every size. Every definition is written from the Go source;
`PROJECT.json` names for each the lines it stands for, and for each property a mutated
definition under which TLC finds it violated.

## The system

Paths are relative to `src/internal/`.

| Part | State | Operations | Hard because |
|---|---|---|---|
| Group authorization, `proxy/authorization.go`, `proxy/agent.go` | snapshot, refresh in flight, unmatched selectors | list, sign, startup listing | clients share a refresh; the snapshot is read and stored outside the lock |
| Key selection, `keys/keys.go` | none | `Resolve`, `Matches` | order and duplicates |
| Identity cache, `proxy/cache.go` | keys, error, expiry, refresh in flight | `List` | many waiters, expiry, an agent that comes and goes |
| Upstream connection, `proxy/upstream.go` | current connection, closed, connected; the pending mark of each connection | request, dial, reconnect, watchdog, `Close` | five parties act on one connection, some outside the lock |
| Server run, `proxy/server.go` | listeners, accept loops, clients, context | bind, accept, serve, tear down | an order of teardown in which nothing is missed and nothing waits for ever |
| Sockets and locks, `proxy/server.go`, `proxy/socketlock*.go`, `proxy/listener.go` | files, flocks, sockets | lock, replace a stale socket, bind, close, unlock | processes race, crash and leave files behind; others ignore the locks |
| Supervisor, `app/app.go` | current runtime, last good configuration, queued SIGHUP | load, launch, reload, roll back, idle, stop | any of four events may win a `select` |
| Telemetry, `proxy/telemetry.go`, `app/telemetry.go` | counters, client gauge, runtime samples | count, sample, report | two reporters take and reset what others go on counting |
| Service managers, `service/*.go`, `main.go` | the definition file; what systemd or launchd has loaded and runs | install, reinstall, uninstall, start, stop, restart, reload | each is a sequence of calls that fail half way, next to a service that crashes and is started again |
| Definitions, `service/definitions.go` | none | quote, parse, find the configuration | three readers give characters different meanings |
| Configuration, `config/config.go` | none | which socket paths are accepted | links, and directories that do not exist yet |
| Doctor, peer credentials, logging, flags | none | | see *Not modelled* |

How they interact: the supervisor launches one server at a time, each with a context;
the server owns one `groupAuthorization` per group and one accept loop per socket, and
serves each client in a goroutine. A client's request goes through `filterAgent` to the
group's authorization, which lists through the one `cachedAgent` of the process, and
that goes through the one `reconnectClient`. Cancellation travels down the same path.

What makes each part correct: a group never lets a key through that its snapshot does
not allow, shows only what can be signed with, and makes one listing for a burst of
clients. The cache lists once per interval, hands out answers in order and survives an
absent agent. The connection is replaced only when broken, a signature is asked for at
most once, nothing leaks, and a silent agent does not block anyone for ever. A server's
run leaves nothing behind and always ends. A socket path has one proxy at a time, a
crash never blocks the next start, a stranger's socket is left alone. The supervisor
never trades a working server for a configuration that does not load, goes back to one
that worked, and honours the last SIGHUP. A report loses no event, shows none twice
and misses no peak. A service command that reports success has done what it says; the
command line in a unit survives `status`, and systemd where its rules allow. No two
groups bind one file, and none the upstream's, as far as links lead anywhere yet.

`PROJECT.json` lists under "hazards" where each of these could break.

## The modules

| Module | Stands for |
|---|---|
| `FilteredView` | abstract: what a group's socket promises |
| `GroupAuthorization` | `groupAuthorization`, `filterAgent`; implements `FilteredView` |
| `GroupAuthorization_proofs` | proofs about it, and about `KeyResolve` |
| `CachedAgent` | `cachedAgent.List` |
| `CachedAgent_proofs` | proofs about it |
| `ReconnectClient` | `reconnectClient`, its watchdog and cancellation |
| `ReconnectClient_proofs` | proofs about it |
| `WatchdogQueue` | the order of requests on one connection, and their timers |
| `ServerLifecycle` | `Server.Run`, accept loops, client bookkeeping |
| `ServerLifecycle_proofs` | proofs about it |
| `SocketOwnership` | locks, stale sockets, binding and removal, among processes |
| `SocketOwnership_proofs` | proofs about it, and about `Configuration` |
| `Supervisor` | `runWithServers` and the runtimes it launches |
| `Supervisor_proofs` | proofs about it |
| `Telemetry` | counters, the client gauge, samples and reports |
| `Telemetry_proofs` | proofs about it |
| `Service` | the service commands on systemd and launchd |
| `Service_proofs` | proofs about it, and about `Definitions` |
| `Definitions` | the systemd command line: quoted, run, and read back |
| `Configuration` | the socket paths `resolve` accepts |
| `KeyResolve` | `keys.Resolve` |
| `MCGroupAuthorization`, `MCService`, `MCSocketOwnership` | the instance TLC checks, with `KeyResolve`, `Definitions` or `Configuration` beside it |
| other `MC...` | the instance TLC checks |

Conventions. `pc` says where each goroutine is; a step is one critical section, one
system call or one blocking call, whichever is the smallest thing others can see
between. A key set is named by its *epoch*, the number of changes the upstream has gone
through, so that "older" and "newer" can be said of snapshots, answers and lists; 0 is
none, or an error. Variables marked *history* only record what properties speak of. A
definition commented `Mutant:` is not part of the model: it is a plausible bug put in
place of the definition after it, to show that a property notices.

### GroupAuthorization
`joinRefreshLocked` is `JoinRefresh`: join the refresh in flight or claim one. The owner
lists (`ListUpstream`), stores the snapshot without the lock (`StoreSnapshot`), updates
the unmatched record under it (`NoteUnmatched`) and ends the refresh (`FinishRefresh`),
which copies the result to everyone on `refresh.done` and closes it. A signing request
first looks at the snapshot without the lock (`FastPath`), again under it
(`AuthorizeMiss`), and once more after the wait (`FinishAuthorize`), by which time the
snapshot may be newer than the one waited for. The startup listing owns the first
refresh, claimed before sockets exist. Requests that `filterAgent` refuses outright
(add, remove, lock, extensions) change no state and have no action.

`reply` is what a client is told: a key that is refused because the group does not have it
is something else than a listing or a signature that fails. `FilteredView` has an action
for each. `Refuse` needs an instant at which the view lacks the key, after one at which
it was looked up in vain (`Miss`); `Fail` tells the client of an error, and a request
for a key fails before it is granted only after such a miss. A group that refused a key
it holds would implement neither.

### CachedAgent
One critical section per action: hit, wait for the listing in flight, claim it, store
its result and wake the others. `left` counts down to the expiry instead of the clock
going up, so time never runs out. A failed listing is kept for the lifetime too, as an
error if no listing has succeeded before. With `ttl = 0`, chosen in `Init`, every call
lists the upstream. All other calls pass through the cache unchanged.

### ReconnectClient
A caller loads `current` without `r.mu` (`Load`), else locks and dials (`Lock`, `Dial`,
`Install`), sends its request and either is answered, has its connection broken under
it, or fails for want of an answer. A list that failed with the transport locks again
and replaces the connection (`Relock`, `Redial`, `Swap`, `CloseOld`), unless it was
replaced meanwhile; a signature is not asked for twice. The watchdog's drop is three
steps, since only the second is under the lock. `Cancel` is the `AfterFunc` of the
context, `CloseLock` and `CloseCurrent` are `Close`. The agent may end a connection at
any time (`Die`), and whether it answers is its own choice: `Answer` is an action
without fairness. Whoever closes on this side ends the connection too (`Hangup`). Calls
of the operations `filterAgent` refuses use the same machinery and are left out, and so
is the order in which a connection's requests are answered.

### ServerLifecycle
Run binds group by group and may fail or be canceled between; then it serves until its
context ends or a listener fails; then the deferred teardown: refuse new clients, close
the listeners, cancel and close the upstream, await the startup listing, copy the
client set, close each, await the client goroutines. Every accept loop and client has
steps of its own, so a connection may be anywhere between `Accept` and registration when
each of those happens. The startup goroutines of all groups are one flag, upstream
calls are answered or not, and a run without enabled groups is left out.

### SocketOwnership
Processes share paths, lock files, flocks and sockets. A start opens and locks each lock
file in sorted order, then for each socket looks, probes what it finds, looks again,
unlinks and binds, listens, remembers the identity; a stop closes, compares the identity
and removes, and gives the locks up. A crash frees the flocks and kills the sockets
and leaves the files. Programs that are no proxies may replace a socket file at any time.
`seen` is the socket of the last look at a path, `Recheck`'s or that of the closing
listener, and what `ForeignKept` measures by.
Left out: failures of single system calls other than contention (mkdir, chmod, stat),
probe timeouts, and the platforms without flock.

### Supervisor
The loop's blocks between two things that can block are actions; runtimes run beside it
and become ready, fail, lose a listener or return after cancellation. When several
events are pending the `select` takes any of them, as Go does. `Observe` is
`observeReadiness`, also when it is called after a load or on the way out.

### Telemetry
`clientConnected` counts the connection and then takes the gauge's mutex, so a report
may come between (`Connect`, `Connected`); `upstreamCall` counts a call and then its
failure. A report reads the Go runtime without a lock (`Begin`), stores the sample under
it (`Store`), takes the interval (`Take`), the clients' peak (`Snapshot`) and then swaps
the counters one by one. The ready report of `Run` and the ticker's goroutine do this
side by side, and the ticker samples in between. Three counters stand for thirteen, one
gauge and one counter for the runtime's. Assumed: the ticker's first report, ten
minutes after the start, comes after the ready report, which waits only for the binding
of sockets.

### Service
A command is a record of where it is, what process ids it has read and whether a call
failed. Each `systemctl` or `launchctl` call is a step that is refused, succeeds, or
fails with its effect uncertain (`Lost`); the manager's side (what loading, starting,
stopping and unloading do) is external, modelled from how the code uses it. Between the
steps the service may exit, be started again or be unloaded by hand, an upgrade may
remove the binary, and the command may be killed. `CheckProgram` of `main.go` is part of
`Status`. `Write` writes the definition or fails without one: a file that `os.WriteFile`
leaves half written, by an error or with a killed command, is not modelled.

### Definitions, Configuration, KeyResolve
In `Definitions` and `Configuration` a state is one input, and the invariants compare
what the code computes with what it is for. `Definitions` has a path as a sequence of
the pieces that mean something to `strconv.Quote`, to systemd or to
`parseSystemdArguments`; each loop of the code is a `Scan` with a step function for one
piece or one argument (`EscapeStep`, `ReadStep`, `UndoubleStep`, `ConfigStep`). systemd
has two rules: in every word it replaces specifiers, `%%` by `%`, but variables, `$$` by
`$`, only in the arguments; and it refuses a command whose program has a special
character in its path (`SystemdProgram`, `SystemdArguments`). Of those there are pieces
for the double quote, the backslash and the newline, which stands for all control
characters. `Configuration` has a file system whose directories are real, missing or
links, and links at names that may lead to links, `LinkLimit` of them in a row at most.
`KeyResolve` has the nested loop of `keys.Resolve`
turn by turn: `Skip` and `Select` are the two ways through the inner one, `NextMatcher`
goes on with the outer. What it is for is stated without the loop, by the places where a
blob is selected first.

A path is `Unresolved` when a link on its way leads to something that does not exist yet.
`canonicalSocketPath` then compares the link instead of what it will lead to.
`SocketsDistinct` and `NeverOwnUpstream` are about groups, and an upstream, that have no
such link; `SocketNeverUpstream` is about any upstream, and does not hold (see
*Findings*).

The three are checked beside the component they belong to: a behavior of the run `group`
is either one of a group or one call of `Resolve`; one of `service` either commands or one
unit; one of `sockets` either processes or one configuration.

### WatchdogQueue
`ReconnectClient` lets a timer go off at any time. `WatchdogQueue` has the time: ticks,
one queue per connection, a timer that starts before its request waits for the agent
client's mutex. It is there for one question, see *Findings*.

## What the runs check

| Run | Instance | Checks |
|---|---|---|
| `group` | 2 clients and startup, 3 key sets with a shared blob and an empty set, 2 selectors; up to 3 keys of 2 blobs and 2 comments with up to 3 selectors | `OneRefresh`, `FreshAnswers`, `UnmatchedTracksSnapshot`; implements `FilteredView`; every request is answered; `ConfiguredOrder` |
| `cache` | 2 callers, lifetimes 0 and 2, 2 key sets, agent starts and stops | `MonotoneReads`, `NoErrorOnceListed`, `OneListPerInterval`; every call returns |
| `upstream` | 2 requests, the watchdog, cancellation, `Close`, 3 dials | `NoConnectionLeaks`, `CurrentIsOpen`, `OnlyBrokenReplaced`, `SignSentOnce`; every request returns; cancellation closes everything for good |
| `supervisor` | 3 versions of the file, 2 SIGHUPs, either mode | `OneRuntime`, `IdleOnlyAfterGoodFailed`, `InvalidReloadKeepsReady`; every SIGHUP is honoured; termination ends the process |
| `sockets` | 2 processes that list 2 paths in opposite orders, 4 socket files, strangers; every file system of 2 directories and 2 names, with up to 2 links at names and 2 followed in a row, 2 groups | `BoundUnderLock`, `ServingReachable`, `AloneServes`, `WinnerTakesAll`, `ForeignKept`; `SocketsDistinct`, `NeverOwnUpstream` |
| `server` | 2 groups, 2 clients | `NothingOutlivesRun`, `WaitsForClosedOnly`; Run returns; everything ends |
| `telemetry` | 2 clients, both reporters, counters of 1 and levels of 1, 2 units of activity | `EventsReportedOnce`, `PeakCovers`, `IntervalsAddUp` |
| `service` | both platforms, 4 processes, any sequence of commands; two paths of up to 2 of 10 pieces | `InstallRuns`, `UninstallLeavesNothing`, `RestartReplaces`; `CommandSurvives`, `ConfigFound` |
| `cache_readme`, `watchdog`, `reinstall`, `own_upstream` | | find violations, see *Findings* |

Why the bounds are enough. A group's refresh has an owner and waiters: with the startup
listing and two clients there is an owner with two waiters, and one who comes late;
three key sets let a snapshot be superseded twice, by an empty set and by another
identity for the same blob. The cache needs an owner, a waiter that wakes and another
caller that gets in between, and two ticks so that a result is neither fresh nor
expired. Two requests and the watchdog and `Close` are all the parties that ever hold or
drop a connection; of three dials the first is the connection that both requests have
lost, the second the replacement one of them installs, and the third the one the other
must not make while the second is healthy. Two SIGHUPs and three versions make good, bad
and good again possible, and a signal that finds the channel full. Two processes are the
parties to any lock; four socket files cover a crash on both paths and the replacement.
Two groups let one listener's failure take the other's clients with it, and two clients
can be at different stages of one teardown. Three keys and three selectors include a
blob under two comments picked by different selectors. Two clients make a peak above
one; the bound on a counter is one of events not yet reported, so events go on falling
on either side of every report. Four processes are an installation, a restart, a failure
and a reinstallation. Two pieces put every character next to every other; two
directories and names make a link to each kind of thing, and two links one that leads to
another. What the runs show of `KeyResolve`, `Definitions` and `Configuration` is proved
for all inputs besides.

`CHECK_DEADLOCK FALSE` is set where the system ends: a run of the server, the supervised
process, the reports, `sockets` and `service`, whose bounded supply of socket files and
processes runs out, and `watchdog`, whose supply of connections does.

### Fairness
Goroutines that can run, run (weak fairness of each goroutine's steps). Beyond that:
- `GroupAuthorization`, `CachedAgent`: upstream calls return, because the watchdog of
  `upstream.go` and Run's teardown end them. `CachedAgent` also has strong fairness of
  `Hit`: a caller woken for a result sees it before it expires at some point, since
  waking takes microseconds and a lifetime is a second at least.
- `ReconnectClient`: a dial ends by its timeout, the timer of a pending request goes off
  (`Expire`), and `sync.Mutex` starves no one (strong fairness of `Acquire` and `Close`).
  The agent owes nothing: it need neither answer nor end a connection.
- `ServerLifecycle`: upstream calls return once Run's context has ended. Clients owe
  nothing: they may never send, read or hang up. Listeners need not fail.
- `Supervisor`: the loop runs and a canceled server returns, which is `RunReturns` of
  `ServerLifecycle`. A server need never become ready.

## What is proved

`GroupAuthorization_proofs`, for any sets of clients, blobs and selectors, any key sets
and any number of changes, assuming only that the special values are distinct and that
the constants have their types (`ProcAssumption`, `RequestAssumption`,
`EpochAssumption`, `KeyAssumption`):

- `TypeCorrect`;
- `RefreshesCoalesce`: `OneRefresh`, and `NoLostWaiter`, that whoever waits does so for
  the refresh in flight, whose owner will wake it;
- `AnswersAreFresh`: `FreshAnswers`, and `ListsAreSignable`, that what a client was
  shown has been published for signing (`ListedKeysSignable`);
- `UnmatchedCorrect`: `UnmatchedTracksSnapshot`;
- `SnapshotMonotone`: the snapshot never goes back (`SnapshotAdvances`);
- `Implementation`: `ImplementsView`, every step of the group is one of `FilteredView`
  or none; so a key is refused only when the view does not hold it.

Of these properties none is inductive: that the snapshot does not go back depends on there
being one refresh at a time, and on its answer being at least as new as the snapshot at
the moment it was given. `IInv` adds who takes part in the refresh (`Participants`),
what each client asked for (`Requests`), where the owner's answer lies between the
snapshot and the upstream (`Answers`), that nothing a client may still be answered from
predates its request (`Fresh`, `Shown`), and that the unmatched record lags the snapshot
only between two particular steps (`Noted`). `Inductive` has one step per action.

The same module has the proofs about `KeyResolve`, for listings and selectors of any
length (`LengthAssumption`): `ResolvesInOrder` (`ConfiguredOrder`), and
`ViewIsResolved`, that what the loop returns is what `GroupAuthorization` takes it to
be: given the selectors that the group's `Sel` stands for (`SameSelectors`), the keys
put out are `Visible` and the selectors without a match `Missing` of the listing. The
inductive invariant speaks of the places that the loop has met: `seen` has the blobs
selected at them (`SeenMet`), the keys put out are those of the first places among them,
in their order (`PutOut`), and a count is zero just when its selector was met at none
(`Counted`). That an item may be appended to `PutOut` without a recount is what `place`,
an enumeration of the first places, is for.

`CachedAgent_proofs`, for any callers, any lifetimes and any coming and going of the
agent, assuming the types of the constants and that `None` is neither a caller nor an
epoch (`CallerAssumption`, `CacheAssumption`, `ReplyAssumption`): `TypeCorrect`,
`ListsCoalesce` (`OneUpstreamList`), `AnswersInOrder` (`MonotoneReads`),
`SurvivesAbsence` (`NoErrorOnceListed`) and `OnePerInterval` (`OneListPerInterval`).
The inductive invariant adds that a listing being stored is no older than what is kept
(`Ordered`), that the kept result is an error only while there are no keys (`Result`),
that the time since the last listing and the time left make up the lifetime (`Age`),
that without a cache nothing is kept (`Off`), and that what was true when a call began
has not been undone (`Begun`).

`ReconnectClient_proofs`, for any callers and any number of dials, assuming
`ProcAssumption` and `ConnAssumption`: `TypeCorrect`, `NoLeak` (`NoConnectionLeaks`),
`CurrentOpen` (`CurrentIsOpen`), `HealthyKept` (`OnlyBrokenReplaced`) and `SignedOnce`
(`SignSentOnce`). None is inductive: that nobody closes a healthy connection depends on
who holds `r.mu` (`Mutex`), on connections being numbered in the order of their dials
(`Numbered`), on a dialed connection being its dialer's alone until it is installed
(`Fresh`, `Apart`), on a caller that reports a transport failure holding a connection
that has failed (`Failed`), and on a request's count of sendings (`Counted`).

`ServerLifecycle_proofs`, for any groups and clients, assuming that `None` is neither
(`SetAssumption`): `TypeCorrect`, `RunLeavesNothing` (`NothingOutlivesRun`) and
`ClosedAreAwaited` (`WaitsForClosedOnly`). The argument: how far the teardown has come
says what is closed for good (`Teardown`), `s.clientWG` and `s.clients` agree with where
the handlers are (`Registered`), an accepted connection belongs to one accept loop until
it is registered or refused (`InHand`), and as registration and refusal look at
`clientsClosing` under the lock, every open connection with a handler is in the copy
(`Copied`).

`Supervisor_proofs`, for any numbers of rewritten files and signals: `TypeCorrect`,
`RunsOne` (`OneRuntime`), `TriesGoodFirst` (`IdleOnlyAfterGoodFailed`) and
`RefusedReloadIsHarmless` (`InvalidReloadKeepsReady`). The loop knows of the only server
that may be alive (`Known`), what serves or is restored is `lastGood` (`GoodKept`), and
with nothing running `lastGood` was the last tried (`IdleTried`). `Budget` counts that a
SIGHUP costs at most two launches, its own and the one restored: rollbacks are not
rolled back.

`SocketOwnership_proofs`, for any number of processes, any socket paths in any
configured order, and any number of crashes and strangers, assuming that a process's
paths are distinct and numbered in their sorted order (`PathAssumption`,
`ProcAssumption`, `BoundAssumption`): `TypeCorrect` and every property the run checks:
`ServesUnderLock` (`BoundUnderLock`), `ServersKeepSockets` (`ServingReachable`),
`AloneGetsSockets` (`AloneServes`), `RefusedHoldNothingNeeded` (`WinnerTakesAll`) and
`OthersSocketsStay` (`ForeignKept`). All lock files of a path are one file, locked by one
process (`Locks`), from the last lock taken to the first given up a process has all of
them (`Stage`), and so no other touches its paths and it finds its sockets where it has
put them (`Own`, `Reachable`, `Placed`). That locks are taken in the order of the paths
and given up in the reverse (`InOrder`) is what `WinnerTakesAll` needs; that a file about
to be removed was found dead, or is a listener's own (`Looked`), is what `ForeignKept`
needs; that nothing changes under a lone process between a look and what follows from it
(`Alone`) is what `AloneServes` needs. `OthersKeep` says once what any step of one process
leaves alone for every other; then there is a lemma per conjunct, with a case per action
or kind of action.

The same module has the proofs about `Configuration`, for any paths, groups,
directories, links and limit on them, assuming that the words for what a directory is
are no directories, that the limit is a number and that the upstream's path is a path
(`DirAssumption`, `LimitAssumption`, `UpstreamAssumption`): `AcceptedSocketsDistinct`
(`SocketsDistinct`) and `UpstreamNeverOwn` (`NeverOwnUpstream`), both but for paths with
a link that leads nowhere yet. Where links lead is a function that is defined step by
step: `FollowIsWalk` has it as a walk, `FollowStays` what no step leaves, and
`FollowTogether` that two walks whose steps agree end together, which is how what
`connect` follows is compared with what `filepath.EvalSymlinks` found.

`Telemetry_proofs`, for any finite set of clients and any bounds (`ClientAssumption`):
`TypeCorrect`, `NothingLost` (`EventsReportedOnce`), `PeaksSeen` (`PeakCovers`) and
`IntervalsComplete` (`IntervalsAddUp`). The gauge counts the clients that have reached it
(`Gauges`), the ticker waits for the ready report (`Turns`), and what a reporter holds
between two steps is what it has read, reported and stored (`Readings`).

`Service_proofs`, for either platform and any number of processes
(`PlatformAssumption`, `BoundAssumption`): `TypeCorrect`, `InstalledRuns`
(`InstallRuns`), `UninstalledIsGone` (`UninstallLeavesNothing`) and `RestartedIsNew`
(`RestartReplaces`). Where there is no definition and the command has met no service,
none appears until the definition is loaded, and what an uninstallation has stopped
without a failure is not started again (`Installing`); a process that `Restart` has not
seen has a number above those the command began with (`Restarting`). `Successes` lists
the steps after which a command can report success.

The same module has the proofs about `Definitions`, for paths of any length
(`TextAssumption`): `CommandRoundTrip` (`CommandSurvives`) and `ConfigurationFound`
(`ConfigFound`). A scan of two texts goes on where that of the first ends (`ScanOn`).
What is read of a quoted piece is the piece, its sign doubled (`PieceIsRead`), so a
quoted text is read with its signs doubled (`TextIsRead`) and the line as its four words
(`FourWordsAreRead`); undoubling takes away the doubling of its own signs and leaves
that of others (`UndoubleGives`), which is used once for Status, with both signs, and
twice for systemd, with one after the other (`TextIsRestored`). In the program's path only
the percent signs are undoubled; the path is longer than the installed one if it has a
dollar sign, and the same if it has none (`DoublingShows`), so that systemd runs it just
when it is `Runnable` (`RunnableRuns`).

The theorems of the library that do induction take an operator, which the provers
cannot instantiate. Where a loop or a walk needs it, the induction is done over a set of
numbers: one that has 0, and with each number the next, has all up to N (`UpToN`), as the
lowest that it lacks would follow one that it has. The functions proved about are
therefore recursive functions, and no module uses `RECURSIVE`.

Type invariants of the modules with proofs are theorems and no run checks them.

Only model-checked: everything else, and in particular
- liveness (`Answered`, `EveryCallReturns`, `RequestsReturn`, `CancelCloses`,
  `HangupIsHonoured`, `TerminationEnds`, `RunReturns`, `EverythingEnds`), as fairness
  and ENABLED are out of the prover's reach;
- `WatchdogQueue`, and the findings.

## Findings

`cache_readme`. `README.md:430-431` of the repository says that requests fail while the
agent is unavailable and that the first request after it starts connects to it. With
`--cache`, the error of a failed first listing is kept for the whole lifetime
(`proxy/cache.go:95-99`): requests go on failing from the cache while the agent
is there. The run shows a call during all of which the agent is available and
that returns the old error.

`watchdog`. The comment at `proxy/upstream.go:283-286` says that an agent answers the
requests on a connection in order, so one left unanswered for `requestTimeout` means
that the connection is stuck. But the timer starts before the request waits for those
queued ahead of it: the run shows a second request whose timer goes off although the
agent has just answered the first and worked on the second for less than the timeout;
the connection of an agent that answers is dropped.

`reinstall`. When `kickstart` finds the job not loaded, the error advises to reinstall
the service. `launchctl unload` then refuses what is not loaded, `Uninstall` goes on and
reports the failure, and `Reinstall` stops before installing: the run ends with no
definition at all, although no call failed for a reason of its own. (A second
installation succeeds.)

`own_upstream`. `README.md:372-373` says that an enabled group's socket cannot resolve to
the upstream agent's. `canonicalSocketPath` takes a path as it is written, its directory
resolved, when `EvalSymlinks` finds that it does not exist, and that is also what it finds
of a link whose target does not exist yet (`config/config.go:193-202`). The run shows a
configuration that is accepted although the upstream path is a link to the socket of a
group: once the proxy has bound that, its upstream is the proxy itself.

The models show more, for which there is no run of its own:
- a stranger who binds a path between the last look at a stale socket and its removal
  loses its socket (`ForeignKept` excepts that instant, and the one between bind and the
  recording of the identity);
- two groups may come to share a file through a link to a directory that does not exist
  yet (`Unresolved` excepts it in `SocketsDistinct`);
- `quoteSystemdArgument` quotes the program's path like the arguments, and
  `definitions_test.go:38` wants its `$` doubled; but systemd replaces no variables there
  and refuses quotes, backslashes and control characters. A unit for an executable with
  one of these in its path is written, and read by `status` as if all was well, but
  systemd does not run the installed program. `CommandSurvives` says so exactly: the
  program that is run is the installed one if and only if its path is `Runnable`;
- an uninstallation whose `disable` fails removes the definition, and the next one then
  finds nothing to disable and reports success while the service runs on; an
  installation after it leaves the old process running (`began.orphan` excepts both);
- `service start` under launchd succeeds while the old process is still exiting;
- `service reload` signals the process id that `Status` has read a moment before.

## Not modelled

- Configuration: decoding, required fields and scaffolding; the supervisor sees whether
  a file loads.
- The launchd plist, written and read by `encoding/xml`, and the texts of `launchctl`.
- Textual forms: fingerprints, logging, the doctor's report (one-shot, read-only), flags.
- Peer credentials: system calls whose result is only logged.
- `socketlock_other.go`, `service_other.go`: stubs for platforms without flock or
  service manager.
- Test support.

## Plan

Done: group authorization, cache, upstream connection with its timers, server, sockets,
supervisor, key selection, telemetry, service managers, socket paths, the systemd
command line; proofs of the safety properties of all of these. Left:

`GroupsOverCache`: groups composed with the cache as their upstream, whose answers
then come from the past; what of `FreshAnswers` remains with a lifetime.

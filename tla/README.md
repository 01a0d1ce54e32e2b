# TextCascade-Server: a TLA+ model

TextCascade-Server keeps the clipboard text of a user's devices in step. Each
device logs in over HTTPS, opens a WebSocket, and submits *clips*; the server
numbers them per user, keeps the newest text, and broadcasts it to the user's
other connections. This directory models the server's core, checks it with TLC,
and proves part of it with TLAPS. Paths below are relative to `src/internal/`.

## The system

| Part | State | Operations | Shared with |
|---|---|---|---|
| Runtime state store (`state/store.go`) | versions per user, a dirty flag, the state file | `SaveVersion`, `GetVersion`, `Flush`, `Stop`, `load` | hubs save; a 5 s loop and the main goroutine flush |
| User hub (`hub/hub.go`) | latest text, version, connections, job queue, recovery window, snapshot candidates, recovery queue, seen-id ring, token bucket | `AddConnection`, `RemoveConnection`, `ClassifyClip`, `AcceptSnapshot`, `ApplyClip`, `CloseRecoveryWindow`, the user loop | read loops, scanner, store |
| Hub registry (`hub/registry.go`, `sync/server.go`) | user to hub | `GetOrCreateHub`, `RemoveIfEmpty`, `RebuildHub` | connections, scanner, user loops |
| Connection (`models/context.go`, `hosting/connection.go`) | closed flag, bounded send queue, deadlines, awaited pong | read loop, send loop, `CancelConnection`, circuit breaker on a full queue | hub, scanner |
| Scanner (`hosting/scanner.go`, `sync/server.go`) | none | every second: pings, timeouts, idle hubs, closing the recovery window | all hubs |
| Core (`core/`) | ring, bucket, login windows | `Remember`, `TryAcquire`, `SelectSnapshotWinner`, `NextVersion` | hub, login |
| Login and tokens (`auth/`), users file (`users/`), command line (`cli/`), watcher (`hosting/watcher.go`) | user table, users file with a token-version watermark, lock file | login, verify, add, revoke, delete, reload | endpoint |
| Protocol, configuration, certificates, logging | none that changes | parse, format, validate | |

What is hard here:

* **two appliers.** After a process start a hub collects snapshots and queues
  clips for a few seconds. Whoever closes this window, the scanner or a
  connection that happens to join, applies the queued clips on its own
  goroutine, while the user loop applies the clips that arrive from then on;
* **joining while a clip is applied.** A connection must hear the newest text
  from its welcome or from the broadcast; no lock covers both;
* **a flush while versions are saved**, failed writes, and crashes between a
  save and the next flush;
* **queues at their limit**: the send queue (the connection is cut off), the
  recovery queue, the snapshot budget, the seen-id ring, and the version counter
  itself (`NextVersion` panics);
* **versions over restarts**: the store writes every five seconds, so a crash
  loses versions that clients have seen; the snapshots clients report in the
  recovery window are meant to bring them back;
* **times out of order**: every caller of the token bucket and of the login
  limiter reads the clock first and asks later;
* **lifetimes**: hubs are reclaimed and rebuilt while connections look them up;
  a connection is closed by six different parties.

`PROJECT.json` lists each hazard at its line, with the property that covers it
or the reason why none does.

## Modules

| Module | Models |
|---|---|
| `VersionLedger` | what the store promises: versions in memory grow until a restart, durable versions grow and are never ahead |
| `RuntimeStateStore` | `state/store.go` at the grain of its mutexes and its atomic flag |
| `RuntimeStateStoreProofs` | the theorems about it |
| `VersionRecovery` | the composition of `RuntimeStateStore` with the versions of a hub and its clients, over many lives of the process |
| `VersionRecoveryProofs` | the theorems about it |
| `SeenIdRing` | `core/ring.go`, as operators on a record |
| `SnapshotElection` | `core/logic.go`'s election, as operators |
| `SerialHub` | what the specification promises of a hub: one consumer that handles a user's jobs in order |
| `UserHub` | `hub/hub.go` with the parts of the connection, scanner, registry and store that drive it |
| `UserHubProofs` | the theorems about its types, the store, the welcome, the election and the numbering |
| `UserHubDeliveryProofs` | the theorems about what reaches the clients |
| `MCUserHub` | the bounded instances of `UserHub` |
| `HubRegistry` | `hub/registry.go` and its callers, over several hubs of one user |
| `HubRegistryProofs` | the theorems about it |
| `ConnectionLifecycle` | `hosting/connection.go`, `models/context.go` and the parts of `sync/server.go` that end connections |
| `ConnectionLifecycleProofs` | the theorems about it |
| `UserAccounts` | `users/`, `cli/cli.go`, `hosting/watcher.go`, and the login and token check of `auth/` |
| `UserAccountsProofs` | the theorems about it |
| `RateLimits` | `core/bucket.go` and `core/limiter.go` with their callers |
| `MCRateLimits` | the bounded instance of `RateLimits` |
| `RateLimitsProofs` | the theorems about it |
| `CliLock` | `cli/lock.go`, with the file system and `flock` |

Definitions named `Bug_...` are plausible errors in the definition that follows
each of them. Replacing that definition by one makes TLC report a violation of
a property, which shows that the property depends on it; no specification uses
them.

### RuntimeStateStore

`versions`, `isDirty`, `writeGate` and `loopDone` are the fields of `Store`;
`file` is the state file, replaced as a whole by the rename in `writeAtomic`.
`SaveVersion` is two steps (the merge under `gate`, then the flag), `Flush` is
three (the swap of the flag, the copy under `writeGate` and `gate`, the write
that succeeds or fails). Its callers are `"loop"` (`runFlushLoop`) and `"main"`,
which flushes at the end of `Server.Shutdown` and again in `Stop`; `phase`
follows the main goroutine through `Run`, which reaches `Stop` without
`Shutdown` when the listener fails (`ServeFails`). `Restart` may happen in any
state, so it is a crash at every step as well as an orderly end. A crash is that
of the process: the rename is taken to survive it. The JSON of the file and the
refusal to start from a malformed one are left out.

### VersionRecovery

This module extends `RuntimeStateStore` and drives its actions: a hub saves with
`SaveMerge`, a connection reads what `versions` holds, `NewProcess` is the store's
`Restart`. `GetOrCreateHub` is two steps, the read of the stored version (`Lookup`)
and `GetOrAdd` (in `Join`), with anything in between: a hub may live, be used and be
reclaimed, and the next one is then made from the older version. Of the hub the
module keeps the version, whether there is a text, the window and the versions of
its candidates. Both goroutines that apply clips are there: `Closer` closes the
window, applies the clips that waited and sends the welcome, while `Loop` applies
those that come. For each, `ApplyClip` reads the version, `ApplySave` saves the
next one, and `Install` makes it the hub's, whatever the hub's has become
meanwhile, as in `hub/hub.go:437-445`. A message that is sent reaches its client or
is lost with the connection. Clients and connections have no names: every version
ever told may come back in a hello, and every version read by a connection of this
process may make a hub.

The histories are `told` (every version a client received), `behind` (the file a
process started from lacked one of them, and no client has brought it back),
`raced` (the hub was made from a stale read, or its two goroutines were in
`ApplyClip` at once), `sealed` and `cleanStop` (what had been told when `Stop` went
on to its last `Flush`, and that this `Flush` did not fail). `behind` and `raced` are
the exceptions of `NoVersionReused`, three cases in all, and each happens: without
any one of them TLC finds a hub below a version that was told. The specification
knows none (`docs/server-spec.md:13`, `:210` and `:589` say versions stay monotonic
over restarts), so in these cases the code breaks its promise.

Left out: texts and ids; a second hub of the user at the same time, which
`HubRegistry` shows; and the removal of a hub whose goroutine is still applying a
clip of a connection that has left, which tells nobody. Clients may join in every phase of the
shutdown, since an upgrade that began before the listener closed is not waited
for. One that joins after `Shutdown` has cancelled everyone can be told a version
that is saved after the last `Flush`; `StopKeepsTold` therefore speaks of what was
told before.

### UserHub

One user, one hub, two goroutines that apply clips: `"loop"`, the user loop, and
`"closer"`, whoever closes the recovery window. A step is what the code does
under one mutex, so `ApplyClip` is: the duplicate check (`AckDuplicate`,
`PassCheck`), the bucket with `NextVersion` and `SaveVersion` (`RateLimit`,
`Reserve`), the replacement of version and text (`Install`), the ring and the
list of connections (`RememberClip`), one `Broadcast` per recipient, and the
`Ack`. Two pairs of critical sections share a step where nothing can come
between them that matters: the read of the version and its save (the store
merges by maximum), and `Remember` and the list of recipients (the ring is read
only by the other applier's check). `RebuildHub` is one step here and two in
`HubRegistry`. A connection gets the hub while it is registered (`GetHub`), starts
its loop if need be (`StartIfIdle`), and may append itself much later (`Connect`),
when the hub has been swept away or its loop has failed; then `AddConnection` goes
on in two more steps: check the window and read `Latest`, enqueue; or, with the
window open, the second check and closing the window itself.

A message queue is abstracted to what its client has heard (`heard`): whether
it was welcomed, how many of its clips were answered and what the last answer
said, and which texts carry the highest version. Every enqueue may instead find the queue full, for how fast a
client reads is its own affair; then the connection is marked closed and stays
in `connections`, as in the code. The token bucket answers either way
(`RateLimits` says which). `applied` is history.

`SerialHub` is the hub of `docs/server-spec.md` 2.3 and 5.4: a job is taken from
the front, a clip becomes the next version in one step, and its answer names
that version, the version of the last use of its id if it is a repeat, or no
version if it is over the limit. Nobody is told of a text that is not yet a
version; a message that a connection has no room for ends that connection and
is not just dropped. At the largest version it fails with the clip in hand
(`Fail`). `ImplementsSerial` maps `applied` to its log, the loop's
clip to its clip in hand, and `heard` without the welcome to what connections
were told; it is claimed of a hub created after the window.

`NextVersion` panics at `MaxVersion`: the user loop rebuilds the hub
(`LoopPanics`), the closer just dies (`CloserPanics`), and a connection that was
the closer is left without its loops until the scanner times it out
(`"stranded"`). The clip the user loop had in hand is gone (`lost` is the history of
whose). `RebuildHub` ends the connections it finds, and only if the hub was still
registered. A connection that got the hub before and appends itself afterwards
finds a dead loop, or, if it comes with its `StartIfIdle` still ahead of it, starts
the loop again on a hub nobody else can reach. `EventuallyAnswered` names these
cases beside the panicked closer, and TLC finds both: a hub swept away before its
loop panics, and a connection that joins after `RebuildHub` and is never answered
nor ended, for no scanner walks that hub.

### HubRegistry

`GetOrCreateHub` is `GetVersion`, `GetHub` or `CreateHub` (under the registry's
lock) and `StartIfIdle`; then comes `AddConnection`. `RemoveIfEmpty` is the check
for emptiness (`CloseWindow` at the end of the recovery window, `FindIdle` after
ten minutes) and `RemoveEmpty` under the lock; only the scanner calls it on a
hub that can be empty, for a connection that closes the window has joined its
hub first. `LoopFails` is the panic of `NextVersion` with the first half of
`RebuildHub` (`Registry.Remove`), `CancelAll` the second half, after which
`userLoopRunning` is cleared. `loops` counts the goroutines between setting and
clearing that flag. How a hub applies a clip is left to `UserHub`; time is left
out, so any empty hub may be found idle once the window is over.

### ConnectionLifecycle

`run` follows `RunConnection`: the provisional connection `"awaiting"` its hello,
then `"promoting"` to a new connection object on the same socket, `"added"` to
its hub, `"announced"` (`SetHelloReceived`), `"running"` once the two loops have
started. The provisional object has its closed flag (`provClosed`), its entry in
`pendingHellos` and its timeout; the promoted one has `closed`, `queue`, the
loops and the heartbeat state. `reader` and `sender` follow `readLoop` and
`sendLoop`; a read loop that has returned is `"waiting"` for the send loop.
`CancelConnection` of a promoted connection is two steps: it marks the
connection (`CancelConnections`), and `FinishCancel` closes the socket and
leaves the hub; whoever called it may go on in between, which is more than the
code allows and covers `EnqueueImmediateClose` as well. For a provisional
connection, which is in no hub, it is one step. The scanner's walk under the
hub's lock is one step (`ScanHubs`), the cancellations after it and the look at
the pending hellos are others.

Time is counted in ticks of the scanner, and a clock stops one tick past the bound
it is compared with. A promoted connection is taken to reach `SetHelloReceived` before
the hello deadline of its new state passes. `TryWriteJob` cannot fail (the job
queue is unbounded), so the branches behind it are absent. A write of the send
loop has no deadline and lasts until the peer takes it or the socket closes.

### UserAccounts

A user is a token version and a disabled flag; a token is a user and a version.
A command is `Begin` (lock and load), then its change with `Validate` and the
rename as one step, or `EndWithoutSave` (no change, an early return, a failed
save, a crash). The watcher's `reloadPending` is the debounce, and the
compare-and-swap on `reloadQueued` is `Fire`; a reload reads the file in one step
and replaces the server's table in another. A login reads the record in one step
and issues the token in another, with anything in between; a `Restart` may
happen at any time. `barred` is history: the tokens that the server's table has
once superseded. One command runs at a time, which is what the lock of
`cli/lock.go` is for; `CliLock` shows that it does not always ensure it, and two
commands at once can undo a revocation. Signatures, expiry and passwords are left out: none of them makes a
refused token acceptable again.

### RateLimits

`ReadClock` is the `time.Now()` of the user loop (once per clip) or of the scanner
(once per scan, used for every queued clip); asking the bucket is a later step,
one for each way `TryAcquire` returns. A login reads the clock in `Begin`, asks
`TryConsumeLoginLimit` (one step, under the limiter's lock, both keys) and ends in
`Fails` or in `Succeeds`, which resets the window of the user. `grants` and
`counted` are histories. Tokens are counted in what a tick refills, so they are
integers and exact; the code's are floating point. A key without times is not in
the map: `tryConsume` makes an entry only when it goes on to fill it, since limits
are positive (`config.go` refuses others). Bucket and limiter share nothing but
the clock, so `MCRateLimits` lets a behaviour exercise one of them.

### CliLock

`Acquire` is `Open` (or `OpenFails`), `Lock` or `LockBusy` with up to three attempts,
and `WritePid`, which opens the path once more; `Release` is `Unlock` and then
`Remove`. Files are numbers, `path` is the file the name stands for, and `locked`
the files that are locked: `flock` locks a file, not a name. A command may crash
at any step.

## What the runs check

| Run | Instance | Shows |
|---|---|---|
| `recovery` | 1 user, any clients, closer and user loop, versions to 2, both flushers; fair | `NothingForgotten`, `WriterBetween`, `NoVersionReused`, `StopKeepsTold`, `ImplementsLedger`, `ReachesFile` |
| `hub_steady` | 2 connections of one client, 3 ids, 3 clips, ring of 2, hub created after the window | `Converged`, `EveryClipAnswered`, `EveryoneWelcomed`, `GaplessVersions`, `RepeatKeepsVersion`, `ImplementsSerial` |
| `hub_startup` | 2 connections with a clip each, one with a snapshot of the stored version, one with a snapshot of the last version, recovery queue of 1, versions 1 to 2; fair | `EveryClipAnswered`, `EveryoneWelcomed`, `SavedBeforeAnnounced`, `BestCandidateRestored`, `EventuallyWelcomed`, `EventuallyAnswered` |
| `hub_race` | `hub_startup` without snapshots and version limit | **violated**: `OneTextPerVersion` |
| `registry` | 3 connections, 3 hubs, versions to 2 | `LoopServes`, and no hub with two loops (`TypeOK`) |
| `registry_split` | 2 connections, 2 hubs | **violated**: `OneHubPerUser` |
| `connection` | 1 connection, queue of 2, hello timeout and ping after 1 tick, heartbeat timeout after 2; fair | `OpenIsWatched`, `OnlyBreakerLeaks`, `HelloOrTimeout`, `DeadAreReaped`, `ShutdownCompletes` |
| `connection_breaker` | the same | **violated**: `FinallyCleans` |
| `connection_writers` | the same | **violated**: `OneDataWriter` |
| `accounts` | 2 users, 1 login, versions to 4, 4 commands; fair | `BarredForGood`, `CatchesUp`, and every saved file is valid (`TypeOK`) |
| `limits` | bucket: burst 2, a token per 2 ticks, 4 grants; limiter: 2 addresses, 2 users, 2 requests at a time, limits 2 and 1, 3 keys, a minute of 2 ticks; 4 ticks | `BurstBound`, `NeverStingy`, `AttemptsLimited`, `KeysBounded` |
| `cli_lock` | 3 commands, 3 attempts | **violated**: `OneHolder` |

**Bounds.** Versions up to 2 let a restart lose one and a hub give it out again, and
let a save or an install come late behind a newer one. The store does not tell users apart;
the theorems hold for any number. Two connections are a
sender and a recipient, or two that join at once; three clips fill a ring of
two, evict an id, or repeat one whose text is no longer the latest. That an id
takes two slots and loses the older is left to the theorem. A connection
submits at most `MaxSendsEach` clips, and all of them together `MaxSends`. The
recovery queue of one is full at the second clip. Versions up to 2 put the overflow
one clip away, or at the first clip if the higher snapshot was restored. Three hubs and
connections are a hub that failed or was swept away, its replacement, and a
connection that still holds the first; versions up to 2 let a loop fail after
its hub was already replaced. One connection is enough for its life: the
connections of a hub share nothing but the scanner's pass and the wait of the
shutdown, and the theorems hold for any number. A queue of two takes a bye or a
ping behind a message and fills up. Four commands add, delete, add and revoke;
versions up to four let them reach the largest one. Four ticks are two of the
limiter's minutes and two tokens; three keys are one short of what two addresses
and two users need. Three commands are the least that can break the lock. In `hub_steady` the
connections and the ids are interchangeable, so symmetry is used there, as it is
for the keys and requests of `limits`, and in no run of liveness. The hub runs do
not check deadlock, for clients may stop sending, nor does `limits`, whose clock ends; `recovery` does, since a restart is
always possible.

**Fairness.** Goroutines that can run do run (weak fairness on the user loop,
the closer, `AddConnection`, the flush steps); the clock passes the end of the
window and the scanner ticks. Nothing is assumed of clients: neither `GetHub`
nor `Submit` nor `Leave` is fair. For the store, writes do not fail for ever
(strong fairness on `FlushWrite`): `ReachesFile` is false on a disk that never
recovers. For connections, loops and scanner run and time passes; the one
assumption on a peer is that it answers the close frame of a shutdown (strong
fairness on `ReadClose`), without which `Shutdown` waits for ever, as its comment
in the code says. For accounts, the ticker and the timers run and reading the
file does not fail for ever; nothing is assumed of file events, which may all be
lost. `CatchesUp` is claimed while the watcher is in service: a watcher that
failed to start never polls.

## What the violations show

* `hub_race`: a clip of one connection waits in the recovery queue; the scanner
  closes the window and begins to apply it; another connection's clip goes to the
  user loop. Both goroutines read version *n* and both install and announce *n+1*,
  with two texts.
  The specification (`docs/server-spec.md` 2.3 and 6.2) says one consumer
  applies all clips of a user serially. `GaplessVersions` and `Converged` are
  therefore claimed only for a hub created after the window.
* `registry_split`: a connection has looked up the hub of its user and has not
  joined it yet; the scanner closes the recovery window, finds the hub empty and
  removes it. The connection joins a hub that is no longer registered, and the
  next one creates another: the two devices never hear of each other, and the
  scanner no longer watches the first (`docs/server-spec.md` 2.2: one hub for
  every user online).
* `connection_breaker`: two messages fill the queue, the third marks the
  connection closed and cancels its context. Both loops end, and the
  `CancelConnection` that should clean up returns at its guard, because the
  connection is already marked. It stays in its hub, with its socket open
  (`docs/server-spec.md` 5.7: cleanup is guaranteed by the read loop's finally).
  `OnlyBreakerLeaks` shows that this is the only way to leave one behind.
* `connection_writers`: the hello arrives and is promoted while the scanner finds
  the provisional connection overdue; the timeout starts and writes after the
  loops of the promoted connection have started. The two connection objects have a write
  mutex each, so the error frame and the send loop's message may be written at
  once, which the WebSocket library forbids (comment at `models/context.go:192`).
* `cli_lock`: the first command unlocks the lock file; the second, which had
  opened it just before and tries the lock only now, locks it; the first removes the name;
  the third creates a new file under the name and locks that. Two commands now
  read, change and write `users.json` (`docs/server-spec.md` 3.3: a single
  instance).

One weakness is not a run of its own, because the specification tells clients to
avoid it: an id whose content changes takes a second slot of the ring
(`core/ring.go:69`). When the older slot is overwritten, the map entry goes with
it, so the newest use of the id is forgotten early and its retransmission becomes
a new version. `RepeatKeepsVersion` names this case as its exception, and
`LateHubKeepsRepeats` shows, for a ring of any size, that there is no other.

## What is proved

`RuntimeStateStoreProofs` proves, for every set of users, every set of savers
and every bound on versions:

* `TypeCorrect`: `Spec => []TypeOK`;
* `WriterAlwaysBetween`: `Spec => []WriterBetween`. With the types this is
  inductive: `writeGate` admits one writer, its copy was taken from memory after
  the last rename, and memory only grows;
* `NeverForgotten`: `Spec => []NothingForgotten`. Not inductive alone. The step
  that could break it is the rename of a copy that memory has outgrown:
  then the file equals memory before the step only if the copy does too, because
  `WriterBetween` squeezes the copy between them;
* `StoreImplementsLedger`: `Spec => ImplementsLedger`. A merge is a `Save`, a
  rename a `Sync` (by `WriterBetween`), a restart a `Restart`, and every other
  step stutters.

`HubRegistryProofs` proves, for every set of connections and every number of
hubs, `RegistryTypes` (`Spec => []TypeOK`: no hub has two user loops) and
`JoinedAreServed` (`Spec => []LoopServes`). Neither is inductive. The invariant
`IInv` adds that registry and connections know only hubs that were created
(`Created`: a new hub is nobody's yet), that a hub lists exactly connections that
joined it (`Listed`), that a hub under `RebuildHub` is out of the registry while
its loop still counts as running (`Rebuilt`: so clearing the flag cannot hurt the
registered hub), and that whoever is past `StartIfIdle` on the registered hub has
a loop (`Started`). TLC checked `IInv` on the instance of `registry` first.

`ConnectionLifecycleProofs` proves, for any sockets, capacity, timeouts and
intervals, `LifecycleTypes` (no send queue exceeds its capacity),
`EveryOpenIsWatched` (`Spec => []OpenIsWatched`) and `OnlyTheBreakerLeaks`
(`Spec => []OnlyBreakerLeaks`). The invariant adds that ending the provisional
connection closes the shared socket (`ProvDead`, which needs `Fresh`), that a
promoted connection leaves its hub only with its socket (`Joined`: so removing
the pending hello leaves nobody unwatched), that a closed connection still in
its hub was closed by a full queue or is being removed (`Marked`, which needs
`Late`), and that a finished read loop has closed its connection.

`UserAccountsProofs` proves, for any users, requests, number of commands and
largest version, `AccountTypes` (every saved file is valid) and
`BarredStayBarred` (`Spec => []BarredForGood`). The argument: the watermark is
above every version in the file, in the tables read from it and in every token
(`Below`), so a version the file has left is never written again; and the
server's table, a table just read and the file supersede a token only in that
order (`Follows`, with `Agree` for a token that is about to be issued).

`VersionRecoveryProofs` proves, for any users, savers and bound on versions:

* `SystemTypes`: `SystemSpec => []SystemTypeOK`;
* `SystemIsStore`: every step of the composition is a step of the store or leaves
  it alone (for which the winner of an election must be a version: `WinnerIsHighest`,
  by well-founded induction), so the theorems about the store carry over;
* `VersionsAreNotReused`: `SystemSpec => []NoVersionReused`. The invariant (`HubInv`)
  adds that the store is never behind the hub nor behind what a connection has
  read, that a closed window leaves the hub at or above every candidate (so a
  client that brings back what was told repairs it), and that in a hub that is not
  `raced` one goroutine at a time has a version in hand, the next one. A race harms
  only the hub it happens in: whatever was told stays below what the store holds, so
  a hub made from a fresh read is right again;
* `StopLosesNothing`: `SystemSpec => []StopKeepsTold`. `SafeInv` says that what may be
  told is in the file, marked dirty, or in the hands of a `Flush` that will still
  copy or write it; `StopInv` says that the last `Flush` runs alone, so a clear flag
  means that the file has it.

`UserHubProofs` and `UserHubDeliveryProofs` prove, for any connections, clips,
hellos, capacities and bounds, with both goroutines that apply clips:

* `HubTypesHold`: `Spec => []TypeOK`. `Types` adds what the queues and the locals
  of the goroutines hold between two mutexes;
* `AnnouncedIsSaved`: `Spec => []SavedBeforeAnnounced`. `SavedInv` says it of every
  text that can still reach a client: the hub's latest, those in the ring, and
  those a goroutine or an `AddConnection` holds;
* `NobodyMissesTheWelcome`: `Spec => []EveryoneWelcomed`. `WelcomeInv` says who owes
  the welcome before the hub is quiet: a connection that found the window open is
  among the connections until the closer copies them, and in the copy after that;
* `WindowRestoresTheBest`: `Spec => []BestCandidateRestored`. Until the window closes
  the hub is as it was created (`BeforeClose`); that the election finds a candidate
  no other precedes, for any number of them, is a lemma by well-founded induction;
* `ClipsAreAnswered`: `Spec => []EveryClipAnswered`. `OnePlace` is a balance: what a
  live connection sent is what was answered, plus its clips among the jobs, in the
  recovery queue and in the closer's backlog, plus those that are being applied
  (`OnlyPanicsLose`: only a panic of the user loop makes a clip disappear);
* `LateHubIsGapless` and `LateHubConverges`: `GaplessVersions` and `Converged`, for a
  hub created after the recovery window (`WindowOverAtStart`). `NothingWaits` says
  that nobody is served before such a hub closes its own window, so the closer
  never applies a clip and `Numbered` is inductive. `Told` says that a connection
  that joined has the latest text or that it is on its way, in its welcome or in
  the targets of the broadcast; `AppliedInv`, that two texts of one version are the
  same. Without the assumption both are false: see `hub_race`;
* `LateHubOneText`: `OneTextPerVersion` for such a hub, from `GaplessVersions`. It
  is the property `hub_race` violates, so the race takes a hub that was there
  during the window;
* `LateHubKeepsRepeats`: `RepeatKeepsVersion` for such a hub and a ring of any
  size. `RingHolds` compares the ring with the clips it has been given: its slots
  are their ids, backwards from the one written last (`InOrder`); each entry is
  the text of the last use of its id (`LastUses`); and an id used within
  `RingCapacity` clips is there unless an older use of it was overwritten since
  (`Remembers`). `InHand` adds that between the check and the install nobody
  changes what the check found, which two appliers would;
* `LateHubIsSerial`: `ImplementsSerial` for such a hub. `Install` is the step that
  applies a clip; the check, the reservation and the ring are not seen; a welcome
  and a broadcast tell what was applied (`AppliedInv`); the answer to a repeat is
  the last use of its id (`LastUses`) and that to a new clip is the last one
  applied (`InHand`); a clip is never queued for the window (`NothingWaits`); a panic is `Fail`.

`RateLimitsProofs` proves, for any burst, rate, limits, window, addresses, users
and requests, `LimitsTypes`, `ClipsWithinBurst` (`Spec => []BurstBound`),
`NoTokenLost` (`Spec => []NeverStingy`), `AttemptsAreLimited`
(`Spec => []AttemptsLimited`) and `MapStaysBounded` (`Spec => []KeysBounded`). For the
bucket the invariant adds that its tokens are at most what each interval of
grants up to now leaves (`TokensBelow`); for the limiter, that a window is a
suffix of the attempts counted, and what was dropped from it is a minute old
(`WindowsGood`), which survives a cutoff in the past because expiry only takes
times off the front.

The only assumptions are that the bounds (versions, hubs, capacity, timeouts)
are natural numbers, and positive where zero makes no sense, that addresses
and users are different keys, that the hub's user and goroutine are among the
store's, that clips and hellos have the fields the code reads (client ids and
times are numbers, for only their order matters), that no connection is named
like a goroutine, and that the empty string of an unused slot is no id
(`protocol/protocol.go:263` refuses a clip without one). TLC checked each inductive invariant first. Liveness (`ReachesFile`, `EventuallyWelcomed`,
`EventuallyAnswered`, `HelloOrTimeout`, `DeadAreReaped`, `ShutdownCompletes`,
`CatchesUp`) is model-checked only, on the instances above; every other property
of a passing run is also proved.

## What is not modelled

The wire protocol, configuration, certificates and logging are sequential
transformations or output without state of their own: a function from text to
records and back, a table of limits read once, files decoded at start. Their
correctness is a matter of strings, byte by byte, and not of steps; in the models
a clip, a hello and an answer are abstract values, and the limits are constants
with the assumptions that the validation of the configuration ensures.
Cryptography is a library. The installer and the load probe are not part of the
server.

Within the modelled parts these are left out, and each is said at its module:
`UserHub` and `VersionRecovery` have one hub at a time (`HubRegistry` has several,
without clips), and the users file
is changed by one command at a time although `CliLock` shows two.

## Order of the modules

The store and its ledger come first, then the hub with ring and election, then
the registry, the connection and the accounts around it, then the composition of
store, hub and clients, the limits and the lock. What would come next is a
`UserHub` over several hubs, and the theorems about a late hub for every hub whose closer finds no clip
to apply, with a restored text as the first entry of the log.

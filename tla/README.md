# yggss in TLA+

yggss carries Shadowsocks connections between a client node and a server node
over a Yggdrasil mesh (the "h2" channel) and, when UDP to the server works,
over a direct QUIC connection (the "h3" channel). This directory holds its
specifications: what the goroutines of the program do to the state they share,
what TLC checks about it on small instances, and what TLAPS proves about it for
every instance.

## Inventory

| component | source | state | operations | interacts with |
|---|---|---|---|---|
| direct path manager | `direct.go` `directClient` | `mu`, `qconn`, `tr`, `failUntil`, `verifiedUntil`, `probeRTT` | `openStream`, `dropAndFail`, `watchConn`, `MarkVerified`, `MarkFailed`, `connAlive`, `probeHealthy`, `Close` | called by handlers and prober; one watcher goroutine per connection |
| background prober | `direct.go` `startProber` | timers, `failStreak`, `wasVerified` | one loop iteration per timer | path manager, `meshActive`, `lastActivity`, `probeState` |
| channel selection | `tunnel.go` `client` | `probeState`, `lastActive` | `handle`, `openStream` | path manager first, mesh channel otherwise |
| mesh channel | `tunnel.go` `client.openStream`, `watchMeshConn` | `c.mu`, `c.qconn` | dial, open, drop, watch | node peerings |
| tunnel stream | `tunnel.go` `pipe`, `handleStream`, `handleProbeStream`, `direct.go` `serveDirectConn` | two TCP connections, one QUIC stream, traffic counters | peek, dial, copy, close | application, Shadowsocks server, prober (echo) |
| failover monitor | `failover.go` | `state`, `bad`, `good` | one sample per tick | adds and removes the direct peering of the node |
| node wrapper | `node.go` | peerings (in the Yggdrasil core) | `AddPeer`, `RemovePeer`, `Peers` | all of the above |
| start-up | `main.go`, `config.go`, `sip003.go`, `api.go` | local variables of `main` | file, environment and flags are merged, the parts are started | decides which components run |
| status log | `stats.go` | counters of the last report | `report`, `reportTransit` | reads everything |

Hard behaviours, and what makes each component correct:

* **path manager** - `d.mu` is held across network calls and released by hand;
  dials, drops by three kinds of goroutine and deaths of connections interleave.
  Correct: no connection or socket is left behind, the current one is watched,
  nobody closes the streams of others without a verdict, everyone gets `d.mu`.
* **prober** - five timer configurations, a failure streak, a verification that
  expires while a probe is under way. Correct: a good path is verified again
  after any history; a black-holed one is given up although QUIC reports nothing.
* **tunnel stream** - four copy loops on two machines, half-closes, a peek with a
  deadline, a QUIC connection that may die under it. Correct: bytes arrive
  unchanged and in order, both ends are torn down when one goes, probes are
  answered and never forwarded, the counters say what was carried.
* **failover monitor** - samples of a link that changes meanwhile, calls that
  fail, a last peering that takes the prober with it. Correct: hysteresis in both
  directions, and both the peering and the direct path come back.
* **start-up** - three sources with a rule per field, one of which may name another.
  Correct: the documented precedence, addresses on the right side of the tunnel, no
  whitelist lost by the merge, a monitor only where it was wanted.
* **mesh channel** - the same shape as the path manager, with other rules.

## Modules

| module | models | status |
|---|---|---|
| `SingleConn` | abstract: what a channel promises the streams it hands out | done |
| `DirectPath` | path manager, prober, watchers, direct half of `client.openStream`; implements `SingleConn` | done |
| `MCDirectPath` | its instances for TLC | done |
| `DirectPathProofs` | its theorems | seven |
| `ProbeClock` | the prober, its timers, deadlines, TTL and cooldown in seconds | done |
| `ProbeClockProofs` | its theorems | four |
| `MeshChannel` | mesh half of `client.openStream`, `watchMeshConn`; implements `SingleConn` | done |
| `MeshChannelProofs` | its theorems | four |
| `TunnelStream`, `MCTunnelStream` | one stream, four copy loops, peek, probe | done |
| `TunnelStreamProofs` | its theorems | four |
| `Failover` | the failover monitor and its node calls | done |
| `Peerings` | `Failover` composed with the other peers, `meshActive` and the prober's verification | done |
| `FailoverProofs` | theorems of both | four |
| `Startup` | `main`: merge of flags, file and plugin options, and the parts it starts | done |
| `StartupProofs` | its theorems | five |

In all of them a caption next to a definition marks a *faulty variant*: the same
operator with a plausible mistake in it. The variants are not used by any
specification; they are there to see that each property notices its mistake.

### SingleConn

The promise both channels make to their callers: one connection at a time; a stream
starts on the current connection while it is alive and stays with it; the next
connection is installed only when nothing of the one before is open. Its steps are
`Install`, `End`, `Forget`, `Ride`, `Leave`. `DirectPath` maps `qconn`, the open
connections and the connections of piping users to it. `MeshChannel` does the same, with
one difference: a connection that was dialled and has no stream yet is not part of the
channel, because `client.openStream` caches it only afterwards.

### DirectPath

State: `mu` is `d.mu` (who holds it), `qconn` and `tr` the connection and its
transport, `cooling` is "now is before `failUntil`", `verified` is
`IsVerified()`, `baseline` is `probeRTT > 0`; `cst`, `sock` and `watch` are what
the code does not hold in one place: the context of every connection, the UDP
sockets open, the watcher goroutines. `pc` and `on` say where each caller is and
which connection its stream is on. `failStreak`, `wasVerified` and `armed` are
the prober's locals (`armed`: the timer channels that are not nil).

| action | code |
|---|---|
| `OpenEnter`, `OpenOnCached`, `Dial`, `OpenOnNew` | `openStream`, cut where it blocks or unlocks |
| `MarkFailed`, `ShowFallback` | `MarkFailed` and the `setProbeState` after it, after the unlock |
| `Accept`, `CheckVerified`, `UserRecheck`, `UseMesh`, `EndPipe`, `StreamBreaks` | `client.handle`, direct half of `client.openStream` |
| `Tick` ... `Advertise`, `DropAndFail` | one iteration of `startProber` |
| `WatcherWakes`, `WatcherMarks` | `watchConn` |
| `Expire`, `CooledDown`, `ConnDies`, `Outside` | time, the peer, the network |

An action is what happens between two points where another goroutine can get in:
a lock taken or released, a blocking call. `verifyMu` and `probeStateMu` guard
one assignment each, so their sections are single reads or writes. The start of
the watcher is merged with the unlock before it.

Time is abstracted: the TTL and the cooldown may end at any moment, a ticker may
fire whenever its channel is armed. This contains every timing the program can
have, and more: what holds here holds for every value of `directretry` and of the
constants of `direct.go`. What is true only of particular durations is not
stated. Left out: `Close` (no caller in the program), the `node == nil` branches
for tests, the values of round-trip times (a probe is prompt, or slow once there
is a baseline).

### ProbeClock

The same loop with time. A second passes only when nobody can go on at once (`Urgent`),
so calls that need no answer take no time, and every wait ends by an event or at its
deadline. `due` and `ready` are the three timers (a ticker keeps one unread tick; `Reset`
discards it), `verify` and `cool` the seconds left of TTL and cooldown. A dial or a
round trip begun on a good path (`clean`) is answered within the second; one whose path
turned meanwhile may be answered or run into its deadline; on a black-holed path nothing
comes back and nothing is reported.

The prober locks `d.mu` in four places (`Waiting`): `openStream`, `connAlive`,
`dropAndFail` and, with the echo in hand, `probeHealthy`, before the path is marked as
verified and the slow ticker starts over. Users of the verified path stand in line for
the same lock (`line`); the one who has it blocks in `OpenStreamSync` while the peer's
stream limit is reached, up to its deadline, then the next one does. Go hands a mutex
over in the order of arrival as soon as somebody has waited for a millisecond, so those
in line before the prober (`place`, some or all of `line`: when the lock is just free the
prober may get in first) go before it and those who come later do not. The code does not
limit the number of users in line; `MaxLine` does. Reduced with respect to
`DirectPath`: mesh and user activity are constantly there, connections die only by the
prober's verdict (QUIC's own timeout is two minutes, longer than every bound here), and
the answer of a probe that took a second or more may or may not be healthy, since that
depends on the baseline.

### MeshChannel

The whole call runs with `c.mu` held (`defer`), so the module has one lock holder
in four places: opening on the cached connection, about to dial, dialing, opening
on the new one. Differences from the direct path that the module keeps: any
failed open closes the connection; a cached connection without a peering under it
is dropped; a new connection is cached only once it has a stream; there is no
cooldown. `net` is the way to the server beyond the peerings.

### TunnelStream

One stream, opened by a user or by the prober. `q[ch]` holds the bytes under way
on each leg and direction, `fin` who has closed; each of the four `copyCount`
loops is `CopyRead`, `CopyWrite`, (`CopySent`), `CopyEnds` and keeps its byte in
`buf`. The TCP peers may stop reading while they stay connected: a `Write` to such a
peer waits once the socket's buffers are full (`stalled`, set with any byte written),
until it reads again (`PeerReads`), goes, or the socket is closed. `handleProbeStream` is `Peek`, `EchoProbe`, `DialDst` with the deadline as
a choice; `streamWithPrefix` is `Prefix`. Bytes are tokens of the constant set `Byte`
(request, reply and ping are sequences of them), a read returns one.
A QUIC channel takes at most `Window` unread bytes; closing a QUIC stream ends
only its sending direction, closing a TCP connection both. The two mechanics come
from how quic-go and net behave and are marked external in the map. The counters
of the server (nil or never printed) are left out. The data legs of the direct and
of the mesh server are the same code and the same module.

### Failover

One action per sample: `GoodSample`, `BadSample` (direct state), `Probe` (mesh
state), with `RemovePeer` and `AddPeer` inside them because `Run` calls them in the
same iteration. The link, the endpoint and the node's willingness to add and
remove peers change between samples. Initially the peering may be missing: `main` goes on
with a warning when its own `AddPeer` fails. `recent` is a history variable, read by
`Patient` only.

### Peerings

`Peerings` extends `Failover` with what depends on the peering it toggles:
`client.meshActive` is true while the direct link or another peering is up, and without
it the prober skips its probes. The prober is reduced to what it leaves in
`verifiedUntil` (`ProbePath`, `Lapse`).

### Startup

The local variables of `main` are `value[x] = <<source, sense>>`: where a setting comes
from, and the one bit the program branches on. The flags and `SS_PLUGIN_OPTIONS` are
there initially, the file is chosen when it is read. `LoadConfig` merges it, `Plugin`
the options and the addresses, then `StartNode` and `Serve` or `Connect` start the
parts, and every `fatal` is an action (`NoConfig`, `NoNode`, `NoService`).
`serverkey` stands for all settings merged by the rule "nonempty or positive, unless the
flag is set": `key`, `password`, `scheme`, `sni`, the timeouts, periods and thresholds.

## Runs

| run | instance | shows |
|---|---|---|
| `direct_safety` | 2 users, 2 connections, lossy network, mesh and idleness vary; 2.7 M states | lock discipline, no leak, the current connection watched, only the prober's verdict kills, the display is in step with a probe (`DisplaySynced`), refinement of `SingleConn` |
| `direct_live` | 1 user, 2 connections, network up or black; 290 k states | `Upgrade`, `Cutover`, `EveryoneServed` |
| `clock` | the periods and deadlines of the code; up to two users in line; 4.7 M states | an undisturbed path stays verified; a black hole is cut within 99 s; a working path is verified again within 14 s |
| `mesh` | 2 handlers, 3 connections, every outage; 23 k states | no leak, watched, `FailsFast`, `EveryoneServed`, refinement of `SingleConn` |
| `stream` | 3 bytes up, 2 down, window 2, user and probe, peers that stall; 1.1 M states | `Intact`, `ReplyComplete`, `VerifiedByPlugin`, `BothEndsClose` |
| `failover` | `Peerings` with the limits of the code; 3.7 k states | `Patient`, `Removed`, `Restored`, `DirectRecovers` |
| `startup` | at most 5 settings given; 2.3 M states | `Precedence`, `OwnSide`, `OpenOnlyUnlisted`, `MonitorWanted` |
| `direct_cadence` | 1 user | violated: `FastAfterOwnDowngrade` |
| `direct_gonedrop` | 1 user | violated: `GoneDropSparesLiving` |
| `direct_queue` | 2 users | violated: `OpensNeverQueue` |
| `stream_counters` | as `stream` | violated: `TrafficReported` |
| `stream_pipes` | 4 bytes down, window 2 | violated: `PipesReturn` |

### Bounds

* *Connections.* An identity is used again once no handle, socket, watcher or
  stream refers to it, so a few identities stand for any number of redials. A call
  starts only while one is free (`RoomToDial`). Two cover the races that matter,
  one connection going while its successor is installed; the mesh run has three, for
  a second late watcher.
* *Users.* Two: one that holds the lock or a stream, one that races with it; the
  prober and the watchers come on top. Liveness runs take one user beside the
  prober, two callers in all, for the size of the graph.
* *Networks.* `lossy` allows whatever `up` or `black` does in each step, so it alone
  suffices for safety; the liveness properties are about the two pure conditions.
* *Streak.* `failStreak` stops at its limit: the code compares with `>=` and resets.
* *Bytes.* The request is one byte longer than the peek, so the prefix, the rest
  and the boundary occur; the reply is longer than one read. A window smaller than
  request or reply makes writers block.
* *Time.* `age` stops one second past the larger of the two bounds the properties state;
  all other clocks count down. 99 s and 14 s are the least values for which the run
  passes: with one second less TLC finds a counterexample. 14 s does not depend on the
  users. 99 s does, and is no bound for the code as such: it is what two users in line
  behind the one who has `d.mu` can cost (`MaxLine` = 2; it is 79 s for one, and without
  anybody at the stream limit a black hole costs two slow probes and a deadline, 23 s).
  With more users ahead of the prober it is longer, since each may use up the deadline of
  its `OpenStreamSync` with the lock held.
* *Settings.* Five (`MaxGiven`) are enough for a plugin with a file named by its options
  and three settings at odds, or a standalone client with all it needs and two more.

### Fairness

* Goroutines that can run do run: weak fairness for the copy loops and pipes.
* Goroutines that wait for a mutex: strong fairness per goroutine, since a Go mutex
  is handed to a waiter that has starved for 1 ms.
* Dials, opens, peeks and probe reads return: each has a deadline in the code.
* The cooldown ends and the tickers fire.
* Of the peerings the monitor restores again and again one comes up: strong fairness of
  `LinkUp`, as `AddPeer` makes the core dial at once and the monitor waits three ticks
  before it gives up. `DirectRecovers` also asks that the link stays good.
* Nothing is assumed of applications, Shadowsocks servers, peers or the network;
  where a property needs them to settle, it says so: `<>[]...`, and in `BothEndsClose`
  that no peer stays connected without ever reading again (`[]<>~Stuck`).

`stream*` runs and `startup` have deadlock checking off because a stream that is finished
and a program that has exited have nothing left to do; in all other runs a deadlock would be reported.

### What the code does otherwise than its comments say

* `FastAfterOwnDowngrade`: the prober that downgrades a verified path leaves only the
  slow timer armed, where `direct.go:773-774` promises the fast cadence.
* `GoneDropSparesLiving`: between the prober's `connAlive()` and its `dropAndFail` a
  user may redial; the drop then closes the living connection and its streams, which
  `direct.go:441-442` forbids.
* `OpensNeverQueue`: `openStream` calls `OpenStreamSync` on the cached connection with
  `d.mu` held; `direct.go:525-527` says it does not.
* `TrafficReported`: the log's rx is always 0 and its tx counts what came from the
  server (`stats.go:21-22`): both loops of `pipe` call `addTx`.
* `PipesReturn`: a copy loop blocked in `Write` on flow control is not released by
  `Close`, so `pipe` may not return (`tunnel.go:126-130`).

Seen while modelling, contained in the models and excluded by name from the properties
that hold:

* A healthy connection can be dropped because of the stream limit: a probe that waits for
  `d.mu` behind a blocked `OpenStreamSync` counts the wait as round-trip time
  (`direct.go:689`, 768-776), and two probes that cannot open a stream are a streak.
  `StaysVerified` therefore speaks of a path without that limit (`calm`), and
  `RegainedInTime` bounds what the drop costs.
* One failed probe brings the next one to the very moment the TTL ends
  (`direct.go:354-359`), so a single lost probe can cost the verification for one probe.
* A probe that comes too late for the peek is forwarded to `dst`, although
  `direct.go:141-143` says probes never reach it; `VerifiedByPlugin` shows that the answer
  of `dst` does not verify the path.
* `client_keys` of the file replaces `client_key` and an explicit `-clientkey`
  (`main.go:151-153` asks for a flag `clientkeys` that does not exist; `config.go:37-38`
  says "Combined with ClientKey"). A list of blank keys leaves no whitelist
  (`OpenOnlyUnlisted` names the case).
* A file without `log_interval` turns the status log off (`main.go:175`, `>= 0`), where the
  README of the program gives 30 as the default.
* A `-failover` flag is not obeyed, and yet silences the file: only file and options set
  `failoverSet`, and the file only if the flag is not given (`main.go:178-181`, 241-244,
  416-417). With `-failover=false` and `"failover": false` in the file a client with peers
  runs the monitor, against `main.go:79` and `config.go:10-13`. `MonitorWanted` says what
  holds: options and a file that is heard are obeyed, otherwise other peers decide.
* An application or `dst` that stays connected and never reads again can keep a stream for
  good: its loop waits in `Write` (`tunnel.go:141`, no deadline), the other machine's loop
  for the window, and a peer or a connection that ends meanwhile goes unnoticed where no
  loop reads. `BothEndsClose` fails without its hypothesis on the peers.
* If `main`'s own `AddPeer` fails (`main.go:379-380`), the monitor begins in its direct
  state all the same, cannot remove a peering that is not there, and so never comes to add
  it. `Restored` and `DirectRecovers` speak of a peering that was configured at the start.

## Proofs

All theorems hold for every value of the constants that satisfies the named
assumptions of the modules; TLC evaluates the same assumptions on the runs' instances.

### DirectPathProofs

For any sets of users and connections, any streak limit and any choice of `Nets` and
`Outages`:

| theorem | statement |
|---|---|
| `TypeCorrect` | `Spec => []TypeOK` |
| `LockHolds` | `Spec => []LockDiscipline` |
| `NoLeak` | `Spec => []NothingLeaks` |
| `Watched` | `Spec => []AlwaysWatched` |
| `KillsOnlyByProber` | `Spec => OnlyProberKills` |
| `DisplayInStep` | `Spec => []DisplaySynced` |
| `ImplementsSingleConn` | `Spec => IsSingleConn` |

Assumed: nil, users, prober and connections are distinct, and the limit is a positive
number. Types come first. The three
invariants are proved together (`LockAndConnection`, `Inv` is their conjunction) since
none is inductive alone: `Dial` installs a connection over the old value of `qconn`,
which leaks nothing only because a dialing caller holds the lock and has no current
connection (`LockDiscipline`); the watcher of the current connection still waits only
because a connection that left `qconn` is never current again before its watcher has
gone, which `Fresh` and the lock give. Two lemmas carry most of the steps: `QuietStep`
(a step that moves one caller between unlocked places and leaves lock and connection
alone) and `DropLeavesNothing` (what `dropConnLocked` establishes). `KillsOnlyByProber`
needs types only: every other `DropConnLocked` has a dead connection in its guard.
`DisplaySynced` is inductive by itself: only the prober shows a path as verified, and
never between the start of a probe and its verdict (`DisplayKept`).

`ImplementsSingleConn` is the refinement: initial states map to initial states, every step
to a step of `SingleConn` or a stutter. It needs one more invariant (`Aboard`, lemma
`AboardHolds`: a caller that opens on a new connection has it in `on`, a user elsewhere
has none), `NothingLeaks`
(so that `Dial` finds no open connection and is an `Install`), and the lemmas `RideKept`,
`DropEnds` and `Unseen` for the steps that touch one component of the mapping only.

### MeshChannelProofs

For any sets of handlers and connections that do not contain nil:

| theorem | statement |
|---|---|
| `TypeCorrect` | `Spec => []TypeOK` |
| `NoLeak` | `Spec => []NothingLeaks` |
| `Watched` | `Spec => []AlwaysWatched` |
| `ImplementsSingleConn` | `Spec => IsSingleConn` |

The inductive invariant `Inv` adds two parts to the checked ones. `LockHeld`: `c.mu` is
held exactly in the four places of a call, with a cached connection while opening on it
and none from the moment it was given up; without it a late watcher could clear what a
handler opens on. `Aboard`: a handler has a connection exactly where it opens on a new one
or pipes; it identifies the connection that is open and not cached yet.

### TunnelStreamProofs

For any request and reply, any receive window that holds a probe, and either kind of
stream:

| theorem | statement |
|---|---|
| `TypeCorrect` | `Spec => []TypeOK` |
| `StreamIntact` | `Spec => []Intact` |
| `NothingTruncated` | `Spec => []ReplyComplete` |
| `OwnEcho` | `Spec => []VerifiedByPlugin` |

Assumed: all are sequences over `Byte` (`ByteAssumption`), and neither request nor reply
begins with the probe's ping (`RequestAssumption`: to the program a request that does is a
probe, and a reply that does is its own echo). None of the properties is inductive, since a byte passes through several places.
The invariant (`Inv`, theorem `StreamInvariant`) says what the places hold together, one
direction at a time:

* `Up`, `Down`: what has been delivered begins the request (reply); as long as the last
  copier has lost nothing, so do delivered bytes, byte in hand, peeked prefix and stream
  together (`Held`); and as long as the first copier has lost nothing either, what it has
  not sent (`Ahead`) completes them. The three parts become false one after the other as
  copiers end, and each is needed to keep the one before it.
* `Answers`: either the reply flows as `Down` says or the plugin itself has echoed the
  probe and nothing of it is anywhere else; the prober has its echo in the second case only.
* `TakenDown`: the order in which an undisturbed stream is taken down: dst's end, the
  copier that reads it, the server's ends, the copier of the client, the client's ends.
  `NothingTruncated` is `Down` at the end of that order, when every place in between is empty.
* `Types`, `Limits`, `ClientShape`, `ServerShape`: what each handler holds where it is.

Concatenation is reasoned about through a small algebra (`Joins`, `Assoc`, `Unit`,
`ReadWrite`) and lemmas that say that moving a byte from one place to the next leaves the
whole as it was (`HeldFirst` ... `Crosses`, `AheadMoves`).

### ProbeClockProofs

For any positive periods, deadlines, streak limit and bound on the users in line:

| theorem | statement |
|---|---|
| `TypeCorrect` | `Spec => []TypeOK` |
| `NeverLapses` | `Spec => []StaysVerified` |
| `BoundedCut` | `Cut >= Worst => (Spec => []CutInTime)` |
| `BoundedRegain` | `Regain >= Back => (Spec => []RegainedInTime)` |

`Calm` strengthens `StaysVerified` to a schedule: between probes the slow tick is due a
whole period before the TTL ends, and a probe takes no time.

The two bounds are countdowns. `OnTime` says that the seconds since the path turned black
and the seconds that are left until the drop (`Rest`: wait for a tick, for `d.mu`, for the
call's deadline, and as many whole probes as the streak still needs) add up to at most
`Worst = lock + Limit * (tick + lock + call + lock) + lock`. A `lock` is a wait for `d.mu`,
`(MaxLine + 1) * OpenTimeout`: what the holder has left and a deadline for each user ahead
(`ToLock`); the first one is the wait of `probeHealthy`, with an echo that arrived
before the path turned. That is 220 s for the periods of the source and two users in line,
since it lets the line be full at every lock; that users come only while the path is
verified and that ticks pass during calls brings it down to the 99 s TLC finds. So 99 s is
checked, and that there is a bound of this form for all periods and lines is proved.

`Returning` is the countdown after an outage: the call under way runs into its deadline,
the connection may be dropped, the cooldown turns ticks away, then the next tick finds the
path (`ToCalm`). It adds up to
`Back = max(DialTimeout + FastPeriod, EchoTimeout + max(FastPeriod, RetryPeriod)) + Cooldown - 1`,
which is 14 for the source: the bound of the run is proved, and TLC shows that it is tight.
`Prompt` is the additional invariant (deadlines are kept, a call on a good path does not
wait for its own, without a connection there is nothing verified and no limit).

### FailoverProofs

For any positive limits:

| theorem | statement |
|---|---|
| `TypeCorrect` | `Spec => []TypeOK` |
| `Hysteresis` | `Spec => Patient` |
| `ComposedHysteresis` | `PSpec => Patient` |
| `ComposedTypes` | `PSpec => []PTypeOK` |

The inductive invariant is `InARow`: in each state the counter says how many of the latest
samples in the history were of that state and outcome. It is what the two `= 0` resets and
the failed calls could break. `OneMore` extends such a row by one sample, `HistoryKept`
says that the bounded history keeps as many as the limits need, and `HonestStep` that every
step of the monitor preserves `InARow` and toggles the peering only on a full row. Every
step of the composition is a step of `Failover` or leaves it alone (`MonitorAlone`), so the
theorems carry over to `Peerings`.

### StartupProofs

For any number of given settings:

| theorem | statement |
|---|---|
| `TypeCorrect` | `Spec => []TypeOK` |
| `StrongestSource` | `Spec => []Precedence` |
| `OwnAddresses` | `Spec => []OwnSide` |
| `OpenServer` | `Spec => []OpenOnlyUnlisted` |
| `MonitorOnlyWanted` | `Spec => []MonitorWanted` |

`main` overwrites its variables in place, so no state shows where a value comes from. The
invariant says for every stage what each variable must hold as a function of the sources
alone (`AfterFlags`, `AfterFile`, `AfterOptions`), and which parts run (`Parts`); theorem
`Stagewise`. The properties follow by comparing those functions with `Source`.

### Only model-checked

* Everything about liveness, whose proofs would need fairness and ENABLED, which are
  beyond the prover: `Upgrade`, `Cutover`, `EveryoneServed`, `FailsFast`, `BothEndsClose`,
  `Removed`, `Restored`, `DirectRecovers`.
* That a black hole is cut within 99 s with two users in line (the proved bound is `Worst`).
* The five runs that expect a violation.

## Not modelled

* QUIC, TLS and Yggdrasil themselves: connections open, die and answer or not;
  certificates are not modelled. So the listener, the addresses and the TLS
  configuration of `direct.go` are not either.
* `node.go` beyond add, remove and "some peering is up".
* The report of the status log and `reportTransit`: text for a log that nothing reads.
* The moving average of `probeHealthy`; `lastActive` against the traffic of a stream (the
  prober and the copy loops together are beyond TLC).
* How long a handler may wait for `c.mu`: each queued handler may dial for its own
  deadline, and only that the queue drains is checked.
* `directClient.Close` with `stopProber`, `findConfigPath` and `directDial`, which only
  tests call.

## Plan

Done: all modules above, and a theorem for every invariant, action property and refinement
the runs check. Next: a bound for `CutInTime` closer to what TLC finds, with the TTL in the countdown, in place
of `Worst`; the steps that the liveness runs rest on (which step each state of the prober
leaves by) as invariants.

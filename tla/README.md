# TLA+ models of cloud-event-proxy

cloud-event-proxy runs next to linuxptp-daemon on a node.  It reads the log
lines of ptp4l, phc2sys, ts2phc, chronyd and others from a Unix socket, derives
the synchronisation state of every clock from them, and publishes a cloud event
whenever a state changes.  Subscribers act on those events, so an event that is
lost, late or wrong is the failure that matters.  This project models how states
and events come about, checks the models with TLC and proves the main
properties with TLAPS.

Paths below are relative to `plugins/ptp_operator/` unless they start with
`cmd/`, `pkg/` or `plugins/`.

## 1. Inventory

| Component | State it keeps | Operations | Hard behaviour |
|---|---|---|---|
| Event manager (`metrics/manager.go`, `metrics/metrics.go`) | `Stats` per configuration and clock, `lastOverallSyncState`, process states | `ExtractMetrics` (one line, under `extractMu`), `GenPTPEvent`, `PublishEvent`, `GetNodeSyncState`, `processDownEvent` | two kinds of threads publish; check-then-act on `lastOverallSyncState` |
| Port and holdover logic (`metrics/ptp4lParse.go`) | port roles, one goroutine per holdover | `ParsePTP4l`, `startHoldoverTimer`, `handleHoldOverState` | the goroutine takes no lock; cancelled through a channel that several clocks share |
| OS clock discipline (`stats/os_clock_discipline.go`, `metrics/os_clock_discipline.go`) | phase, generation, settle timer | `Begin`, `Abort`, `SourceClockSelected`, `SinkClockSelected`, `ReArmSettle`, `Finalise`, `FinaliseIfGeneration`, `ClearOnRealtimeOffset` | a timer callback that has fired waits for `extractMu` while lines go on |
| Grandmaster, T-BC, DPLL, GNSS, SyncE (`metrics/logparser.go`, `event/event.go`) | dependency states per clock | `ParseGMLogs`, `ParseTBCLogs`, `ParseDPLLLogs`, `ParseGNSSLogs`, `ParseSyncELogs`, `UpdateCurrentEventState` | iteration order of maps, silent state changes |
| Statistics (`stats/stats.go`) | offsets, last state, alias, role per clock | `AddValue`, `MaxAbs`, setters, `CheckSource` | wrap-around, reset |
| Configuration (`config/config.go`, `ptp4lconf/`) | node profiles, thresholds, process options, port lists | `UpdateConfig`, `UpdatePTPThreshold`, `EnsureProcessOptions`, `WatchConfigMapUpdate`, the file watcher | a configuration that arrives after the start-up timeout |
| Plugin (`ptp_operator_plugin.go`, `socket/`) | the socket, publishers | `Start`, `processMessages`, `restartProcess`, `getCurrentStatOverrideFn` | `CMD RESTART` in the middle of anything; readers of maps that lines write |
| Alias cache and gate (`alias/`, `gate/`) | alias map, a one-shot gate | `SyncFromDaemon`, `GetAlias`, `Reset`, `Open`, `Wait` | none: the calls do not overlap (section 7) |
| Delivery (`cmd/main.go`, `pkg/common`, `pkg/storage/kubernetes`, the vendored store of sdk-go and API of rest-api) | bounded out channel, subscribers, failure counts, config map | `SendToChannel`, `ProcessOutChannel`, `cleanupConfigMap`, `InitConfigMap`, `UpdateConfigMap`, `createSubscription`, `deleteSubscription`, `deleteAllSubscriptions` | drop on a full channel, unreachable subscribers, records that overtake each other, failed updates, restart |
| CurrentState answers (`getCurrentStatOverrideFn`) | none: reads the statistics | a GET for each resource | has to agree with events that other code sends |
| Reporting (`metrics/registry.go`, `pkg/localmetrics`) | Prometheus gauges | setters | two series for one clock |
| Mock plugin, examples, plugin loader, REST client | none of importance | | |

How they interact: `processMessages` has one goroutine per connection, all of
which call `ExtractMetrics` and are serialised by `extractMu`.  `ExtractMetrics`
updates `Stats`, calls `GenPTPEvent`, which calls `PublishEvent`, which puts
events on the out channel that `ProcessOutChannel` drains.  Holdover goroutines
call `PublishEvent` themselves; settle callbacks first take `extractMu`.  The
configuration watcher replaces thresholds and process options underneath.

What makes a component correct:

* manager: the last event of a clock carries the state that is remembered; the
  node event is the worst of all clocks; E3 is not LOCKED while E1 is not;
* holdover: ends at its own timeout, exactly once, and not on account of another
  timer;
* OS clock discipline: FREERUN is raised exactly when a selection burst ended
  without CLOCK_REALTIME, never by a burst that was superseded;
* configuration: every running profile works with its own thresholds;
* telecom clocks: a reported state reaches the subscribers, and a GET answers what
  was pushed;
* delivery: events reach every subscriber that is owed them, in order and once;
  nobody is removed without cause; the config map follows the store, and a
  restart brings back what was there.

The list of what is hard to test, at its lines, is `hazards` in `PROJECT.json`.

## 2. Plan

| Order | Module | Content | State |
|---|---|---|---|
| 1 | `SyncStates`, `SyncStatesProofs` | states, `OverallState`, the table of `GenPTPEvent` | done |
| 2 | `OsClockDiscipline`, `OsClockDisciplineProofs`, `MCOsClock` | the phase machine with its timer and the E3 it writes | done |
| 3 | `PtpEventManager`, `PtpEventManagerProofs`, `MCPtpEventManager` | E1, E3 and node events, holdover, restarts; composes 1 and uses the outcome of 2 | done for ordinary and boundary clocks, with chronyd |
| 4 | `InOrderDelivery`, `EventDelivery`, `EventDeliveryProofs`, `InOrderDeliveryProofs`, `MCEventDelivery` | out channel, subscribers, config map, API handlers, restart; refines the abstract promise of the channel | done |
| 5 | `ConfigSync`, `ConfigSyncProofs`, `MCConfigSync` | start-up with timeout, changes of the profile file, the three caches, profile types; gives `Loaded` of 3 its meaning | done |
| 6 | `MainClocks`, `SyncEPorts`, `MainClocksProofs`, `SyncEPortsProofs`, `MCMainClocks` | T-GM, T-BC, GNSS and SyncE lines, silent state changes, CurrentState answers; composes 1 | done for one network card |

Dropped: a module for the alias cache and its gate, which no interleaving reaches
(section 7), and one for pure operators: SyncE levels and GNSS fix states have
their place in 6.

Left: several cards in 6.  Every safety property that a run checks on 2 to 6 has its
theorem (section 5).

## 3. What is modelled

### SyncStates

Pure operators.  `OverallState` is the function of `manager.go`; `Worst` is its
reference definition on sets.  `GenState`, `GenStores`, `GenPublishes` and
`GenCancels` are `GenPTPEvent` read as a table: from the remembered state, the
sampled state and whether the offset is in range, what is remembered afterwards,
whether a store happens, whether an event is published (with the exception for
E1 going from HOLDOVER to FREERUN), whether the holdover channel is closed.
Offsets occur only as `inRange`; a state other than the three, which the parsers
cannot produce, is left out.

### OsClockDiscipline

One configuration.  The methods of `OsClockDiscipline` are operators of the
same name on `phase`, `selectGen`, `settle`; each class of phc2sys line is an
action that performs the whole handler.  A line is atomic because
`ExtractMetrics` holds `extractMu`.  The timer is not: `SettleFires` starts the
callback at any time and `SettleCallback` runs it when it gets the mutex, so
that lines come in between; `stopSettleLocked` does not reach a callback that has
started.  `callbacks` is therefore a set.

A chronyd line carries `chronyd.N.config` and a phc2sys line `ptp4l.N.config`, so
that each process has a CLOCK_REALTIME stat, and thus an E3, of its own; they share
the profile, its options and the `clock_state` gauge, in which
`clearStaleClockRealTimeMetric` removes the series of the other one.  `crExists`,
`e3` and `e3Pub` are therefore functions of the process.  A process going down and a
port becoming SLAVE are included because they write the same state, event and
series.  `Running` is which processes log, `Opts` which the loaded
options name (none while options are missing).  `sourceSeen` and `dismissed` are
history variables.  `Reset` has no caller outside tests and is left out.

### PtpEventManager

Any number of configurations of type ordinary or boundary clock, with two clocks
each: E1 (`master`, ptp4l) and E3 (CLOCK_REALTIME).  The configurations in `Chronyd`
are those of chronyd: they have a CLOCK_REALTIME stat, which is only ever LOCKED or
FREERUN, and nothing else.  `last` is `LastSyncState`,
`pub` what subscribers were told.  `thr` says what every thread is doing: the
thread that holds `extractMu`, and a bounded set of holdover goroutines.

A line is one step that reads what it depends on, followed by one step per access
to shared state: `Store` (with `SafeClose` when a holdover ends), `Publish`,
`CompareNode`, `PublishNode`, `UpdateSyncState`.  The goroutine's steps are
`Expire` (from here it can no longer be cancelled), `Check`, `Set`, and the same
publication steps.  This granularity is what makes the unlocked check-then-act
sequences visible.  `GetNodeSyncState` and the comparison with
`lastOverallSyncState` are one step: every finer order of its reads is followed by
the same three writes, and the runs that look for races find them already.

Line actions: `MasterOffsetLine`, `SummaryLine`, `ClockRealTimeLine`,
`UndisciplinedLine` (the outcome of OsClockDiscipline), `ChronydLine`,
`PortSlaveLine`, `PortRoleLine`, `PortFaultLine`, `ProcessDownLine`.  The second
call of `GenPTPEvent` in the CLOCK_REALTIME branch is omitted on the strength of
theorem `GenIdempotent`.  A handler that panics and is recovered has the effect
of what it did before; the cases are noted at the actions.

`slaves` starts as `ConfiguredRoles`, the roles `processConfigCreate` takes from the
configuration files.  `Loaded` is the set of configurations whose profile could be
read; thresholds and process options are loaded together (when that is so is the
subject of ConfigSync).  The loaded profile of a ptp4l configuration names phc2sys,
and chronyd as well if the configuration is in `Failover`.

`GetNodeSyncState` folds over the clocks in `Counted`: once any chronyd
configuration has reported, the CLOCK_REALTIME stats of phc2sys are left out, but
for the one whose event is being published, which comes in as `currentState`.
`told` remembers that clock, and `reporter` the process that reported
CLOCK_REALTIME last; both are history.

`Threshold` is `LookupEventThreshold` with its fallback: the profile's entry, any
other entry, or a default with a channel of its own (`Default`), which nobody else
can close.  `Restart` is `CMD RESTART`: all memory is lost, subscribers keep what
they were told, and `lastOverallSyncState` comes back from `metrics.json`.
Stored port roles do not: `LoadFromStore` runs before any configuration is
registered, so ports start again with the roles of the files.

`disturbed` is a history variable: two threads have been past their point of no
return at the same time, or a restart hit a publication.  Properties about events
that only hold otherwise name it, and the violation run `holdover_race` shows what
happens in the other case.  In such behaviours E1 and node events may differ from
what is remembered; E3 events (`E3Announced`) and timers (`OneTimer`) do not.

Not in this model: T-GM and T-BC (they have MainClocks), high availability,
gauges and offsets, mock mode, and caches that change at run time (ConfigSync).

### EventDelivery and InOrderDelivery

`queue` is the Go channel `EventOutCh` and `waiting` the goroutines blocked in a
send to it, first come first served as in the Go runtime.  Two kinds of threads
send: publishers of the plugin, whose `SendToChannel` gives up after a timeout
(`SendTimeout`; the caller learns nothing of it), and handlers of the REST API,
which send with no timeout.  `ProcessOutChannel` is one goroutine: it takes a
message (`ReceiveEvent`, `ReceiveSubscriber`), looks up the subscribers, and posts
to them one after the other in the order of a Go map, that is in any order
(`PostAnswered`, `PostFailed`, `PostUnreachable`).  `job` is where it is in that
loop.  The decision to remove a client and the removal (`CleanUp`) are two steps,
because a subscription may come in between.

The store of subscribers and the API handlers are vendored and are modelled from
their code.  The store locks its `Get` and its `Set`, and nothing in between.  Every
change of an entry is therefore two steps: one that takes a copy (`Subscribe`,
`Unsubscribe`, `PostAnswered`, `PostUnreachable`), and one that writes it back
(`CreateSubscription`, `DeleteSubscription`, `Save`) over whatever has been written
meanwhile.  A copy has a `failedCount` of its own and shares the `SubStore` behind a
pointer; `heap` holds the SubStores, so that two first subscriptions of one client
end up in two of them.  An old count may come back over a reset, and a removed
client may return.  `files` is what the client's file holds: `DeleteSubscription`
writes back the file it has read, `CreateSubscription` merges into it, and either
may fail (`FileFails`), which leaves the store changed and the config map as it
was.  A client that has reached the limit has Action DELETE until its next
subscription (`Marked`); what a walk reports of it deletes its record.

`DeleteAll` and the end of `Unsubscribe` walk the store and send one message per
client.  A walk takes every client as it finds it when its turn comes, and may be
blocked between two clients; other handlers go on meanwhile.

Abstractions: a subscription is known by its resource, so that a client that
unsubscribes and subscribes again has the same subscription; `Set` and the write of
the file, which follow each other, are one step, as are the removal of a file and of
its entry; the walks over the store's Go map, which take no lock, see every entry
whole.

`storage` is the storage type of this start (the config map and the files, the
files only, or the files with no Kubernetes client at all).  `Restart` is a
crash, `CMD RESTART`, or, with `keep` FALSE, a new pod: channel, calls and counts
are lost, files and config map are merged as `InitConfigMap` does.

History variables: `got`, the last event posted to a client; `owed`, the events
it has still to get; `missed`, posts since the start that did not reach it;
`stale`, the clients about which the config map need not be right (a failed update or
file, a client marked for deletion or removed, two handlers reporting at once, an old
entry that came back, a restart in the middle); `torn`, the clients whose file need
not be right (a write that failed or overtook another).

`InOrderDelivery` is the promise in abstract: a backlog, the message in hand, what
was got and what is owed.  Refinement: `backlog` is `queue` followed by the messages
of `waiting`, `current` is the event being posted.

| EventDelivery | InOrderDelivery |
|---|---|
| `Publish`, `ReportRecord`, `Walk` | `Accept` |
| `SendTimeout` | `Refuse`, behind a full buffer |
| `ReceiveEvent`, `ReceiveSubscriber` | `Take` |
| `PostAnswered`, `PostFailed`, `PostUnreachable` | `Deliver` |
| `CleanUp` | `Leave`, or `Forget` when it brings the process down |
| `Save`, `CreateSubscription`, `DeleteSubscription`, `Clear` | `Leave`, or a stutter |
| `Restart` | `Forget` |
| the other steps of handlers | a stutter |

### MainClocks and SyncEPorts

A T-GM or T-BC with one network card.  Its E1 comes in status lines of
linuxptp-daemon; every line is one step, because no holdover goroutine exists for
these clocks and `extractMu` covers the rest.  The model keeps two paths apart
that share no code: what is pushed (`e1`, `e3`, `node`, `gnssTold`, `classTold`:
the last event of each type), and what a GET answers, the `Pull` operators on the
statistics.  A stat is `Absent`, without a state, or in one of the three states;
the difference matters, since handlers create stats on the way and a T-GM status
before any line about the card panics on the missing one.

The upstream port starts with the role of its configuration file, SLAVE or not.
`told`, `reported` and `silent` are history: the state published last for the main
clock, the one in its last status line, and whether a process-down line changed
the stat without telling anybody.  The aggregate states of `event/event.go` are
left out: only tests read them.

`SyncEPorts` is the same for the synce4l lines of one device: lines about the
state and lines about the quality of a port fill one record in either order; the
first line about the device fills it differently from later ones.  It shares no
state with the clocks, and `MCMainClocks` runs one or the other.

### ConfigSync

The operator replaces the mounted profile file (`Write`); linuxptp-daemon takes a
content over, writes the ptp4l files and sends `CMD RESTART` (`Follow`,
`Restart`); the sidecar has three goroutines: the one-shot watcher of the file
(`Watch`), the start sequence, which waits a second for the watcher's token
(`StartWoken`, `StartTimeout` and the steps up to `StartLoad`), and a log line
that finds the options missing (`Ensure` and its steps).  They share
`NodeProfiles` without a lock, and each cache is filled by a step of its own, so
that the watcher may come in between.  `UpdateConfig` itself is two steps, in the
watcher and in the line: `UpdatePtpConfig` remembers the bytes as applied, from when
on another reader takes them for done, and `StoreProfiles` replaces `NodeProfiles`
and wakes the start.

A cache (`opts`, `settings`) is represented by the content it was filled from;
`thresholds` says so for every profile, because `UpdatePTPThreshold` adds and
replaces entries and never clears one.  Contents are a missing file, an empty one, a malformed one, or a set
of profiles and which of them are T-BC.  `types` is the profile type cached in
every registered configuration.  `moved`, `back` and `late` are history.

## 4. Runs

| Run | Instance | Shows |
|---|---|---|
| `os_clock` | phc2sys only, 3 windows, 4 timers | all properties of OsClockDiscipline |
| `os_clock_both` | phc2sys and chronyd, 2 windows, 3 timers | each process's E3 is announced; one series at most, showing its own process |
| `manager` | 1 configuration, 1 port, 2 goroutines, restarts; 441,930 states | events, node state, holdover, E3 against E1, end of holdover |
| `manager_two` | 2 configurations, 1 port each, 2 goroutines, up to the first overlap; 1,548,489 states | node state across configurations, one timer per configuration |
| `manager_takeover` | a ptp4l and a chronyd configuration of one profile, 1 goroutine, restarts; 652,290 states | E1 events and node state when chronyd and phc2sys alternate |
| `holdover_lost` | 1 configuration, 1 goroutine | violation: FREERUN during HOLDOVER is never announced |
| `holdover_race` | 1 configuration, 2 goroutines | violation: LOCKED remembered, FREERUN sent last |
| `node_reclaimed` | as `manager_takeover` | violation: chronyd's last word stays in the node state |
| `delivery` | 1 resource, buffer of 1, removal after 2 failures, 2 events, in four scenes (below); 100,640 states | delivery in order, config map and restart, removal, answers of the API |
| `clocks` | a T-GM or T-BC with 2 clock classes, or a SyncE device with 2 ports and 2 levels; 749,171 states | pushed events against status lines and against GET; E3 against E1 |
| `clocks_silent` | a T-GM or T-BC | violation: a grandmaster's FREERUN after ts2phc went down is never told |
| `config` | 2 profiles, 4 contents, 3 changes; 87,126 states | one content in all caches; the last content gets in force |

Properties of OsClockDiscipline: `E3Announced`, `UndisciplinedIsFreerun`,
`UndisciplinedHasEvidence` (no FREERUN on stale evidence), `WindowNeverStranded`,
`SeriesShowE3`, `StaleCallbackInert` (a step property: what a callback of an
earlier window may not do) and `WindowCloses`.  Of PtpEventManager: `E1Announced`,
`E3Announced`, `NodeIsWorst`, `OneTimer`, `HoldoverRunsItsTime`,
`OsClockFollowsE1`, `ExpiryHarmless` (step properties) and `HoldoverEnds`.

Properties of EventDelivery: `DeliversInOrder` (the refinement, with the promise
that every accepted event is finished with), `RemovalHasCause` (no client is given
up that has not missed `FailLimit` posts since the start, and nobody leaves the store
but by this, by `deleteAllSubscriptions` or in a restart; that the misses come in a
row does not hold, because an old count may be written back over a reset), `ConfigMapCatchesUp`, `RestartKeepsSubscriptions` and `ApiAnswers` (a
handler blocked on a full channel gets on).  Of MainClocks:
`StatusReachesSubscribers`, `PullAgreesWithPush`, `NodeNeverBetter`,
`OsNeverAheadOfE1`; of SyncEPorts: `SyncEPullAgrees`, with `PortsTypeOK` for the
levels' ranges.  Of ConfigSync: `OneContent`, `CachedTypeIsResolved` and
`LastContentInForce` (when the operator stops changing the file, its last content
is in force for good, except after a start that timed out, or when a content is
taken back before the daemon has seen it).

Several properties have an exception for a case in which the code does otherwise.
The case is then the subject of a violation run or of an observation in section 6,
and the property shows that there is no other: `disturbed` in `E1Announced`,
`NodeIsWorst`, `ExpiryHarmless` and `HoldoverRunsItsTime` (run `holdover_race`; a
restart in the middle of a publication); FREERUN during HOLDOVER in `E1Announced`
(`holdover_lost`); `silent` in `StatusReachesSubscribers` and `NodeNeverBetter`
(`clocks_silent`); a T-GM without a status in `OsNeverAheadOfE1`; `stale` and `torn` in
the two properties of the config map; `moved`, `late` and `NothingElse` in those of
ConfigSync (a change while the file is read, after which a restart is due; a start
that gave up waiting).  `DeliversInOrder` allows an event to be refused behind a full
buffer: what the publisher then believes is not its subject.

Bounds.  Two goroutines are enough for one timer to meet the next; a third would
only repeat the second.  Two configurations are the least for the node state to aggregate E1 and
E3 of different profiles.  One port per configuration takes E1 through every state;
that nothing depends on how many ports there are is left to the theorems.  Two
windows are the least for a stale callback; the third lets a callback outlive two of
them.  A port line
that would need a third goroutine does not occur (`PortFaultLine` asks for a free
slot).  `manager_two` stops at the first overlap (`Undisturbed`), where
`NodeIsWorst` no longer says anything; `OneTimer` does, and theorem `OneTimerAlways`
covers those states.  The run uses symmetry of the configurations.

In `delivery`, a buffer of one is full as soon as possible; two events, a record
and the handler's next message are enough to have a blocked sender behind it and
to see an order.  The run has four scenes, to keep the state space small: events to two
clients that only subscribe, one of which always answers; events to one client whose
entry a handler changes at the same time; two handlers that race about one client;
and one handler whose files may fail.  The process is restarted in all of them but
the second.  Two `SubStores` are enough for an old entry to come back over a
new one.  The theorems of section 5 hold for any number
of everything at once.  In `config`,
three changes allow a content to be replaced and taken back during one start.
The bounds of `clocks` are complete: nothing in that model counts.

Deadlock is checked in the runs of the clocks and the manager.  It is not in
`delivery` and `config`, where the system may rest for good: all events are
published and nobody calls, or the bound on changes is reached and all caches are
loaded.  That nothing is stuck there is what `ApiAnswers`, `DeliversInOrder` and
`LastContentInForce` say.

Fairness.  `SettleFires`, `SettleCallback`, `Expire` and the steps of a thread
that is in the middle of its work are weakly fair: the Go runtime fires expired
timers and schedules runnable goroutines, and `extractMu` is released after every
line.  In EventDelivery `ProcessOutChannel` as a whole is weakly fair (it runs for
ever and its posts have a timeout of two seconds), and each handler's remaining
steps are.  This takes it for granted that `UpdateConfigMap` returns: it is called
with `context.Background()`, so that a Kubernetes API that never answers would stop
the channel.  In ConfigSync the goroutines are, and the daemon follows the file and
repeats its command until the socket takes it.  Nothing is assumed of log lines,
publishers, API requests, the operator or restarts.  Because `MaxArms` bounds
re-arming, `WindowCloses` says that a window is closed once selection lines stop
coming; lines that re-arm the timer for ever would keep it open, as in the code.

Every property has a mutant in `PROJECT.json`: a plausible slip in the code, kept
next to the definition it replaces, that TLC finds with that property.

## 5. Proofs

`SyncStatesProofs` (no induction): `OverallFoldsWorst` and `OverallStateLattice`
show that the order in which Go iterates the maps does not matter to the node
state; `GenIdempotent`, `GenEffects` are used by the models.

`OsClockDisciplineProofs`, for any bounds and any assignment of processes:
`TypeCorrect`, `E3AlwaysAnnounced`, `UndisciplinedAlwaysFreerun`,
`EvidenceAlways`, `NeverStranded`, `SeriesAlwaysShowE3`,
`StaleCallbacksAlwaysInert`.  The inductive invariant has two parts: the window
part relates the timer and the callbacks to the current generation (no timer is
ever ahead of `selectGen`, a running timer belongs to the open window), the E3
part relates state, event and series of each process.

`PtpEventManagerProofs`, for any configurations, ports, goroutines, thresholds and
chronyd assignment:

* `TypeCorrect`;
* `E3AlwaysAnnounced`: needs `Programs` (goroutines and the log thread have
  disjoint programs, and goroutines only publish E1), `LineInv` (a line with more
  to do is working on E1; one that will start a timer has a goroutine) and `E3Inv`
  (E3 is announced but for the event about to be published);
* `E1AlwaysAnnounced`, `ExpiryAlwaysHarmless`, `OsClockAlwaysFollowsE1`: from
  `QuietInv`, which says what holds as long as `disturbed` is not set.  At most one
  thread is past its point of no return (`Solo`), what it has read is still so
  (`Doing`: a publication carries the remembered state, a store without a
  publication changes nothing or is FREERUN in HOLDOVER, an expiry about to store
  finds HOLDOVER), and E1 is told but for the event that thread is about to
  publish.  The properties speak of threads at rest or of single steps; `QuietInv`
  has to speak of every state in between, and of the thread that acts there;
* `OneTimerAlways` and `HoldoverAlwaysRunsItsTime`, assuming `Loaded = Configs`.
  `TimerInv` holds without the assumption: in a configuration with a threshold entry
  a waiting goroutine waits on that entry's channel, so that `startHoldoverTimer`
  reaches it, and is the only one.  `TimeInv` adds that nobody waits while another
  goroutine of the configuration is past its timeout: a timer is only started at the
  end of a line, when that line is the one thread at work.  For a configuration
  without an entry both can fail: with no entry at all the default threshold has a
  channel nobody can close, and otherwise `LookupEventThreshold` may take another
  entry each time;
* `NodeAlwaysWorst`, with any number of ptp4l and chronyd configurations.  `NodeInv`
  says of an undisturbed system that a node event in the making carries the worst
  state of the clocks that count and of the clock told last (`NodeState`), that the
  event published and the state remembered differ only between `PublishNode` and
  `UpdateSyncState`, and that with nobody publishing and E1 announced the state
  remembered is that worst one.  The clock told last has to be in it: an event of
  phc2sys's CLOCK_REALTIME enters the node state as `currentState` although the stat
  does not count beside chronyd, and is forgotten with the next event.

`EventDeliveryProofs`, for any clients, resources, publishers, handlers, storage
types, buffer size, number of events and limit of failures:

* `TypeCorrect`, including that nobody is blocked while the buffer has room;
* `RemovalAlwaysCaused`: `FailInv` bounds every failure count by the misses since the
  start, in the store and in every copy that a handler or `ProcessOutChannel` may
  still write back.  The copies have to be in it, since any of them may become the
  entry;
* `ConfigMapAlwaysCatchesUp` and `RestartAlwaysKeeps`: `MapInv` says what the
  records under way will make of the config map.  For a client that is not
  `stale` and that no handler has still to report on, the last word about it in
  buffer and blocked senders, or else the config map, is what the store holds.
  The invariant has to speak of the last word, since a record that is followed by
  another may be wrong.  `MarkInv` says that a client marked for deletion is
  `stale`, since the walks report it as deleted, and `FileInv` that the file of a
  client that is not `torn` holds what the store does.

`InOrderDeliveryProofs`: `DeliversInOrderSafely`, the safety half of the
refinement (initial states and steps map to those of InOrderDelivery).  `OrderInv`
says that events lie in the channel in the order of their numbers and beyond
whatever was posted; `OwedInv` that every event a client is owed is under way for a
resource it has subscribed to, or being posted with the client still to come.

`MainClocksProofs`, for any clock classes: `TypeCorrect`, `StatusAlwaysReaches`,
`PullAlwaysAgrees`, `NodeNeverBetterAlways`, `OsAlwaysFollowsE1`.  The invariant has
a part for each pair of a pushed value and the statistic behind it (`StatusInv`,
`E1Inv`, `E3Inv`, `GnssInv`, `ClassInv`), and `NodeInv`: while the node was told to
be LOCKED, neither clock is remembered as worse.

`SyncEPortsProofs`, for any ports and levels: `TypeCorrect` and
`SyncEPullAlwaysAgrees`.  `PortInv` adds to the property that a port something was
told of is known, so that the first line of a device, which also sets the state,
finds nothing told that it could contradict.

`ConfigSyncProofs`, for any profiles, contents and number of changes:
`TypeCorrect`, `OneContentAlways`, `CachedTypeAlwaysResolved`.  `SourceInv` says
that every cache, and whatever has been read and not yet stored, comes from the file
while that has not moved, `EntriesInv` that the thresholds follow the options, `OrderInv` in
which order they are filled, `WokenInv` that a start which was woken works with
profiles nobody replaces any more,
`TypesInv` that the registered types are those of the settings.

Apart from the hypothesis `Loaded = Configs` above, the proofs assume only the named assumptions
on constants (`OsClockAssumption`,
`ManagerAssumption`, `DeliveryAssumption`, `NothingAssumption`, `ClassesAssumption`,
`VersionsAssumption`), which TLC evaluates in every run.  `NothingAssumption` says
that the two model values for "nothing" are none of the things they are told
apart from.

Model-checked only: liveness (`WindowCloses`, `HoldoverEnds`, `ApiAnswers`,
`LastContentInForce` and the liveness half of `DeliversInOrder`), since the prover
does not handle fairness.

## 6. Findings

Four runs end in a violation of what a document or comment says; each is described
with its lines under `findings` in `PROJECT.json`.

1. `holdover_lost`: FREERUN stored during an E1 holdover is left to a timer that
   then finds nothing to do; subscribers keep HOLDOVER.
2. `holdover_race`: an expiry and a LOCKED sample may publish in the opposite
   order of their stores.
3. `node_reclaimed`: chronyd reports that it has no source; E3 and the node are
   FREERUN.  phc2sys takes CLOCK_REALTIME back and reports LOCKED; the series of
   chronyd is removed, but `ChronydActiveAsE3` stays true, so that chronyd's FREERUN
   counts, phc2sys's state does not, and the node stays FREERUN.
4. `clocks_silent`: a grandmaster is LOCKED and told so; ts2phc going down sets its
   state to FREERUN in silence; the FREERUN status that follows is no change, and
   subscribers keep LOCKED for E1 and for the node.

Observations that the models contain and no run is about:

* With chronyd enabled the phase of the OS clock discipline stays Undisciplined
  although nothing is published (`metrics/os_clock_discipline.go:147`), where
  `OS_CLOCK_DISCIPLINE.md:16` and `:31` speak of a published FREERUN.
* A T-GM publishes E1 from ts2phc lines as well as from its status: the test at
  `metrics/metrics.go:372` looks for the process on the stat `master`, against the
  comment at `metrics/logparser.go:414`.
* No profile ever gets the type TGM, so that the branch at `metrics/metrics.go:298`
  is dead, and a T-GM may report E3 LOCKED before its first status, against the
  comment at `metrics/metrics.go:288`.
* A SyncE port that a state line has created after the device's first line is
  answered without its name until a quality line comes (`metrics/logparser.go:727`).
* A change of the GNSS fix within one sync state sends no event, though a GET
  shows it.
* `EnsureProcessOptions` loads settings late without refreshing the types cached in
  registered configurations (`metrics/manager.go:682`).
* A content that the operator takes back before the daemon polls may be what the
  sidecar's caches were filled from until the next restart.
* The record of a removed subscriber stays in the config map, because
  `cleanupConfigMap` is given the publisher's client id (`cmd/main.go:337`); after
  a restart the subscriber is back.
* A `Set` of an old copy of a subscriber may undo a `ResetFailCount`, so that a client
  which has just answered is removed at its next miss, and may bring back a client
  that was removed; of two first subscriptions of one client made at once, one is
  lost until a restart reads the file (`v1/subscriber/subscriber.go` of sdk-go).
* A subscription whose file cannot be written is in force, though its creation was
  answered as failed, and is not in the config map.
* An event that is dropped on a full channel is remembered as sent
  (`pkg/common/common.go:333`).
* Port roles read back from `metrics.json` are dropped, as no configuration is
  registered by then (`ptp_operator_plugin.go:242`); process states are never
  saved.

## 7. Not modelled

* Alias cache and gate: the alias only names events and series.  `GetAlias` is
  called under `extractMu`, and the first synchronisation is over before the socket
  opens, so that `Reset`, `Open` and `Wait` do not overlap.
* High availability profiles: they set a gauge and let lines of several profiles
  through; no event depends on them.
* Offset statistics: they feed gauges, and the sampled offsets that the models
  abstract to "in range".  Standard deviations are floating point.
* Gauges other than the CLOCK_REALTIME series; log texts beyond what the parsers
  extract; the values of thresholds and the parser of ptp4l files.
* Several network cards of one clock, the ts2phc summary and nmea lines.
* A GET while a line is being handled: the unlocked reads of Go maps.
* Publish requests of the API, acknowledgements, and `ProcessInChannel`: nobody
  sends to its channel.
* Set-up of sockets, publishers and the plugin loader; the mock plugin and the
  examples.

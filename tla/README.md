# A verification development for mesh-reader

mesh-reader connects to a Meshtastic radio over a serial port or TCP, decodes
what the radio sends, keeps an in-memory picture of the mesh, persists events to
SQLite and to daily log files, serves a dashboard, and can send polite direct
messages ("DMs") to nodes that flood the channel. This directory holds TLA+
models of the parts of that program whose correctness depends on order, time and
failure, the TLC configurations that check them on small instances, and TLAPS
proofs about the most important ones for every value of the constants.

Contents

1. The system
2. What is hard about it
3. The modules, and how they correspond to the code
4. The properties
5. The runs, their bounds, and what they show
6. Fairness
7. What is proved, and how
8. Where the code and what is said about it differ
9. What is not modelled
10. The plan

## 1. The system

One process, a handful of goroutines, one mutex per component, one SQLite
connection.

```
 radio ──frames──> reader ──> read loop (app.go) ──> store   (memory, s.mu)
                                  │  │                  │  └─ subscribers ──> SSE ──> browsers
                                  │  └────────────> logger  (files,  l.mu)
                                  └───────────────> db      (SQLite, one connection)
 background loops (app.go):  auto-notify · offline scanner · retention · log compression · radio snapshots · heartbeat
 HTTP handlers (web/server.go): read snapshots, post settings, notify, reset, clear
 main: signal ──> Shutdown: web server, reader, logger, database
```

| Component | State | Operations | Talks to |
|---|---|---|---|
| Connection and read loop, `app.go`, `reader/reader.go`, `main.go` | the current reader, the config phase with its two timers, the backoff | connect at startup, handshake, read a frame, safety net, end of the config phase, reconnect, shutdown | calls decoder, logger, store, db for every event, in this order |
| Auto-notify scheduler, `app.go` | nothing between passes; configuration snapshot, report, budget and pass time within one | minute tick, mark and unmark flags, count, grace and cooldown checks, send, audit row | store (report, flags, configuration), db (audit table), radio |
| Node availability, `store/diagnostics.go`, `db/diagnostics.go` | in memory: last heard and online bit of each node; in the database: one row per transition | mark heard, scan for silent nodes, insert a transition, sum the uptime | read loop and scanner write, handlers read |
| Event ring and table, `store.go`, `db.go` | ring of 10000 events, head, total; table `events` | add, read back, insert, load at startup, set the total, retention | read loop writes, handlers and `/events` read |
| Daily logs, `logger/logger.go` | per stream: date, file, buffer; time of the last flush | log, rotate, flush, compress old files, close | read loop writes, daily loop compresses, shutdown closes |
| Dashboard API, `web/server.go` | none of its own | snapshots as JSON; notify now, reset, clear log, post configuration; status pills | store, db, radio, configuration file |
| Rate buckets and Misbehaving report, `store.go` | per node: time-stamped samples by category, thresholds | track a packet, trim, report, reset, change thresholds | read loop writes; scheduler and handlers read |
| Subscribers and stream, `store.go`, `server.go`, `static/sse.js` | per subscriber a channel of 64 events | subscribe, publish without blocking, unsubscribe, reconnect | read loop publishes, browsers consume |
| Node table, `store.go`, `store/dx.go`, `db.go` | nodes, links, conversations, class counters, traceroutes, long-distance records; tables `nodes`, `traceroutes` | update for every event, save a row, load, rebuild links, replay | read loop writes, handlers read |
| Anomaly detectors, `store/anomalies.go` | a dozen small memories, the times of the last flags, a ring of 200 anomalies | look at every event, flag, collect old entries | called within `Add`; handlers read |
| Radio health, `store/radio.go`, `db/radio.go` | counters, minute buckets, one accumulator per sender and relay; table `radio_snapshots` | take a firmware line, report, save a snapshot | read loop writes; handlers and snapshot loop read |
| Hop scale, isolation report | three numbers; none | set; compute from ring and node table | read loop writes, handlers read |
| Schema, `db.go` | the tables, columns and version of the database file | create, add columns, set the version | before any other goroutine exists |
| Framing and port detection, `reader/reader.go` | the byte stream, the write mutex | find the two start bytes, check the length, read the payload; write a frame | radio; written to by heartbeat, handlers and scheduler |
| Decoder, firmware log parser | none | frame to event, log line to class | read loop |
| Configuration file, `main.go`, `server.go` | one JSON file | load at startup, save on request | dashboard |

`PROJECT.json` lists these parts and the smaller ones with their status.

## 2. What is hard about it

* **Decide, act, record are three steps.** The scheduler queries the audit
  table, writes a DM to the radio and inserts the row; the scanner decides under
  the lock and inserts afterwards; the read loop stamps an event, adds it to the
  store and inserts it. Dashboard requests, the other loops and crashes fall in
  between.
* **Snapshots.** A scheduler pass works on a configuration, a report, a budget
  and a time that it read once, and a pass takes seconds.
* **Errors that are logged and forgotten.** A failed query reads as "never
  notified"; a failed insert leaves no trace of a DM that went out; a failed flush
  makes a buffered writer drop every later line of the day.
* **Restarts.** The tracker, the flags and the ring start empty, while the tables
  and files say what they said.
* **Two ways to the same reader.** The browser loads events with requests and
  receives them as a stream; a start loads part of the memory from rows, replays
  part and forgets the rest.
* **Statements committed one by one**: the rows of one packet, and the migration of
  a database, may be cut off anywhere.
* **Lists trimmed lazily**: detectors, minute buckets and sample lists drop old
  entries only when a new one comes, while their readers speak of exact windows.
* **The same decision computed twice.** Two HTTP handlers recompute from their own
  queries what the scheduler will do next.
* **Loops that must make progress**: out of the config phase, back to a
  connection, out of everything at shutdown.
* **Edges of windows**: hour, cooldown, grace period, offline threshold, retention,
  midnight.

Each hazard is listed in `PROJECT.json` at the line where it bites, with the
properties that cover it or the reason why none does yet.

## 3. The modules, and how they correspond to the code

One action is one critical section of the code: a store method under its mutex,
one SQL statement, one frame, one file operation. Between two of them anything
else may happen. Variables marked *history* in the modules exist for the
properties only; no guard reads them. "Faulty variant" operators are the
plausible bugs that each property is tested against (`PROJECT.json`, mutants);
nothing else uses them.

| Module | Models | Composes |
|---|---|---|
| `AutoNotify` | the scheduler loop, the audit table, the requests and everything beside it | |
| `NotifyStatus` | what two HTTP handlers say about the scheduler | extends `AutoNotify` |
| `Connection` | the radio connection, the read loop and the shutdown | |
| `Framing` | frames on the line: writers under the mutex, scanner, timeouts | |
| `NodeTable` | the node table and all that `Add` derives from a packet, its rows, and the restart | |
| `Anomalies` | the anomaly detectors | |
| `Radio` | radio health: lines of the firmware log, report, snapshots | |
| `Availability` | read loop, scanner, table and uptime sum | |
| `EventHistory` | abstract: what the event store promises | |
| `EventRing` | ring buffer and table, shown to implement `EventHistory` | instances `EventHistory` |
| `Stream` | subscriber channel, stream handler, browser | |
| `Schema` | opening and migrating the database | |
| `DailyLogs` | log streams, rotation, compression, close | |
| `RateBuckets` | the samples and thresholds behind the Misbehaving report | |
| `Connection_proofs`, `Availability_proofs`, `NodeTable_proofs`, `RateBuckets_proofs` | theorems about the module they are named after | extend it and TLAPS |
| `AutoNotify_proofs` | theorems about the scheduler and the dashboard | extends `NotifyStatus` |
| `EventRing_proofs` | theorems about ring and table, the stream, and the two side by side | extends `MCEvents` |
| `DailyLogs_proofs` | theorems about the logs, and about logs and nodes side by side | extends `MCDays`, instances `Availability_proofs` |
| `Reception_proofs` | theorems about the anomaly list and the detectors, frames and the radio report | extends `MCReception` |
| `MCAutoNotify`, `MCNotifyStatus`, `MCAvailability`, `MCRateBuckets`, `MCNodeTable` | model values and small constants for TLC | extend the above |
| `MCDays` | `DailyLogs` and `Availability`, side by side | extends `DailyLogs`, instances `Availability` |
| `MCEvents` | `EventRing`, `Stream` and `Schema`, side by side | extends `EventRing`, instances the others |
| `MCReception` | `Anomalies`, `Radio` and `Framing`, side by side | extends `Anomalies`, instances the others |

A side-by-side module checks components that share no state in one run: a variable
`part`, chosen at the start and never changed, says which of them a behaviour is
about, and the others stay in their initial state. The state space is the sum of
theirs, not the product. `MCNotifyStatus` and `MCNodeTable` use the same device to split
one component by what its environment does.

### AutoNotify

`Wake … InsertRow` are `runAutoNotifyLoop` (`app.go:677-757`) cut at every point where
it releases a lock, finishes a statement or writes a frame:

| Action | Code |
|---|---|
| `Wake` | the tick, `MisbehaveConfigSnapshot`, `Misbehaving(nil)` |
| `Mark` | `MarkFlagged` for each reported node, `UnflagAbsent` |
| `CountSent` | the pass's `now`, `CountMisbehaveNotificationsSince` |
| `Grace(n)` | the next node, `FirstFlaggedAt` against `NotifyMinFlagAgeSec` |
| `Cooldown` | `LastMisbehaveNotificationSent` against `NotifyCooldownHours` |
| `Send(status)` | dry run, or `SendTextMessage` that succeeds or fails; `sentLastHour++` |
| `InsertRow` | `InsertMisbehaveNotification` |
| `NotifyNow`, `NotifySend`, `NotifyInsert` | POST notify, and the same two calls |
| `ResetNode`, `ResetDelete` | POST reset: store, then table |
| `ClearLog` | DELETE notifications |
| `PostConfig`, `SaveConfig` | POST config: `SetMisbehaveConfig`, then `os.WriteFile` |
| `RoutingError` | `MarkNotificationNack` |
| `Cleanup` | the audit table's share of `CleanupOld` |
| `Traffic` | a node crosses a threshold, one way or the other |
| `Restart`, `Tick` | crash and start; the clock |

`absentAt` and `missedAt` date, for each node, the last minute tick that did not find it over a threshold, with the
scheduler on or off and with the scheduler on. The report is a set of offenders (`over`); `RateBuckets` models the computation
behind it. The order of the report is left open, so the safety
properties hold for every order. Every SQL statement may fail the way the code
handles it. `history` holds the deliveries, `excuses` why a delivery's row stopped
counting.

Assumptions: the clock does not run backwards; a pass takes at most `PassBound`
ticks from reading the time to its last insert (without a bound, a pass could
insert a row that is already older than the cooldown); the proofs also assume
that retention is at least cooldown plus pass, see section 7. The 45 s start
delay and the pause between two DMs are covered by letting time pass anywhere.

### NotifyStatus

No state of its own: `Status` and `NextEligibleAt` are what `handleMisbehaving`
(`server.go:219-301`) computes for a node, `Bucket` is what
`handleMisbehavingNotifyStatus` counts it as, both from their own queries with
their own horizon. `WouldNotify(n, t)` states the loop's guards for a pass at time
t. The properties compare them in every reachable state of `AutoNotify`, for every node of the
report (`Described`), those without a flag included: of these, `Since` is the flag a pass made now would set.

### Connection

`pc` is where the read loop is; `link` what the connection behind `currentReader`
can do (`up`, `silent`: half open, `broken`: the next read or write reports it,
`reset`: it is reported with an error `isFatal` does not know, `closed`);
`configPhase`, `configNodes`, `idle`, `age` are the loop's locals with the same
roles. `Handle` is one turn of the loop's body for one frame, safety net
included; the live path splits into `StoreEvent` and `InsertEvent`. `Cancel`,
`StopWeb`, `CloseReader`, `CloseStores` are `Shutdown` on main's goroutine.

Abstracted: the backoff durations (a pause is a step that may take any time); the
frames by kind. A write fails only on a broken link. The radio sends only once
it was asked. The operating system's keep-alive may turn a silent link into a
broken one (`LinkBreaks`) but need not. The loop's branch for `ErrTimeout` is not
modelled: `ReadPacket` handles every timeout itself, nothing reaches the branch.
The branch that discards the own node's telemetry is part of the frame kind
`own`.

### Availability

`Decode`, `MarkNodeHeard`, `InsertOnline` are the read loop, `ScanOffline` and
`InsertOffline` the scanner, `Cleanup` retention, `NodeUptime` the sum a handler
computes over a window, `Walk` one turn of its loop. `reports` remembers when a node was heard; the
properties compare the sum with it tick by tick. Assumptions: the scanner is
punctual (its ticker fires every `ScanPeriod`), and the loop takes less than the
offline threshold to process one frame.

### EventRing and EventHistory

`EventHistory` is the promise: readers see a suffix of the arrivals, at most one
event is not yet handed to the database, a restart shows a suffix of the
database. `EventRing` is the code: slots, head, total, the walk back of
`RecentEvents`, `LoadEvents` into a fresh ring, `SetCounts` from a COUNT that may
fail. The refinement mapping is `recent <- Reverse(RecentEvents)`, with the
capacity of the ring.

### DailyLogs

`Append`, `Rotate`, `RotateFails`, `MaybeSync` are the steps of a `Log` call, which
holds `l.mu`; `Snapshot … EndRun` are `CompressOldLogs`, of which only `Snapshot` is
under the lock; `Close` belongs to `Shutdown`. `Restart` is a crash or an orderly end
after `Close`, and a new start. The file system is a set of plain files and a
set of archives with their lines. Assumptions: an event is logged in the tick it
was decoded in, the clock does not run backwards. Left out: a buffer that fills up
at 4 KB and flushes early (the model keeps more in memory, the worse case for
what is lost), torn lines, and power loss.

### RateBuckets

`Add` and `Restart` call `trackRate` (`Track`) on a packet and on every loaded row;
`Misbehaving` is the report as a set of nodes. A bucket holds the events its
samples were taken from, of which the code keeps the time and the hop_start
value. `LargestWindow`, `ListsOf`, `Newest` (the cap), `InWindow` and `HopMode` are the
helpers of the code. `Restart` replays with the built-in configuration and sets
the saved one afterwards, as `Run` does. Own packets are skipped once the
own number is known, from a live or loaded `MyInfo` (`Ingest`) or from one in the config phase
(`Identify`). Assumption: an event is added in the tick it was decoded in. In
`AutoNotify` the report is the set `over`, which any traffic may change.

### Framing

`WriteFrame` takes the mutex and `PutByte` writes the frame byte by byte, from
several goroutines; `ReadByte` is `ReadPacket` with `syncMagic` and `readFull`, one byte at a
time; `Timeout` is a read that waits 500 ms in vain, which gives up a frame
begun. `Chatter` and `LoseByte` are the serial line. The code has a writer at one end
and a reader at the other of *two* lines, with the same framing; the model puts them at the
two ends of one. `expected` is what must come out: a frame is taken from it when a timeout
hits it. `confused` marks the time in which damage may mislead the scanner: from
a lost byte, or a dropped frame in which another seems to begin (in its payload, or where its length
meets it), to the next pause between frames.

### NodeTable

`mem` is the part of `Store` that hangs on packets, as one record; `AddEvent`, `updateNode`,
`trackLink`, `trackPair`, `countNode`, `trackDX` are functions from such a record and an event to the next one, in
the order `Add` calls them, under one lock. `Silent` is `AddSilent` in the config phase;
`Receive` is the live path, after which `todo` holds the rows still to be written, each by
an action of its own that may fail (`InsertEvent`, `SaveNode`, `InsertTraceroute`). `Restart` is a
crash at any point and `loadHistory`: `LoadNodes`, `Rebuilt` (links from neighbour
tables, `TableTime`: a table without a time has the node's), `LoadTraceroutes`, `LoadRecentEvents` (as many as the ring has slots),
`LoadEvents` (`Replay`), with queries that may fail. `gaps` remembers the nodes
whose row such a start did not find. The ring is `mem.events`, of which a full ring loses the oldest; `mem.log` is the
history of all that went through it since the start. `Discarded` drops what the live path drops: telemetry and positions of
the own node, and telemetry of the node that `--ignore-node` names, once its name was heard (`ignored`). The own node's
telemetry is also read for the noise floor (`app.go:564-577`); that is left out.

Attributes are small maps: whether a field is kept, replaced or only filled in is
control, its value is not. Positions are points on a line. The decoder's output is an
event; relay and hop statistics by type, and message lists, are left out.

### Anomalies

`anom` is `anomalyData`, with the known nodes and the conversations that two detectors read. `Receive` is
`detectAnomalies` on one packet: `Observe` updates the memories, `Verdicts` lists what each
detector says, in their order, `Flag` goes through the list, and `flagAnomaly` drops what it flagged recently. `MustFire` is the reference: over
the whole list of packets heard and the nodes known before the first of them (`met`), with none of the memories, but with the
thresholds as the code compares them. `Loaded` stands for all nodes known otherwise than by a packet (rows of the database,
the radio's NodeDB); none is added while packets come.

### Radio

`Log` is the read loop with one line of the firmware's debug log, parsed
(`AddRawRx`, `AddRawDupe`, `AddToTally`); `Snapshot` a tick of the snapshot loop, at any
time within its minute. The report is a set of operators over the state (`Window`, `RxIn`,
`BestRelays`, `Advantage`): the code walks maps in no order, so where two relays tie the model has
both choices.

### Stream

`Store` and `Publish` are the two halves of `Add`, on either side of the unlock. `Accept`,
`Subscribe`, `Forward` are `handleSSE`: headers first, then the subscription, then the
loop. `Loaded`, `Refresh`, `ServeStats`, `ServeEvents`, `Fail` are the browser's rounds of requests, each
answered at a time of its own; `Handle`, `Disconnect`, `Resume` are `sse.js`. Events are their
numbers. One browser: subscribers share nothing but the lock.

### Schema

`opening` is the list of statements `migrate` has still to run; `Execute` runs one, `Stop` ends
the process (or the attempt, with an error) between two. `Init` holds every file an
earlier release may have left: any version, the version written or not, without the tables
that came later, or of a later version.

## 4. The properties

**Scheduler.** `CooldownHolds`, `RateHolds`, `GraceRestarts`: no two deliveries to
a node within the cooldown; no more than the limit in any trailing hour; no DM
before every pass of the last grace period found the node over a threshold. A tick with the scheduler off is no pass;
`GraceUnbroken`, which counts it, is what the comment in the code says and does not hold (section 8).
The first two carry their exceptions in the formula: a row the operator deleted,
a routing error marked, the database refused, or a crash swallowed. What each of
them is *not* excused by (other requests, threshold changes in the middle of a
pass, retention, a pass across the hour's edge) is the content of the property.

**Dashboard.** `ReadyIsTrue`: a node shown as ready would be notified now if a pass has flagged it, and otherwise
once the grace period that the next pass begins is over. (The dashboard says more of the latter: section 8.)
`NeverAnnouncedLate`: before the announced time the loop would not have notified
it. `EndpointsAgree`: both endpoints classify a node alike.

**Connection.** `LiveForAReason`: a connection leaves the config phase for a
reason of its own, never for one left over from the last connection.
`ConfigPhaseEnds`, `Reconnects`, `ShutdownEndsRun`: the three progress properties.

**Availability.** `UptimeCounted`, `UptimeNotInflated`: the uptime of any window
counts every tick within the threshold of a report, and no tick outside it except
silences too short for a scan to notice. `LogMatchesTracker`: the newest row of a
node says what the tracker says. All three are excused for a node whose rows
were lost or inserted out of order, with the reason recorded. The code does insert them out of order (section 8).

**Event history.** `ImplementsHistory`: the ring refines `EventHistory`.

**Node table.** `LinksAreObserved`: signal and time of every link are those of one
packet nobody relayed, or of one neighbour table, also after replays. `CountsMatchLog`: the per-node counters,
which are never stored and never taken back, are those of the packets since the start: the rows it replayed, as many as the ring
has slots, and all packets since, of which the ring has the newest. So they agree with the ring until it wraps, and exceed it
afterwards by what it overwrote.
`PairsMatchClasses`: conversations and classes, counted at two places, agree, but for packets a node
addressed to itself, which have a class and no conversation; both count on when the ring wraps. `RowsAreFaithful`,
`NothingForgotten`: a row as fresh as the memory is the memory; what was learned
of a node stays. Excused is a node whose row the last start did not find, because
the query failed or because the event was inserted and the process died before the node's row: its next
packet overwrites the row. `TraceroutesAreNewest`,
`MetadataWins`, `DXPrefersDirect`: nothing newer or better is displaced.

**Framing.** `FramesSurvive`: whole frames come out unchanged and in order, and a
pause inside a frame costs that one frame.

**Detectors.** `DetectorsAreExact`: the eleven detectors other than id reuse fire exactly when all that
was heard meets their thresholds, as the code compares them. (The header words three of them otherwise: section 8.) `ReuseIsExact`: so does id reuse, although its memory is collected; the collection
loses no id that matters and keeps no old one. `RateLimited`: the list shows the same anomaly at
most once per window, and does not grow.

**Radio health.** `HealthIsExact`: windows, senders, ranking of relays and offset bars
are those of the lines logged, at every minute, for every sign and every tie.
`SnapshotsDisjoint`: no packet is counted in the windows of two snapshots.

**Stream.** `StreamInOrder`: a subscription carries what was added since it
began, once and in order, up to the first event it drops, and never repeats or reorders.
`ViewConverges`: the dashboard ends up with the total and the newest events of the
store, whatever was dropped, counted twice or lost on the way.

**Schema.** `OpenIsComplete`, `NeverRefused`: an open that succeeds leaves every
column the queries name, however often a migration was cut short (so the version on file
never promises what is not there); no file of an earlier release
makes a statement fail for good.

**Logs.** `LinesKept`: an accepted line is in its buffer, in the file of its own
day, or in that file's complete archive, unless the process ended before the
flush or a flush to that very file failed. `LossBounded`: when a `Log` call has run to its end
nothing older than the flush interval is still only in memory.

**Report.** `ReportIsExact`: the nodes reported are those whose packets, received
since the last reset or loaded at startup, exceed a limit in the windows in
force now. The reference (`Offends`) counts packets received, not samples kept.
The exception is a window longer than every enabled window of a configuration
that was in force since the start.

`TypeOK` is the type invariant of a module; `TypesOK` joins those of modules checked side by side. In the
other modules the invariants above fix the types of what they speak about.

## 5. The runs, their bounds, and what they show

| Run | Instance | Shows |
|---|---|---|
| `core` | four parts. *Scheduler*: 2 nodes, hour 1, cooldown 2, grace 2, time to 5. *Notify*: 1 node and notify-now, two deliveries an hour, grace 1, time to 5. *Operator*: 1 node, reset, clear log and three settings (live, dry-run, off), time to 3. *Switch*: 1 node, a scheduler with a grace period that is switched off and on, time to 4. Retention 3 = cooldown + pass, 2 rows | cooldown, limit and grace period against routing errors, retention, restarts, failing SQL and requests; the dashboard's answers against the loop's decision in every state |
| `loop` | all interleavings, idle timeout 1, hard cap 3 | connection safety and the three progress properties |
| `table` | our node and two others; 7 packets about who and where nodes are, or 8 about what they say to each other (one of them to itself); a ring of 2, a node to ignore; time from 3 to 6, 1 failing statement, 1 restart, 1 traceroute kept | the node table against what was heard, and its rows against the table |
| `reception` | *packets*: 2 senders, 5 mixes of packets, 4 received, time to 5, at most 1 id kept before a collection, a ring of 2. *Lines*: windows of 2 and 3 minutes, 4 lines, 4 minutes. *Frames*: 2 writers, 4 payloads of at most 4 bytes (one too long), 3 frames, 2 faults | detectors and report against definitions over all that was heard; frames survive |
| `days` | *nodes*: 1 node, threshold 2, scan every 2, retention 3, time to 8, 1 restart. *Logs*: 3 streams, days of 2 ticks, flush interval 1, 3 lines, 2 faults, time to 4 | uptime neither under- nor overstated; no line lost without a recorded reason |
| `events` | *ring*: ring of 3, 3 kinds of event, 5 arrivals, 4 rows. *Stream*: a channel of 1, 2 events asked for, 3 rows kept, 3 events, 2 faults, pause after the second error. *Schema*: every file of every version, unbounded restarts | refinement of `EventHistory`; the dashboard converges; every open is complete |
| `report` | our node and another, one counted type and hop values, two configurations each keeping what the other needs, cap 2, 3 packets, time to 2, 1 restart | the report against the packets received |
| `grace`, `dead`, `restart`, `archives`, `backfill` | those above, or smaller | one disagreement each, section 8 |

Why the bounds are enough for the interesting cases:

* `core`: two deliveries to one node, and to two nodes, are the shortest violations
  of cooldown and limit; with cooldown 2 and time 5 the second delivery falls
  before, at and after the end of the cooldown, the hour and the grace period,
  and retention removes rows. Node symmetry is sound: no constant tells nodes
  apart. The four parts of the environment are split because their product is too
  large; together they fire every action. Queries fail in the first part only, routing errors
  come in the first two, the settings change in the third and fourth; those of the third differ in every field
  the scheduler reads in mid-pass, and cooldown 2 with hour 1 keeps both windows apart.
* `loop` has no bound but timers that stop counting once they have passed every
  limit they are compared to. The number of reconnects is not bounded.
* `table`: one packet takes one tick. Three of them, a crash between any two of their
  writes and a reload show every pair of branches in both orders. Long-distance
  records need both positions first, which is why some behaviours start with
  the node's own position known. The bound of one traceroute makes the buffer overflow, three packets
  a ring of two.
* `reception`: thresholds of three and windows of one and two ticks are reached, just missed and
  left again with four packets in five ticks; a second packet id starts the collection. The packets of
  one mix differ from a plain packet in what one group of detectors reads; detectors share nothing
  but the list of anomalies. Four lines in four minutes leave, enter and skip buckets. Three frames and two
  faults show a frame dropped in mid-payload before one that survives, and a false start inside it.
* `days`: eight ticks hold a report, its expiry after two, a scan that sees it
  late, a second report and the retention of the first rows. Nodes are
  independent but for the shared scan, so one node is enough for properties of
  one node. For the logs, two days and a half: a midnight, an archive, a writer
  that stays on an old day; two faults: for instance a failed open followed by a restart.
* `events`: three slots and five arrivals wrap the ring with a partly loaded
  start; three distinguishable events show any reordering. Three events overflow a
  channel of one; two faults are a failed request and a lost connection, or the pause after two
  errors.
* `report`: three packets exceed a cap of two and leave a tie between hop values;
  three ticks and windows of one and two ticks hold a packet that only the other
  metric's window keeps, a change of configuration and the packet that trims.

Deadlock is not checked: every model stops at the bound of its clock, and the
connection stops after shutdown.

## 6. Fairness

* `Connection!RunningSpec`: weak fairness of the loop's own steps and of the
  shutdown's. Goroutines are scheduled; a step in which the loop is not blocked
  happens. Radio, network and clock owe nothing.
* `Talking`, the premise of `ConfigPhaseEnds` and `Reconnects` only: weak fairness of
  the clock; strong fairness of `ReadFrame` (a radio that is up and was asked sends frames,
  again and again; the loop's read is disabled while it handles one) and of
  `Reconnect` (dialling again and again succeeds in the end; between two attempts
  the loop pauses, so weak fairness would say nothing). Neither says *what* the
  radio sends: it may send log records for ever, and the phase still ends.
* `Stream!Fairness`, for `ViewConverges`: weak fairness of the end of `Add`, of the handler
  and the requests (goroutines), of the browser's own reactions, and of `Refresh`: the automatic
  refresh is on. It is off by default, and without it the view need not
  converge (section 8). Nobody has to send events, and faults are
  bounded by `MaxFaults`: a connection that breaks for ever leaves nothing to converge to.
* `DailyLogs!FairSpec`: the compressor's goroutine runs, its ticker goes on, `Log`
  calls end.

`ShutdownEndsRun` needs no assumption about the environment at all.

## 7. What is proved, and how

TLAPS checks the theorems below for every value of the constants within the named
assumptions: any nodes, packets, requests and configurations, any window, capacity and
bound. The bounds of the runs (clock, faults, restarts) are constants too, so what is proved
holds for behaviours of every length.

| Theorem | States | Assumptions |
|---|---|---|
| `AutoNotify_proofs!TypeCorrect` | `Spec => []TypeOK` | |
| `AutoNotify_proofs!CooldownCorrect` | `Spec => []CooldownHolds` | `RetentionCovers` |
| `AutoNotify_proofs!RateCorrect` | `Spec => []RateHolds` | `RetentionCovers`, `RetentionCoversHour` |
| `AutoNotify_proofs!GraceCorrect` | `Spec => []GraceRestarts` | |
| `AutoNotify_proofs!ReadyCorrect` | `Spec => []ReadyIsTrue` | |
| `AutoNotify_proofs!AnnouncedCorrect` | `Spec => []NeverAnnouncedLate` | |
| `AutoNotify_proofs!EndpointsCorrect` | `Spec => []EndpointsAgree` | |
| `Connection_proofs!TypeCorrect` | `Spec => []TypeOK` | |
| `Connection_proofs!PhaseCorrect` | `Spec => LiveForAReason` | |
| `DailyLogs_proofs!TypeCorrect` | `Spec => []TypeOK` | `LogAssumption` |
| `DailyLogs_proofs!LinesCorrect` | `Spec => []LinesKept` | `LogAssumption` |
| `DailyLogs_proofs!LossCorrect` | `Spec => LossBounded` | `LogAssumption` |
| `Availability_proofs!UptimeIs` | `NodeUptime` counts the ticks whose latest row says online | rows in time order |
| `DailyLogs_proofs!DaysTypeCorrect` | `MCSpec => []TypesOK` | `LogAssumption`, `NodesAssumption` |
| `DailyLogs_proofs!TrackerCorrect` | `MCSpec => []LogMatchesTracker` | `NodesAssumption` |
| `DailyLogs_proofs!UptimeComplete` | `MCSpec => []UptimeCounted` | `NodesAssumption` |
| `DailyLogs_proofs!UptimeSound` | `MCSpec => []UptimeNotInflated` | `NodesAssumption` |
| `EventRing_proofs!TypeCorrect` | `Spec => []TypeOK` | `RingAssumption` |
| `EventRing_proofs!HistoryImplemented` | `Spec => ImplementsHistory` | `RingAssumption` |
| `EventRing_proofs!EventsTypeCorrect` | `MCSpec => []TypesOK` | `RingAssumption`, `ChannelAssumption` |
| `EventRing_proofs!StreamCorrect` | `MCSpec => []StreamInOrder` | `ChannelAssumption` |
| `NodeTable_proofs!LinksCorrect` | `Spec => []LinksAreObserved` | `TableAssumption`, `PacketAssumption` |
| `NodeTable_proofs!CountsCorrect` | `Spec => []CountsMatchLog` | the same |
| `NodeTable_proofs!RowsCorrect` | `Spec => []RowsAreFaithful` | the same |
| `NodeTable_proofs!TraceroutesCorrect` | `Spec => []TraceroutesAreNewest` | the same |
| `NodeTable_proofs!NothingLost` | `Spec => NothingForgotten` | the same |
| `NodeTable_proofs!MetadataCorrect` | `Spec => MetadataWins` | the same |
| `NodeTable_proofs!PairsCorrect` | `Spec => []PairsMatchClasses` | the same |
| `RateBuckets_proofs!TypeCorrect` | `Spec => []TypeOK` | `BucketsAssumption` |
| `RateBuckets_proofs!ReportCorrect` | `Spec => []ReportIsExact` | `BucketsAssumption` |
| `Reception_proofs!ListCorrect` | `Spec => []RateLimited` | `DetectorAssumption` |
| `Reception_proofs!ReuseCorrect` | `Spec => []ReuseIsExact` | `DetectorAssumption` |
| `Reception_proofs!DetectorsCorrect` | `Spec => []DetectorsAreExact` | `DetectorAssumption` |
| `Reception_proofs!FramesCorrect` | `MCSpec => []FramesSurvive` | `FramingAssumption` |
| `Reception_proofs!HealthCorrect` | `MCSpec => []HealthIsExact` | `RadioAssumption` |
| `Reception_proofs!SnapshotsCorrect` | `MCSpec => []SnapshotsDisjoint` | the same |

Most assumptions say that a window, a capacity or a bound is a number, and that some of them are not
zero (a day, a ring, the time between two uses of one packet id); TLC evaluates each on the instance it
checks. `PacketAssumption` is the decoder's contract: settings, metadata and our own number come from
the connected radio and not with a mesh packet, a traceroute has a sender, and only metadata and
NodeInfo name a hardware model. Where an assumption is a premise of the theorem instead
(`RetentionCovers`, `RetentionCoversHour`), a deployment may violate it.
`DetectorAssumption` says that the windows are durations and the reuse window is not zero, that the ring has a place, that a packet
has a sender (one without does not reach the detectors) and that its signal and hop fields are numbers. The limits on counts, the distances
and the last bytes may be anything.
`FramingAssumption` says that payloads are bytes, not empty (no message encodes to nothing) and that chatter is text, without a
second start byte.
`RadioAssumption` says that the windows are numbers, the short one not zero and no longer than the long one, and that a line's fields are numbers.
`NodesAssumption`, `ChannelAssumption`, `FramingAssumption` and `RadioAssumption` are those of `Availability`, `Stream`, `Framing` and
`Radio`, which the `MC` modules instance: that a frame is handled sooner than a silent node is taken for offline is the only one of them
that is about the system's speed.

`MCSpec` is a behaviour of the side-by-side module: whichever part it is about, the theorem holds in every state. A step of
one part leaves the others' variables alone, so the invariants of the parts carry over.

**Cooldown.** `CooldownHolds` speaks of the history of deliveries; the scheduler
sees only rows. The inductive invariant therefore adds: every delivery whose row
was not lost for a recorded reason is *tracked* (its row is in the table and still counted,
or is the pass's pending row, or old enough that retention may have taken it);
while the loop is between its check and its insert, the deliveries to the target
are *checked* (the cooldown has passed for each, or its row is excused); row
ids are fresh; and the pass's time lies within `PassBound` of the clock. The
last part is why retention must cover cooldown plus pass (`RetentionCovers`): a
row deleted while a pass runs must already be outside the cooldown measured from
the pass's time. Steps that touch neither history nor rows are one lemma
(`QuietStep`), the others one step each.

**Limit.** `RateInv` relates the local counter to the history: the deliveries of
the hour before the pass's time that are not excused number at most `count`. The
lemmas on cardinality say that the set of deliveries in an hour is finite, only
shrinks as time passes, and maps one-to-one into the counted rows plus the
deliveries of the pass itself.

**Grace.** `GraceInv` says that a set flag is no older than the last pass that missed the node. A pass unmarks whom it
misses in the step after its tick, so the invariant covers the moment between the two, and it
says nothing of ticks with the scheduler off, which leave the flags alone: `GraceUnbroken` is not provable, and TLC
shows why (run `grace`).

**Dashboard.** The two handlers and the loop decide the same question in different ways: the handlers take
the largest of several times and compare it to the clock, with zero for "never"; the loop
compares each of them. `ClockInv` is what makes the two agree: every row, pending row and flag is dated
between one and now, so a stored time is never mistaken for "never" and never in the
future. `LeastElement` and `GreatestElement` (from well-founded induction over the numbers) give `Min` and
`Max` their meaning; the rest is the case analysis on which limit is the last to pass.

**Phase.** `Fresh`: outside the step that installs a new reader, `configNodes`
implies that this very connection delivered a `MyInfo` or a `NodeInfo`.

**Logs.** `LinesKept` alone is not inductive: a compressor that removes a file relies on what it copied, and a
writer on a file nobody compresses. `LogInv` adds three facts: a buffer holds lines of its own stream and of the
day its file is named after, none older than the last flush (`WriterInv`); the dates taken under
the lock go stale when a stream rotates, but what rotated since is not older than the cutoff, so no file
being written is in the compressor's way (`SnapshotInv`); and an original is removed only when
its archive holds all of it (`ArchiveInv`). `LossBounded` is an action property and follows from
the first.

**Uptime.** Rows are inserted after the tracker has changed, so the table alone says little while rows are on their way.
The invariant is about `Rows(n)`: the table, then the scanner's row, then the loop's. `Story` says of them that they are in time order; that
the last one fits the tracker (`LastFits`: dated to the tick if it closed the node); that every tick within the threshold of
a report has *online* as its latest row, retention aside (`CoverFits`); and that a tick that has is within the threshold, in a silence that
ended before a scan could see it, or in one that no scan has seen yet (`NoMoreFits`). Each kind of step keeps it by a lemma about
one sequence: a row put behind the others (`StoryOpened`, `StoryClosed`), rows taken from the front (`StoryDrop`), the
tracker forgotten (`StoryRestart`), time passing (`StoryQuiet`). Inserting a row changes `Rows(n)` not at all: that is
what the excuses "insert" and "race" guarantee. `TrackerInv` supplies the times: no report is newer than a frame still to be
handled, and a node that is online was heard at most a threshold before the last scan. `UptimeIs` then turns the sum over
rows into a number of ticks, by induction over the rows the walk has passed (`UpTo`), and the two properties
compare sets of ticks. Excuses only grow, so nothing is claimed of a node's rows once they no longer tell all.

**Event history.** `HistoryImplemented` is a refinement: the initial state maps to an initial state, and every step of
ring and table to a step of `EventHistory` or a stutter (`InitMaps`, `StepMaps`). The walk
back through the ring is first shown to return the last `count` slots in order, for every size and wherever the
head is; then `Add` drops the oldest exactly when the ring is full, and a load after a
restart shows a suffix of the rows. The lemmas on the end of a sequence (`LastNOfLastN` and its kind) carry
the argument that a suffix of a suffix is a suffix.

**Stream.** The invariant is about the whole way of an event: the last one handled, then the wire, then the
channel, is one strictly rising sequence that ends with the newest event published, and without gaps
as long as the channel was never full (`Carries`). `StreamInOrder` looks at one end of it. The theorem does not
need the fairness of `ViewConverges`.

**Node table.** One inductive invariant (`Invariant`) for six properties. Every stored row
and every node in memory is older than the next packet (`NodeOK`: without it an old row could carry the date of a new
packet and the comparison in `RowsAreFaithful` would mean nothing); links, neighbour tables and loaded events
are backed by an observation, the rows not yet loaded included, because a restart makes links from them
(`EventsOK`, `RowsOK`); what a row knows the memory knows unless the node is a recorded gap (`Remembered`);
the rows still to be written came from the memory as it is (`TodoOK`), which is what a crash
between two writes leaves behind. `AgedRow` is the key lemma: no step changes what a node's row would hold without dating it, and
none drops an attribute; a reload is a fold written as a recursive function, shown step by step to keep each of these.

**Pairs.** `TalkOK` says of the memory what `PairsMatchClasses` says, and with it that the counters of a conversation are
natural numbers for exactly its two nodes. One packet adds one to a class and either one to a conversation or one to the
packets its sender addressed to itself. The sums over conversations
and over a conversation's nodes are folds of the community modules; they are shown equal to recursive functions on subsets, whose
value does not depend on the order in which elements are taken out.

**Report.** A report is exact if a trimmed list of at most `Cap` samples knows as much as all packets received. `BucketOK` says when it does: the
samples are packets of their node and metric received since the last reset; the list is closed upwards (with a packet it has all newer ones);
and a packet it lacks has `Cap` newer ones or was too old for the largest window of a configuration in force since the start. That is
inductive under tracking, trimming, changes of configuration, resets and the replay at startup (`TrimStep`, `ReplayOK`: the replay is
a recursive function over the loaded rows). With it the samples in a window are the newest `Cap` of the packets received in it (`WindowExact`), which is what the
reference counts, and the hop value the code reports is over the limit exactly when a most frequent one is (`ModeIsExact`).

**Anomalies.** For the list: nothing in it is younger than the time its anomaly was last flagged (`RingOK`), so an
entry that passes the check is at least a window younger than all its like. For reuse: each first sighting is dated by
a packet heard, and by the earliest, unless one so old was heard that it may have been collected, which happens
only once more ids were heard than the limit (`SightingsOK`, `Expired`). An id that was collected and comes back is
dated anew; that is why the property excuses ids last dated before the collection window, and the invariant
says that it excuses nothing else. The twelve detectors are shown to touch disjoint parts of the memory
(`PartsKeep`), and going through their verdicts is a recursive function whose values exist by induction over the
verdicts (`TurnsExist`).

For the other eleven: each memory is related to everything heard since the start (`MemoryOK`, which TLC checked before it was proved). A list
of times has, in order, the times of some of the packets its detector counts, and lacks only those older than its window (`Holds`, by a
bijection from the places of the list to the packets). That holds before a packet whatever was trimmed or collected, and trimming at the packet's
own time leaves exactly the packets within the window (`Exactly`), so the length that is compared to the limit is the
number the definition counts (`RecentStep`, `TrimStep`). A list lost to a collection would have been empty at its next use
(`HoldsOld`). Last values are those of the sender's last packet with a value, which before a packet is what the
definition calls the previous one (`LastKept`). A channel is dated by its last use, or was last used before the hour (`ChannelsOK`).
A conversation has the number, the oldest time and the shares of the packets between its ends, in both directions (`PairsOK`); its ends are
nodes, so every packet between them is a unicast (`TalkIs`). `MemoryStep` puts the parts together: the verdicts are the definitions',
one by one. Known nodes are those met otherwise and the senders heard (`KnownOK`).

**Frames.** As long as nothing can mislead the scanner, there is a position on the line (written or still to be written) for each frame
not yet read such that the frame's bytes are there, frames follow one another, and the two start bytes occur
nowhere outside them (`Layout`). The frame that is being read begins before the line's first byte, exactly as far as
the scanner has read of it (`Reads`). The next byte then is the one the scanner needs, a length it reads is the
frame's own, and a frame dropped in the middle leaves bytes that look like no beginning, unless the history calls
the scanner confused; a pause between frames finds the line empty, and all positions are gone.

**Radio report.** `ReportInv` relates what the store adds up to the log of lines. Buckets rise in time, each counts exactly
the lines of its minute, and every line younger than the long window still has its bucket: buckets are dropped only when
one is added, and only those that are too old (`BucketsOK`). So a window's sum is the number of lines in it, although old buckets
may still be there after a silence. What is known of a sender through a relay is the number, the sum and the maximum
over its packets (`SendersOK`), and each bar has the samples that fall in it (`BarsOK`). Sums over sets of lines are handled through the
recursion of the fold itself, over the subsets of a finite set (`AllSubsets`, `SumRest`, `SumOfParts`). The relay the report calls best has a signal
no other relay of the sender beats, so its lead is never negative. A snapshot knows no reception younger than the beginning of the next
one's window (`SnapshotsOK`): the ticker's period is the short window.

Only model-checked, and why:

* `ConfigPhaseEnds`, `Reconnects`, `ShutdownEndsRun`, `ViewConverges`: liveness under fairness is out of
  the prover's reach.
* `DXPrefersDirect`: the code skips a reception while the two nodes seem to be in the same place, or a
  position is unknown, so the property needs an assumption about where nodes move; in the run, nodes move but never meet.
* `OpenIsComplete`, `NeverRefused`: the schema has finitely many states and no constants, so TLC visits every one.
  Nothing is left for a proof.

## 8. Where the code and what is said about it differ

Five differences are checked; each is a run that TLC must find violated.

* `grace`: `UnflagAbsent` runs only while auto-notify is enabled (`app.go:695`), so a flag survives a node's
  absence while it is off, and the node is notified without a new grace period; `store.go:2040-2041` says that "a
  node that resolves and then re-offends restarts its grace period".
* `dead`: `app.go:323-328` promises that a connection without a byte for N seconds
  is given up; the reader retries its timeouts itself and never tells the loop.
* `restart`: `store/diagnostics.go:12` says that a node not heard for the threshold
  is offline; after a restart nothing closes the row of a node that was online.
* `archives`: `logger.go:90-92` says that old files are compressed; a failed copy
  leaves a partial archive, for which every later run skips the file.

* `backfill`: the events table is replayed (`app.go:135`) before the saved thresholds
  are loaded (`app.go:139`, `270`), so the samples are trimmed to the built-in windows
  and a restarted program forgets packets that a longer saved window needs;
  `store.go:464-465` says the trim loses no data "needed by any active check".

Differences met while modelling that no run of their own shows:

* A node reported since the last pass has no flag yet, so no grace period is computed for it and the
  dashboard shows it as ready, "Eligible at the next scheduler tick" (`static/misbehaving.js:494`); the next pass only begins
  its grace period (`app.go:702`, `718-720`).
* The online row of the loop may be inserted between a scan and the insert of the older offline row it
  found (`app.go:868`), so the newest row of a node that is online says offline; `db/diagnostics.go:192` says that the rows
  come "oldest first", which `NodeUptime` assumes.
* `trackLink` takes the destination of a unicast packet for its receiver (`store.go:1034`), so a
  packet from one node to another that we merely overhear makes a link between the two with the signal at our own
  antenna; `store.go:192` says that a link holds the "observed signal quality between a pair of nodes". (The
  comment at `store.go:1009-1014` makes our node the receiver of broadcasts, and asks for single-hop packets; the code does both.)
* The thresholds of pair flood, SNR jump and GPS teleport are inclusive (`anomalies.go:621-622`, `231`, `282-284`); the
  header says ">30 packets in <5 min", ">20 dB" and ">50 km at >200 km/h" (`anomalies.go:4-9`, `25-26`; so do lines 98 and
  100 of the repository's README for the last two).
* Long-distance records do not survive a restart: the replay (`store.go:1525-1528`, "Backfill DX from
  persisted events") runs before `MyInfo` tells which node is ours, and
  `BackfillDX` (`dx.go:117-119`) is called by tests only.
* The replay overwrites links rebuilt from a fresher neighbour table (`trackLink` does not compare
  times; the comment at `store.go:1470-1472` is about the other order).
* A start whose query for nodes fails, or a crash between the event row and the node row, leaves
  a node unknown; its next packet overwrites the stored row with what it carries: excuse
  `gaps`. The node's counters then lack what was replayed.
* A neighbour table passed on for another node updates that node in memory, but only the sender's row
  is saved (`app.go:648-652`).
* Conversations start over with the process, so an old one may look brand-new to the pair-flood
  detector, whose comment at `anomalies.go:26-28` speaks of "previously-silent nodes".
* `anomalies.go:34-35` says repeats are limited per type and node; routing loops and reused ids are
  limited per packet id, ghost relays per relay byte, pairs per conversation.
* A browser whose first round of requests fails never opens the stream, and its status still says OK (`app.js:58-82`).
* An event that is both loaded and streamed is counted and listed twice until the next refresh
  (`sse.js:165-168`); the automatic refresh that would repair it is off by default.
* `db.go:207-210` says that a fresh database has every column from the first part; it has not, the columns of
  versions 3, 4 and 6 are added to it by the second.
* Opening the database of a later release sets its version back to 6 (`db.go:270-273`).
* Lines logged later in the minute of a snapshot are in no snapshot's window: the next one looks back
  over whole minutes and starts after it.
* `runWithRecovery` says it gives up after consecutive panics (`app.go:910-912`); the counter is reset
  only when a loop returns, so it counts all panics of the run.

* After notify-now exceeded the limit, more than one row has to age out before the
  scheduler sends again; `db.go:796-797` promises a slot when the oldest does.
* A reset wipes the samples in memory only; the replay after a restart brings the
  packets back, although the comment at `store.go:2007-2013` says the node is absent "until
  fresh packets push it back over a threshold".
* Own packets in the events table are replayed before `MyInfo` arrives, so the report
  may list the own node after a restart, which `store.go:1798-1799` excludes. (Once it
  knows its number, the scheduler skips it, `app.go:714`.)

* A crash between DM and audit row defeats the cooldown (`app.go:742-754`), although
  the comment at `db.go:180-182` says that the table is what preserves it across restarts. It
  is the excuse "crash" of `CooldownHolds`.
* A routing error frees hourly budget (`db.go:727` against `db.go:777-778`): excuse
  "nack" of `RateHolds`.
* Packets that arrive during the config phase update nodes but are neither logged
  nor inserted (`app.go:503`).
* `Shutdown` does not wait for the read loop (`app.go:191-217`): an event may be added
  and not inserted.
* Retention may delete the row that carries the state at the start of a window
  (`db.go:321`): excuse "retention".
* The NodeDB dump after a handshake marks every known node as heard now
  (`store.go:685`), although the comment at `store/diagnostics.go:36` speaks of packets.
* `--log-compress-days` is described with ".txt/.jsonl" (`main.go:33`); the code
  compresses `.log` and `.jsonl`.

## 9. What is not modelled

* Panics and their recovery; the debug log; the 45 s start delay as a number.
* The race between handlers that encode a node as JSON and the loop that updates its maps
  (`store.go:1551-1600`): the Go runtime aborts the process when it notices. The models take a
  read as atomic.
* Two concurrent configuration posts and the file they leave behind.
* Data: protobuf encoding, packet ids, formatting, the text of DMs and log lines,
  JSON. A frame is its kind or its bytes, an event a model value or the fields that
  matter to the component, a packet its sender and time.
* Read-only aggregation: utilisation, heatmap and trends in SQL; isolation, collisions, duty cycle,
  path and sniffer reports over the ring. They have no state of their own.
* The firmware log parser: regular expressions. `Radio` starts from parsed lines.
* Serial port detection: asks the operating system and picks a port.
* Power loss: a committed SQLite transaction and a flushed file are durable.

## 10. The plan

Done: all modules of section 3 and the proofs of section 7.

Next proofs: `DXPrefersDirect`, under an assumption about where nodes move.

Next modules: `ConfigStore` (two posters, the running configuration and the file);
`Recovery` (panicking loops, their restarts, and shutdown during the pause);
the report order (`misbExcess`), with the starvation of lesser offenders as a liveness
property, and `RateBuckets` in the place of `Traffic` in `AutoNotify`.

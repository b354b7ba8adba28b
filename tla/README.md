# A TLA+ development of modbus-senml-gateway

The gateway polls Modbus devices over TCP and RTU, averages their readings over
tumbling windows aligned to the wall clock, and publishes each window as SenML over
MQTT; beside that it keeps a small status file on flash. It is one process of
communicating tokio tasks. This directory holds the TLA+ modules that model those
tasks and what they do to the values, the TLC configurations that check them, the proofs of what holds for every
size, and this text. Line numbers refer to the files under `src/src/` of the
repository; `design.md`, `README.md` and `config.example.toml` lie beside it.

## 1. Inventory

### 1.1 Components

| Component | Code | State it keeps | Operations |
|---|---|---|---|
| Connection poller | `modbus/poller.rs` (`run_connection`, `Backoff`, `read_block`) | the transport, the position in the poll loop, its back-off | connect, tick, read a block, send readings (`try_send`), report to the status writer, wait |
| Poller supervisor | `modbus/supervisor.rs` | a back-off, the handle of its task | spawn, respawn after a panic, return after a normal end, abort on drop |
| Aggregator | `aggregator.rs` (`run_aggregator`, `record`, `flush`) | one `PointAgg` per point, the pinned sleep's deadline, `window_end_unix` | receive a reading, flush the window, send batches (awaited), return |
| MQTT publisher | `mqtt.rs` (`run_publisher`, `drive_eventloop`, one detached task per CONNACK) | the client library's request queue, the guard of the eventloop | publish a batch (`try_publish`), announce "online" (awaited), "offline" and DISCONNECT, reconnect delay |
| Status state and channel | `status.rs` (`StatusReporter`, `StatusState::apply`) | the broker's flag; per connection a flag and each device's health | report (`try_send`), apply |
| Status writer | `status.rs` (`run_status_writer`, `run_loop`, `write_atomic`) | `pending`, `next_heartbeat`, the file and its temporary file | receive, debounce, heartbeat, final write, create / write / sync / rename |
| Start and shutdown | `lib.rs` (`run`) | the task handles, the phase of the shutdown | spawn, select, abort the pollers, drain, grace timeout, status flush |
| Syslog layer | `syslog.rs` | one socket, a back-off and its next attempt, under a mutex | emit (from any thread), connect, disconnect, fall back to stderr |
| SenML encoder | `senml.rs` | none (pure) | encode a batch, unit of the majority |
| Register decoding | `modbus/decode.rs` | none (pure) | words to number: order, sign, width |
| Configuration | `config/` | the file; the serial ports seen, while it walks | load, validate |
| Process entry | `main.rs` | how far the start has got, a signal that has come | load, install the handlers, `run`, exit |

### 1.2 How they interact

```
 pollers --readings (1024, try_send)--> aggregator --batches (64, send.await)--> publisher
    |                                                                              |
    |                                               request queue (100, try_publish,|publish.await)
    |                                                                              v
    +--status events (256, try_send)--> status writer <--status events-- eventloop --> broker
```

Three rules hold the stages together. A channel's closing, when the last holder of its
sender is dropped, is the only shutdown signal a stage receives. Polling is never
delayed by what comes after it: its sends drop on a full channel. And a task that
awaits a channel is the only one that may be delayed: the aggregator waits for the
publisher, `offline`, `online` and DISCONNECT wait for the request queue.
The polling tasks and the eventloop are owned by guards (`JoinSet`, `AbortOnDrop`), so aborting
their owner aborts them; `run` aborts the aggregator and the publisher itself; the tasks that
announce "online" are detached.

### 1.3 What is hard, and what makes each component correct

*Aggregator.* Readings go on arriving while a flush waits for the publisher; the timer
fires late; `deadline` and `window_end_unix` are advanced by separate assignments.
Correct: each accepted reading is averaged exactly once, for its own point, in order;
the windows stay on the wall-clock grid; the task returns when either neighbour goes.

*Poller and supervisor.* Any request may fail in four ways in the middle of a tick, a
short reply panics, an abort comes at any await. Correct: one device's failure costs no
other device its turn; a report of "ok" is backed by a complete read; delays grow until a
read succeeds; the task never stops trying; its reports follow a protocol that the status
writer relies on.

*Status state.* Reports are dropped on a full channel and applied later, interleaved
with those of other reporters. Correct: with no loss, what is shown catches up with what is.

*Status writer.* A timer, a channel and a slow write race; power may fail in a write.
Correct: every change is written within the debounce, the last state is written before
the return, the flash is spared, the file is never torn.

*Publisher.* Three kinds of task queue on one bounded queue which a fourth drains; the
connection comes and goes, with publishes queued, sent and unacknowledged, and the broker may keep
the session or lose it. Correct: as long as the session is kept and a resend is not itself cut off, order without a gap and
a clean stop that leaves nothing behind; and always a truthful retained status and no mutual waiting.

*Syslog.* Every task of the process logs through one mutex, with a clock sample it took
before it got the mutex; syslogd stalls, stops and starts. Correct: connect attempts keep
the schedule of one back-off, no event ever waits for syslogd, and logging finds its way back.

*Configuration.* A walk with state that must be kept across connections (ports) and
forgotten between them (unit ids), a comparison of sorted neighbours only, sums at the end of
16 bits. Correct: it accepts exactly what has none of the flaws that it is written to find, and nothing that makes the
rest of the program fail at its start or in `decode`. (A block of count 0 and an empty list of connections pass it, section 5.)

*Decoding, mean, SenML.* Two orders of words, two's complement, a negative scale, a magnitude, NaN
and infinities, base fields that hold for the records after them, a `HashMap`'s order.
Correct: what a receiver makes of a pack is what the devices held.

*Start and shutdown.* A signal may come before its handler or before anybody looks; a sender held once too often keeps a stage open for ever; a task
may die at any moment of the shutdown; each stage may take longer than its grace. Correct:
no task outlives its owner, a graceful stop loses nothing that was sealed, `run` returns.

`PROJECT.json` lists these hazards at their lines, with the properties that cover them.

## 2. Modules

| Module | Models | Built on |
|---|---|---|
| `TumblingWindow` | abstract: what the aggregation stage promises, with no channel, timer or task | |
| `Aggregator` | the task with its two channels, its timer, its schedule | refines `TumblingWindow` |
| `ConnectionReports` | abstract: the reporting protocol of one connection | |
| `Poller` | the connection task and its supervisor, composed | refines `ConnectionReports` |
| `StatusState` | all reporters, the status channel, `apply`, what `render_status` shows | its reporters behave as `ConnectionReports` |
| `StatusWriter` | the write policy and `write_atomic` | an event is only whether `apply` reports a change, which `StatusState` checks |
| `Publisher` | `run_publisher`, `drive_eventloop`, the detached tasks, network and broker | |
| `Gateway` | `main` and `run`, the life of all tasks, the closing of all channels | composes the tasks above, each reduced to what it does to the channels |
| `Syslog` | threads that log, the mutex, the socket and its back-off, syslogd | |
| `Config` | `load` and `validate` as a walk; the flaws of a configuration as a reference | |
| `Registers`, `Senml` | `decode`, `encode_senml`: operators | |
| `Datapath` | the values from the registers of a device to the receiver of a pack | composes `Config`, `Registers` and `Senml` with the accumulators |
| `MC*` | constants for TLC | |
| `*Proofs` | theorems: `Aggregator`, `StatusState`, `StatusWriter`, `Poller`, `Publisher`, `Syslog`, `Gateway`; `DatapathProofs` has those of `Config`, `Registers`, `Senml` and `Datapath` | |

Two views of the same code divide the work. `Aggregator`, `Poller` and `Publisher` model
*when* things happen and what is lost between them, with opaque values; `Datapath` models *what* is
done to the values, on a path that loses nothing.

A definition that begins a comment with *Mutated* is a plausible wrong version of the
definition after it; it is not part of the specification, and shows that the property it
is meant for would notice.

### 2.1 Aggregator

`Init` follows `run_aggregator` up to the loop: `NextBoundary` is `next_boundary` (66, 105),
computed from the time `t` sampled in `run`; the sleep is armed `lag` ticks later, when the
task gets to run. A wall-clock time is a number of ticks of 1/S second, so that starts
inside a second, exactly on one and exactly on a boundary are all included.
`Record`, `RecvClosed` and `Flush` are the branches of the `select!`. A flush that has
emptied the accumulators sends its batches one `await` at a time: `SendBatch` for each, in
any order (a `HashMap`'s), `SendFailed` if the receiver is gone, and `NextWindow` after the
last. `TrySend`, `CloseReadings`, `Receive` and `Hangup` are the neighbours.

A reading's value is left out. A reading is its position in the order of acceptance, and an
accumulator is the set of those folded into it; count and mean are functions of that set, so
a reading lost, doubled or given to the wrong point or window shows. The `f64` sum is
not modelled.

### 2.2 Poller

One action per outcome of an await. `read_block`'s outcomes are `words`, `exception`,
`protocol`, `timeout` (a device's error: `ReadError`), `fatal` (`ReadFatal`) and `short`,
a reply that is too short, on which `decode` panics (`ReadPanics`). What a full reading
channel does is invisible to the task; a closed one ends it (`ReadClosed`), which the task
notices only when it has a value to send. `Respawn` is the supervisor: it discards the
task's back-off and keeps its own. `Abort` is the drop of the supervisor, possible at every
state. The ticker has no period, so a tick may come at once.
The inter-frame delay is part of the read it follows.

### 2.3 StatusState and StatusWriter

`Apply` is the state after `StatusState::apply`, `Changes` the Boolean it returns. The two
are translated separately, because `ApplyTellsChanges` is about their agreement.
`Render` is the text of the file without its time stamps (`updated`, `since`) and without
the cut at 4096 bytes, behind which a change may be invisible. A device's result is "ok" or the
reason of its problem. `AfterAll` is the state after the events of a channel, applied in order.

In `StatusWriter` `due` and `beat` are the time left until `pending` and
`next_heartbeat`; 0 means passed, and the select may fire as late as it likes.
`write_atomic` is four actions, with `WriteFails` possible in each, because time passes and
events arrive in between, and because the power may fail. The files are told apart only by
being absent, torn, whole (visible but not durable) or durable.

### 2.4 Publisher

The client library, the network and the broker are external and modelled as this code uses
them. Requests leave the bounded queue in order. A lost connection puts what is unacknowledged, and the
whole queue after it, at the end of `pending`, which may still hold what an earlier loss left there; `pending` is sent before the
queue. A CONNACK says whether the broker kept the session (`mqtt.rs:178` logs it; only "a resumed
persistent session makes the client retransmit", `tests/mqtt_publisher.rs:201`); without one the client drops
what is pending, which the history `forgotten` records. A second loss in the middle of a resend puts older publishes behind
younger ones, and more to resend than the window holds may make the library's packet identifiers collide: the history
`jumbled` records either, and the claims on order and completeness are about executions without. A connection that ends without a
DISCONNECT makes the broker publish its retained will, some time later. `mqtt.qos` is 0, 1
or 2, chosen initially: at 0 a batch is not acknowledged and lost with its connection, at 2
the broker recognises one that it already has. The status
messages have QoS 1 in the code.
The detached task of each CONNACK is one of `onlines` until it gets a slot of the queue.
`acks` counts the acknowledgements that the broker has sent and the client library has not yet seen.

### 2.5 Gateway

The first phases are `main`'s: `Load`, `InstallHandler`, and `StartFails` for whatever may be
wrong up to the first task. `Terminate` is SIGTERM, which kills the process before its handler is installed
and is remembered after; `Interrupt` is Ctrl-C, whose handler exists only once the select
is polled. (The tasks are spawned without an await before that select, so the model has no state
between; on another thread a task may in fact have run a little when Ctrl-C kills the process.)
`run`'s own steps follow `lib.rs` from top to bottom: `Start`, the three branches of the
`select!` (`Shutdown`, and `TaskExited` for two), `DropSupervisor` per connection,
`PollersStopped`, `Drained` or `GraceOver` and `PublisherGone`, `Flushed` or `FlushOver`.
An abort is requested in one step and takes effect in another, so everything that a task can
still do in between is included. The conditions `ReadingsClosed`, `BatchesClosed` and
`EventsClosed` are the ownership of the senders: this is where a sender held once too
often would show. The tasks are counters and flags here; their own modules have the detail.
The "offline" and the DISCONNECT are one request, `farewell`.

The model ends where `run` returns, which is not quite the end of the process: `main` is `#[tokio::main]` (`main.rs:14`), and
the runtime that is dropped after it waits, without a bound, for a `write_atomic` still in progress in `spawn_blocking`
(`status.rs:330`). `STATUS_FLUSH_TIMEOUT` bounds `run` alone.

### 2.6 Syslog

An event goes `Sample` (the clock), then, when it gets the mutex, `Connect`, `ConnectFails`,
`NotYet` or `UseSocket`, then `Sent`, `WouldBlock`, `PeerGone` or `TooLong`, then `WriteFallback` unless it was
sent. Between the sample and the lock any time may pass (`age`, up to `MaxLag`), so
`next_attempt` is compared with, and set from, a clock that may be behind. Times are
relative to now, which keeps the state finite. The layer's formatting of fields and spans is
left out.

### 2.7 Config

`validate` is one action per step of its loops (`CheckConnection`, `CheckBlock`, `NextDevice` ...),
each of which stops at the first error in the code's order. `Neighbours` is a pair of `windows(2)` of
the spans after the stable sort by offset. `Flaw` says of a configuration as a whole,
with sets and no order, what each error stands for; the walk is measured by it. Parsing TOML and PEM is
a library's; a file, a log level and a CA are whether they parse.

### 2.8 Registers, Senml, Datapath

A register holds `Radix` values, 4 in the run where the code has 2^16; two's complement and the
order of words work the same. `Float32` is a table from bit patterns to values; the run's has
four bits with sign, exponent, mantissa, NaN and infinities. Numbers are exact integers and a mean is a sum with its count, so the
rounding of `f64` is left out.
`Reply` and `Layout` are the device, as `config.example.toml` describes word order: which
register holds the high bits. `Meant` is what the operator who wrote the configuration wants to
be told. The ids and the order of the points are those of the four nested loops of `init_from_config`
(`Places`, `Precedes`). `ReadBlock` puts the reply through `Decode` and `Record`; `Flush` makes the packs, with any
order of the `HashMap`; `Resolve` reads a pack as RFC 8428 does. The histories `log` and `last` are what
the devices held when they were read in the open window and in the one before, as far back as the property reaches.
`Start`, `Connect` and `ReadBlock` also collect in `faults` what an unsound configuration would
meet: `main` expects the log level to parse, `run` refuses a QoS, `next_boundary` divides by the
window, a ticker of period 0 panics, a serial setting does not convert, a port is opened
twice, a request is too long, `decode` indexes past the reply.

## 3. Runs

| Run | What it shows | Bounds | Fairness |
|---|---|---|---|
| `datapath` | the verdict of `validate`, and that accepted means safe to run; every value, unit, name and window arrives | about 1,260 configurations, 2 reads, 2 windows, samples per data type | none |
| `aggregator` | every reading once, own point, in order; the first window due within one window of the start; whole windows on the grid, none early, no drift; implements `TumblingWindow`; a sealed batch arrives unless the publisher goes; the task returns | 3 points on 2 devices, 3 readings, windows of 4 ticks (2 s of 2 ticks), start on a boundary and just before one, lag up to 1, channels of 2 and 1 | for two properties |
| `poller` | delays, isolation of devices, honesty of reports, the protocol; service for ever | 3 devices, the middle one of 2 blocks; delays 1, 2, 4, 5 | for one property |
| `status_state` | with no loss the shown state is the actual one after what is queued; `apply` reports exactly the events that change the text | 1 connection of 2 devices, 2 reasons, channel of 2 | none |
| `status_writer` | debounce counted from the first change; final write; spacing; no torn file; every change is written, and a file left old by a failed write is written again; the return | channel of 2, debounce 2, heartbeat 3 | for two properties |
| `publisher` | order across reconnects that do not cut off a resend; clean stop leaves nothing but what went with a session; retained status; no deadlock on a full queue | QoS 0, 1, 2; 2 batches, queue of 2, 2 unacknowledged, 3 connections, each with the session or without | for two properties |
| `gateway` | nothing outlives its owner; graceful stop drains, last word written; `run` returns with its timeouts alone, and by the closing of the channels alone; no signal is lost | 1 connection, every channel of 1, 2 batches | as stated below |
| `syslog` | attempts keep the schedule despite stale clocks; `emit` returns; logging recovers | 3 threads, delays 1, 2, 4, 5, lag up to 2 | for two properties |
| `poller_max_below_min`, `status_panic`, `status_mqtt`, `publisher_offline` | four disagreements, section 5 | | |

*Why the bounds are enough.* Capacities of 1 and 2 make "full", "empty" and "just
drained" occur in every combination with the other steps; nothing in the code depends on a
capacity but through "is there room". Two devices with two and one points are the least for
which a partly sampled device, a sampled and an unsampled device, and a flush of two batches
that is interrupted between them all exist. The three readings and 12 ticks of
`aggregator` reach past two window boundaries with a late flush in either. In `poller` the middle device has blocks
to skip and devices on both sides; the delays reach the maximum not at a power of two, as in `syslog`.
Three threads there are one that holds the mutex and two whose samples differ in age.
Three connections in `publisher` are the least with a loss while requests of the one before are still pending, in the middle of a resend or
before it has begun, and with a session lost after one that was kept; two batches are the least that can change places, leave
a gap, or be on both sides of a loss, and with "online", "offline" and DISCONNECT they overfill the queue and the window.
`publisher_offline` needs two connections only, and has three batches. In `gateway` two batches fill one channel while the other holds one.
`status_state` and `gateway` have one connection: `apply` treats connections separately,
and `run` treats them alike; the theorems below are for any number where they apply.
The configurations of `datapath` are families around a valid one, each of which varies one part
over everything that matters there: the scalar fields; two and three connections over all
pairs of transports; unit ids; two and three points at any offset, width and order;
the limits of 125 and of 16 bits; types, scales, floats, shared ids and ties of units. Parts that do
not meet in the code (the points of a block and the serial ports, say) are not crossed, and the theorem
`Accepted` is for any set of configurations. Two reads are the least that mix values in a sum, or a
NaN with a number, and two windows show that nothing is carried over.

The counters that are bounds of the model and not of the program are `MaxReadings`,
`MaxNow`, `MaxBatches`, `MaxConnects`, `MaxReads`, `MaxFlushes`, `MaxLag` and `MaxCount` (a history stops
counting there, it does not stop the task).

*Deadlock* is checked in every run but `datapath`, where the model stops at its bounds and after a
rejection. Where a task has returned, an action of its own
(`Stopped`, `Ended`, `Returned`) says so, under the condition that it really has.

### 3.1 Fairness, and what justifies it

- A task that is runnable runs: tokio's scheduler is fair to ready tasks. Weak fairness of
  a task's steps.
- `tokio::select!` polls its branches in random order. A branch that is ready again and
  again is taken in the end: strong fairness of `Record` and `RecvClosed` beside a timer that is due
  again and again, of `Timer` and `Recv` in the status writer.
- The client library's bounded channel wakes a waiting sender whenever a slot comes free: one strong fairness for
  `QueueOnline`, `QueueOffline` and `QueueDisconnect` together. Which sender gets the slot is left open; they are finitely many, so each
  of them gets one in the end.
- A thread that waits for the log's mutex gets it in the end, since every holder lets go of it
  without waiting for anything: strong fairness of the steps that take it. The send on a
  non-blocking socket and the write to stderr end: weak fairness. (That stderr takes what is
  written is an assumption on whoever reads it.)
- Time passes; requests and delays end (`io_timeout_ms`, `Backoff`): weak fairness of
  the poller's outcomes, though never of any particular one.
- The broker is reachable in the end, and only where a property says so
  (`ReturnsIfReachable`, which the documentation of `run_publisher` makes a condition, and which excepts a DISCONNECT that is
  dropped with the session; and `DrainsByItself`). Likewise `KeepsServing` supposes that the transport holds in the end, for its second
  part, and `Recovers` that syslogd stays up, threads go on logging and no datagram is too long for
  the socket any more; these conditions are written in the properties.

`Gateway` keeps its assumptions in the properties, to tell two arguments apart.
`ReturnsAnyway` assumes only that `main` and `run` themselves run, aborts take effect and the two timeouts
expire: no other task need ever make a step. It is about `run`, not the runtime that is dropped after it. `DrainsByItself` assumes that the tasks make
progress and no timeout at all.

## 4. Proofs

All theorems are for every value of the constants; the assumptions are the named ones in the
modules (`ConfigAssumption`, `TimeAssumption`, `BoundAssumption`, `WriterAssumption`,
`PollerAssumption`, `CountAssumption`, `PublisherAssumption`, `StatusAssumption`, `SyslogAssumption`,
`ConfigsAssumption`, `RegisterAssumption`, `SamplesAssumption`, `DatapathBounds`, `GatewayAssumption`): sizes are natural numbers, capacities and the window are positive,
every point has a device, every connection at least one device and every device at least one
block, a problem's reason is neither "ok" nor "unknown", the shortest log back-off is positive and at most
the longest, a configuration has the types of `schema.rs`, `f32::from_bits` is total and gives a number, an
infinity or NaN, a device holds what fits its registers, and no connection has the
name of one of the four other tasks of `Gateway`. The bounds of the models are constants too, so
the theorems hold for any number of batches, reads, readings or reconnects.

Each inductive invariant was checked by TLC on the instance of the component's run before it was proved.
A proof that a step keeps it has one lemma or step per action, and one below that for each part the action disturbs.

**Aggregator** (`AggregatorProofs`). `TypeOK` is not inductive: that the reading at the head
of the channel is a position of `accepted` follows only from the channel being the youngest part of
what was accepted. Hence `TypeInv` (with `QueueIsSuffix`). `OnceInv` adds that readings up to
`Taken` are exactly those in an accumulator or a batch, that these are disjoint and own
samples only, and that between flushes nothing is left in `outbox`; `FlushOnce` is its
essential step, and rests on `FlushIds`: the batches of one flush hold together what the
accumulators held. `ScheduleInv` adds `DriftFree` and `NeverEarly`, which need each other: a flush is not early because the deadline
is at or after the boundary. `FirstWindow`, of the initial states, is the arithmetic of `next_boundary` (`BoundaryAhead`). `WindowInv` adds to `OnceInv` that whatever was sealed is of a window before the open one, and
what waits to be sent is of the one being closed (`EndsInv`); so a batch that is sent is the youngest. The
refinement of `TumblingWindow` is proved from `OnceInv` action by action: `TrySend` is the abstract accept, `Record`
the abstract count, `Flush` the abstract seal, and the sends of batches are stutters.
Theorems: `TypeCorrect`, `ReadingsOnce`, `ScheduleKept`, `WindowsKeepOrder`, `StageImplemented`.

**Status state** (`StatusStateProofs`). `CatchesUp` applies a sequence of events, whose head the status
writer takes and whose end the reporters extend, and a recursive function cannot be followed at its head. `PathInv` says instead
that *there is* a path of states from `st` through the queued events to the actual state. A step of the writer drops
its first state, a report appends one (each reporting action is shown to change the actual state as `Apply` does), and
that a path ends where `AfterAll` does is an induction over its length.
`ApplyTells` goes through the kinds of event with what each changes in `Render`; that the summaries differ when a
device's health does needs the counts of healthy devices, hence `FiniteSetTheorems`.
Theorems: `TypeCorrect`, `WriterCatchesUp`, `ApplyTells`.

**Status writer** (`StatusWriterProofs`). `IInv` is `TypeOK`, `ChangeIsDue` and three parts.
`PendingInv`: `pending` is set exactly when a change is unwritten, and nothing is
unwritten during a write, since no event is received then. `DurableInv`: at the rename the temporary file is
durable, so only durable files get into place. `SpacedInv`: as long as the pause is not over,
neither deadline has passed; this gives `WritesSpaced`, an action property.
Theorems: `TypeCorrect`, `ChangesKept`, `Untorn`, `Spaced`.

**Poller** (`PollerProofs`). `TurnInv` says which devices have been reported, by place in the loop:
while device `dev` is read those before it, in order; at the ticker all, or none if nothing has been read on this connection.
`EveryDevice` follows, and `ProtocolFollowed`: every step of the task or the supervisor is a step of
`ConnectionReports` under the refinement mapping, or a stutter. That theorem is what allows
`StatusState` to put the protocol in the place of the pollers.
`ReadsInv` adds what the reads of the tick tell: no device beyond `dev` has been read, and of `dev` exactly the blocks before
`blk`, all with success. A report of it is then backed by its reads, and reports made before stay true because later
reads are of other devices (`ReportsStay`); this gives `ReportsTrue`. `DelayInv` bounds both back-offs
between the configured delays if these are in order; `RetriesCapped` has that condition, and the run
`poller_max_below_min` shows that it cannot be dropped. `DelaysGrow` is inductive itself: a wait takes the n-th delay to the
next (`NextDelay`), which needs of `Power` only that it doubles (`PowerFacts`; the function exists, by induction over its domain),
and of the bound `MaxCount` that a history stops counting only when its delay has stopped growing (`CountAssumption`).
Theorems: `TypeCorrect`, `EveryDevice`, `ProtocolFollowed`, `ReportsTrue`, `Growth`, `RetriesCapped`.

**Publisher** (`PublisherProofs`). The properties speak of what the broker has; the invariant is about what is still to
come: `Stream` (wire, pending, queue), which a live connection delivers, and `Unacked` (in flight, pending, queue), which a
reconnect would send. `OrderInv`: unless `jumbled`, in both the batches are in order, behind a DISCONNECT
there is at most an "online", and nothing is there that was once `forgotten` (`Fresh`). A loss keeps this because a
connection that is lost without anything pending, or without anything in flight, leaves `Unacked` as it is.
`WindowInv` ties the two together: the packets on the wire that wait
for an acknowledgement are the youngest in flight, so that an acknowledgement removes only what was delivered
and a lost connection keeps all that was not. `NothingMissing`: what has been accepted is delivered, in `Stream` or forgotten, and
so is the "offline", once it was queued. `OnceAtQosZero`: without acknowledgements no batch is sent again.
`FarewellInv`, `ConnectionInv` and `QuietInv` say how far the shutdown has got: no DISCONNECT before the "offline" is queued, and,
in a shutdown that no announcement disturbs, no "online" behind the "offline" and no "offline" behind the DISCONNECT; this needs no
condition on `jumbled`, since no connection is made any more once its "offline" is queued.
Theorems: `TypeCorrect`, `InOrder`, `CleanStopIsComplete`, `RetainedStatusIsTrue`.

**Syslog** (`SyslogProofs`). `ScheduleInv` ties the code's state to the history: `backoff` is what follows the
present pause, and `next_attempt` lies between the pause counted from the last attempt and the same
less `MaxLag`, because it was set from a sample that old at most. `TickKeeps` is where time
moves both. Theorems: `TypeCorrect` (with the exclusion of the mutex), `OnSchedule`.

**Config, Registers, Senml, Datapath** (`DatapathProofs`). `WalkInv` says what the part behind the walk
has passed (`Behind`, `BehindInConnection`), that `ports` are exactly the ports behind it and pairwise different,
and that an error found is a flaw. One lemma per step keeps it. Two lemmas carry the weight:
`BlockPasses`, with `NeighboursSuffice` (if no two neighbours in the sorted order overlap and all widths are positive,
no two points overlap, by taking the least element between two that do), and `BlockFails`, its converse. At
`accepted` the walk is behind everything, so no `Flaw` is left (`InvVerdict`). `DataInv` adds that nothing runs before
that and no fault has happened; `ReadStep` shows that a reply has a register for every index of
`decode`.
`DecodingTells` joins validation and decoding: the registers of a point hold that point alone, because the points of an
accepted block lie in the reply and apart (`ReplyHolds`), and whatever they hold (`Holdable`, the numbers of the type's width
and sign) is what `ExtractRaw` makes of them in either word order (`LayoutExtracts`, from the division by `Radix`
and two's complement).
Two different units cannot both be used by more than half of the points (`OneMajority`, by the
cardinality of two disjoint sets), so the tie that the `HashMap`'s order decides never shows
(`BaseUnitUnique`); and a receiver resolves a pack to its batch (`PackResolves`), since the base fields of the first record
hold to the end.
`SumInv` joins all of this over time: each accumulator is the sum and the count of the readings of its id in `log`. A block
that is read takes both sides one reading at a time (`ReadAdds`): the accumulators go through `Steps`, the
sum of the longer history through its partial sums (`SumsAdd`), and the readings are the same by `DecodingTells`'s lemma
`DecodesPoint`. A flush turns the accumulators with a count, which are the ids that were read (`SurvivorsWereRead`), into packs
(`BatchTells`); the reads of the next window leave these alone (`PacksStay`), because a read keeps the units. The sums are
recursive functions; that these exist is proved for each by taking the greatest prefix on which one does (`RecursionExists`), and what
follows of them by taking the least index where it fails.
Theorems: `Verdict`, `Accepted` for the composed system, `TypeCorrect`, `MeansTold`, `DecodingTells`, `PackResolves`, `BaseUnitUnique`.

**Gateway** (`GatewayProofs`). `NothingOutlives` is not inductive: it speaks of the supervisors and of the
exit, while the abort is asked for on the way there. `TaskInv` says for every phase of `run` who may be alive
and who must have been aborted; it is kept because the step that takes an owner away is the step that asks for
the abort of what it owned. That the publisher is gone before the status writer's time begins comes from `Drained`, which needs
its return, and `PublisherGone`, which waits for it. `FlowInv` counts: a sealed batch is in the batch channel, in the request queue,
sent, or dropped, and no channel exceeds its capacity.
`DrainInv` is the order of a shutdown in which nothing dies and no timeout expires (`StageByStage`): the aggregator ends behind the
pollers, the farewell is behind the last batch, the eventloop ends behind the farewell, the publisher behind the eventloop,
and the status writer when nobody can report any more (`WriterLast`), with the truth about the broker as the last
word in its channel (`WordInv`).
Theorems: `Outlived`, `TypeCorrect`, `GracefulStopKept`.

### 4.1 Only model-checked

All liveness: the prover does no `ENABLED`, on which fairness rests. Every invariant and every action property of a passing
run is a theorem.

The library's induction theorems take an operator, which the provers cannot instantiate. Induction over the natural numbers is done
instead as the least element of a set (`LeastElement` in `DatapathProofs` and `PollerProofs`).

## 5. What the runs found

Each has a run that TLC refutes and an entry in `PROJECT.json`; what has none is in the list after these.

1. **A cleanly stopped gateway can stay "online"** (`publisher_offline`). A CONNACK's
   detached task may queue "online" between "offline" and DISCONNECT (`mqtt.rs:184-190`
   against `149-158`). The DISCONNECT discards the will, so nothing corrects it.
   `OfflineAfterQuietStop`, a part of `RetainedIsTrue`, shows that this race is the only cause.
2. **A panic keeps the old health on show** (`status_panic`). A task that panics reports no
   `ConnectionDown`; the `ConnectionUp` of its successor meets `up = true` and returns early
   (`status.rs:158`), so devices that were not polled since the reconnect are not "unknown".
3. **A lost `MqttConnected` stays lost** (`status_mqtt`). Device results repeat each tick; the
   broker's state does not while the connection holds.
4. **The first retry may exceed the maximum delay** (`poller_max_below_min`) when the
   maximum is configured below the minimum.

Disagreements between text and code noted on the way, with no run:
the back-off of a connection is reset by the first successful read, not by the connect as in
the sketch of `design.md` 6.1 (the code's comment says why); the supervisor's back-off is never
reset, where `design.md` 6.2 says "the same backoff as a failed connect"; a heartbeat may write a
change sooner than the debounce (`config.example.toml` calls it a minimum delay);
`design.md` 4.2 bounds `start + count` where `validate.rs` bounds `count`;
`config.example.toml:205` says of `count` "1-125 (checked ...)", and a `count` of 0 is accepted, its block then
refused by the device on every tick (the model lets such a read give nothing);
two devices with one id, or two points of a device with one name, share an accumulator, whose mean mixes them and whose unit
is that of the last (`validate.rs` compares unit ids only; `Datapath` has the behaviour, and
`PackTellsMeans` holds with the id as the identity);
`design.md` 11.1 says that the log socket needs no reconnect, and `syslog.rs` reconnects;
there a datagram that is too long for the socket fails like a dead peer would, and costs the socket
(`TooLong`);
a configuration with an empty `connection` list is accepted (`config.example.toml:131` asks for one), and then the aggregator's input is closed
at once and `run` fails;
when a broker comes back without the session while the DISCONNECT is pending, the client drops it, and `run_publisher`, whose documentation
promises to return if the broker is reachable, waits until `SHUTDOWN_GRACE` has it aborted (the exception in
`ReturnsIfReachable`); an "offline" may go the same way.

## 6. What is not modelled, and why

- *`f64` arithmetic*: numbers are exact; NaN and infinities are there. `PointAgg`'s minimum and
  maximum, which nothing reads, are left out.
- *Formatting*: of log lines and span fields, of the status file's time stamps and its cut at 4096 bytes, of SenML's
  JSON but for a number that is none.
- *TOML, PEM, the path of the configuration*: parsing is a library's, with the outcomes the code tells apart.
  `Poller` still assumes that a connection has a device and a device a block (`PollerAssumption`), which
  `validate` does not ask; without them the loop only ticks.
- *Requests and replies on the wire*: their matching is the Modbus library's. A mismatch, such as a late
  reply, is the outcome `protocol`.
- *The drop of the runtime* after `run` has returned, which waits for a status write in progress (section 2.5).
- *Two instances of the process*, and the state of the broker's session over a restart of the gateway.
- *The client library's inside*: packet identifiers and their collisions (in `jumbled`), the second half of a QoS 2 handshake (a batch
  counts as delivered when its PUBLISH arrives), and the order in which it returns unacknowledged publishes, taken for that of sending.
- *The step of a clock*: the aggregator's monotonic deadline and the wall clock are one clock in `Aggregator`.
- *The detached "online" tasks at the end of `run`*: `Publisher` has them, `Gateway` does not; they hold no sender that `run` waits for.
- *The client library's keep-alive*: a connection may be lost at any time.

## 7. Plan

Written so far: all components of 1.1, and proofs of every safety property that the runs check.

To prove more: of each liveness property the steps that its argument rests on, as action properties.

To model more: two connections in `gateway`, if the state space allows it.

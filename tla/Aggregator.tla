----------------------------- MODULE Aggregator -----------------------------
(***************************************************************************)
(* The aggregator task of src/src/aggregator.rs with the two bounded       *)
(* channels it sits between: readings come in from the pollers, which drop *)
(* on a full channel, and batches go out to the publisher, for which the   *)
(* task waits.                                                             *)
(*                                                                         *)
(* A reading is its position in the history `accepted'; an accumulator is  *)
(* the set of the readings folded into it since its last reset, so its     *)
(* count is the set's cardinality and its mean a function of the set.      *)
(* Time is counted in ticks of 1/S second.  What a returned task or a      *)
(* closed channel still holds is lost; it stays in its variable, where     *)
(* nothing reads it again.                                                 *)
(***************************************************************************)
EXTENDS Integers, Sequences, FiniteSets

CONSTANTS
    Points, Devices, DeviceOf,   \* the configuration
    W, S,                        \* aggregation.window_secs, ticks per second
    StartTicks,                  \* wall-clock times the gateway may start at
    MaxLag,                      \* delay between sampling now_unix and the task's start
    ReadingCap, BatchCap,        \* READING_CHANNEL_CAPACITY, BATCH_CHANNEL_CAPACITY
    MaxReadings, MaxNow          \* bounds of the model: readings accepted, last tick

ASSUME ConfigAssumption == DeviceOf \in [Points -> Devices]
ASSUME TimeAssumption ==
    /\ W \in Nat \ {0} /\ S \in Nat \ {0}
    /\ StartTicks \subseteq Nat /\ MaxLag \in Nat
ASSUME BoundAssumption ==
    ReadingCap \in Nat \ {0} /\ BatchCap \in Nat \ {0} /\ MaxReadings \in Nat /\ MaxNow \in Nat

VARIABLES
    now,        \* the current time in ticks
    deadline,   \* when the pinned sleep fires
    windowEnd,  \* window_end_unix, in seconds
    readings,   \* the reading channel, the oldest first
    sending,    \* TRUE while a poller holds a sender of it
    agg,        \* the PointAgg of each point
    pc,         \* "select", "flush" (sending the flushed batches) or "returned"
    outbox,     \* the flushed batches not sent yet, in no order (a HashMap's)
    batches,    \* the batch channel
    listening,  \* TRUE while the publisher holds its receiver
    accepted,   \* history: the point of every reading the channel accepted
    delivered   \* history: the batches the publisher received

vars == <<now, deadline, windowEnd, readings, sending, agg, pc, outbox, batches,
          listening, accepted, delivered>>

-----------------------------------------------------------------------------
Empty == [p \in Points |-> {}]

\* Whole seconds of a time, as Duration::as_secs.
Secs(t) == t \div S

\* The first multiple of the window after t, in seconds.
NextBoundary(t) == (Secs(t) \div W + 1) * W

Surviving(a, d) == {p \in Points : DeviceOf[p] = d /\ a[p] # {}}

Batch(a, d, e) ==
    [device |-> d, start |-> e - W, end |-> e,
     points |-> {[name |-> p, samples |-> a[p]] : p \in Surviving(a, d)}]

\* A device none of whose points has a sample gets no batch.
FlushedBatches(a, e) == {Batch(a, d, e) : d \in {x \in Devices : Surviving(a, x) # {}}}

\* Mutated: only the points of a fully sampled device are reset.
ResetComplete(a) ==
    [p \in Points |->
        IF \A q \in Points : DeviceOf[q] = DeviceOf[p] => a[q] # {} THEN {} ELSE a[p]]

\* The accumulators after a flush.
Reset(a) == Empty

\* Mutated: a late tick shifts every later window.
DriftingDeadline(d, t) == t + W * S

NextEnd(e) == e + W

\* The schedule advances by a fixed window, not from the current time.
NextDeadline(d, t) == d + W * S

Init ==
    \E t \in StartTicks, lag \in 0 .. MaxLag :
        /\ now = t + lag
        /\ windowEnd = NextBoundary(t)
        /\ deadline = now + (NextBoundary(t) * S - t)
        /\ readings = <<>> /\ sending = TRUE
        /\ agg = Empty /\ pc = "select" /\ outbox = {}
        /\ batches = <<>> /\ listening = TRUE
        /\ accepted = <<>> /\ delivered = <<>>

-----------------------------------------------------------------------------
\* Mutated: the channel is unbounded.
UnboundedSend(p) ==
    /\ sending /\ pc # "returned" /\ Len(accepted) < MaxReadings
    /\ accepted' = Append(accepted, p)
    /\ readings' = Append(readings, Len(accepted) + 1)
    /\ UNCHANGED <<now, deadline, windowEnd, sending, agg, pc, outbox, batches,
                   listening, delivered>>

\* A poller's try_send: a reading is lost when the channel is full.
TrySend(p) ==
    /\ sending /\ pc # "returned"
    /\ Len(accepted) < MaxReadings
    /\ Len(readings) < ReadingCap
    /\ accepted' = Append(accepted, p)
    /\ readings' = Append(readings, Len(accepted) + 1)
    /\ UNCHANGED <<now, deadline, windowEnd, sending, agg, pc, outbox, batches,
                   listening, delivered>>

\* The last poller ends and its sender is dropped.
CloseReadings ==
    /\ sending
    /\ sending' = FALSE
    /\ UNCHANGED <<now, deadline, windowEnd, readings, agg, pc, outbox, batches,
                   listening, accepted, delivered>>

Tick ==
    /\ now < MaxNow
    /\ now' = now + 1
    /\ UNCHANGED <<deadline, windowEnd, readings, sending, agg, pc, outbox, batches,
                   listening, accepted, delivered>>

\* recv() returned a reading: fold it into its point's accumulator.
Record ==
    /\ pc = "select" /\ readings # <<>>
    /\ agg' = [agg EXCEPT ![accepted[Head(readings)]] = @ \cup {Head(readings)}]
    /\ readings' = Tail(readings)
    /\ UNCHANGED <<now, deadline, windowEnd, sending, pc, outbox, batches, listening,
                   accepted, delivered>>

\* recv() returned None: every sender is gone and the channel is drained.
\* The open window is not flushed.
RecvClosed ==
    /\ pc = "select" /\ readings = <<>> /\ ~sending
    /\ pc' = "returned"
    /\ UNCHANGED <<now, deadline, windowEnd, readings, sending, agg, outbox, batches,
                   listening, accepted, delivered>>

\* The sleep branch of the select: drain every accumulator into batches.
Flush ==
    /\ pc = "select" /\ now >= deadline
    /\ outbox' = FlushedBatches(agg, windowEnd)
    /\ agg' = Reset(agg)
    /\ pc' = "flush"
    /\ UNCHANGED <<now, deadline, windowEnd, readings, sending, batches, listening,
                   accepted, delivered>>

\* Mutated: a batch the channel has no room for is dropped, as with try_send.
TrySendBatch(b) ==
    /\ pc = "flush" /\ b \in outbox /\ listening
    /\ batches' = IF Len(batches) < BatchCap THEN Append(batches, b) ELSE batches
    /\ outbox' = outbox \ {b}
    /\ UNCHANGED <<now, deadline, windowEnd, readings, sending, agg, pc, listening,
                   accepted, delivered>>

\* publish_tx.send(batch).await waits for room.
SendBatch(b) ==
    /\ pc = "flush" /\ b \in outbox
    /\ listening /\ Len(batches) < BatchCap
    /\ batches' = Append(batches, b)
    /\ outbox' = outbox \ {b}
    /\ UNCHANGED <<now, deadline, windowEnd, readings, sending, agg, pc, listening,
                   accepted, delivered>>

\* Mutated: a failed send is tried again.
RetrySend ==
    /\ pc = "flush" /\ outbox # {} /\ ~listening
    /\ UNCHANGED vars

\* The publisher's receiver is gone: the send fails and the task returns.
SendFailed ==
    /\ pc = "flush" /\ outbox # {} /\ ~listening
    /\ pc' = "returned"
    /\ UNCHANGED <<now, deadline, windowEnd, readings, sending, agg, outbox, batches,
                   listening, accepted, delivered>>

\* Mutated: the next select starts while batches are still unsent.
HastyNextWindow ==
    /\ pc = "flush"
    /\ windowEnd' = NextEnd(windowEnd)
    /\ deadline' = NextDeadline(deadline, now)
    /\ pc' = "select"
    /\ UNCHANGED <<now, readings, sending, agg, outbox, batches, listening, accepted,
                   delivered>>

\* Every batch is sent: advance the schedule and return to the select.
NextWindow ==
    /\ pc = "flush" /\ outbox = {}
    /\ windowEnd' = NextEnd(windowEnd)
    /\ deadline' = NextDeadline(deadline, now)
    /\ pc' = "select"
    /\ UNCHANGED <<now, readings, sending, agg, outbox, batches, listening, accepted,
                   delivered>>

\* The publisher's rx.recv() takes a batch.
Receive ==
    /\ listening /\ batches # <<>>
    /\ delivered' = Append(delivered, Head(batches))
    /\ batches' = Tail(batches)
    /\ UNCHANGED <<now, deadline, windowEnd, readings, sending, agg, pc, outbox,
                   listening, accepted>>

\* The publisher task dies and its receiver with it.
Hangup ==
    /\ listening /\ pc # "returned"
    /\ listening' = FALSE
    /\ UNCHANGED <<now, deadline, windowEnd, readings, sending, agg, pc, outbox,
                   batches, accepted, delivered>>

\* The stage has stopped; the only legitimate end of a behaviour.
Stopped ==
    /\ pc = "returned" /\ ~sending
    /\ listening => batches = <<>>
    /\ UNCHANGED vars

Next ==
    \/ \E p \in Points : TrySend(p)
    \/ CloseReadings \/ Tick
    \/ Record \/ RecvClosed \/ Flush
    \/ \E b \in outbox : SendBatch(b)
    \/ SendFailed \/ NextWindow
    \/ Receive \/ Hangup
    \/ Stopped

Spec == Init /\ [][Next]_vars

-----------------------------------------------------------------------------
Range(s) == {s[i] : i \in DOMAIN s}

Ids(b) == UNION {x.samples : x \in b.points}

\* The batches in the order the publisher receives them.
Stream == delivered \o batches

AllBatches == Range(delivered) \cup Range(batches) \cup outbox

Sample == 1 .. Len(accepted)

\* How many of the accepted readings the task has taken out of the channel.
Taken == Len(accepted) - Len(readings)

BatchType ==
    [device : Devices, start : Nat, end : Nat,
     points : SUBSET [name : Points, samples : SUBSET Sample]]

\* The variables keep their types and the two channels their capacities.
TypeOK ==
    /\ now \in Nat /\ deadline \in Nat /\ windowEnd \in Nat
    /\ sending \in BOOLEAN /\ listening \in BOOLEAN
    /\ pc \in {"select", "flush", "returned"}
    /\ accepted \in Seq(Points)
    /\ readings \in Seq(Nat) /\ Len(readings) <= ReadingCap
    /\ agg \in [Points -> SUBSET Sample]
    /\ outbox \in SUBSET BatchType
    /\ batches \in Seq(BatchType) /\ Len(batches) <= BatchCap
    /\ delivered \in Seq(BatchType)

\* The channel holds the youngest of the accepted readings, in order.
QueueIsSuffix ==
    /\ Len(readings) <= Len(accepted)
    /\ \A i \in 1 .. Len(readings) : readings[i] = Taken + i

\* An accumulator and a batch's point hold readings of that point only.
OwnSamples ==
    /\ \A p \in Points : \A i \in agg[p] : accepted[i] = p
    /\ \A b \in AllBatches : \A x \in b.points : \A i \in x.samples : accepted[i] = x.name

Counted(i) == \E p \in Points : i \in agg[p]

Averaged(i) == \E b \in AllBatches : i \in Ids(b)

\* The readings taken from the channel are those in an accumulator or in a batch.
NoneLost == \A i \in Sample : i <= Taken <=> Counted(i) \/ Averaged(i)

\* No reading is averaged twice: accumulators and batches share none.
NoneTwice ==
    /\ \A b \in AllBatches : \A p \in Points : agg[p] \cap Ids(b) = {}
    /\ \A b, c \in AllBatches : b # c => Ids(b) \cap Ids(c) = {}

\* Every reading the channel accepted is in exactly one place: still queued, in
\* its own point's accumulator, or averaged into exactly one batch.  record and
\* flush neither lose nor repeat a sample, whatever the channels and timers do.
EachReadingOnce == QueueIsSuffix /\ OwnSamples /\ NoneLost /\ NoneTwice

\* A batch is one whole window, it names a point at most once and only points of
\* its device that have a sample, and a device without one sends no batch (flush).
WholeWindows ==
    \A b \in AllBatches :
        /\ b.end = b.start + W /\ b.end % W = 0
        /\ b.points # {}
        /\ \A x \in b.points : x.samples # {} /\ DeviceOf[x.name] = b.device
        /\ \A x, y \in b.points : x.name = y.name => x = y

\* The publisher receives a device's windows in order and each at most once: the
\* flush of a window is sent in full before the next window is flushed.
SentInOrder ==
    /\ \A i, j \in DOMAIN Stream :
          i < j => /\ Stream[i].end <= Stream[j].end
                   /\ Stream[i].device = Stream[j].device => Stream[i].end < Stream[j].end
    /\ \A b \in outbox : \A i \in DOMAIN Stream :
          /\ Stream[i].end <= b.end
          /\ Stream[i].device = b.device => Stream[i].end < b.end
    /\ \A b, c \in outbox : b.device = c.device => b = c

\* Readings are windowed in the order the channel accepted them: of two readings
\* the later one is never averaged into an earlier window.
WindowsFollowReadings ==
    /\ \A b, c \in AllBatches :
          \A i \in Ids(b), j \in Ids(c) : i < j => b.end <= c.end
    /\ \A b \in AllBatches : \A p \in Points : \A i \in Ids(b), j \in agg[p] : i < j

\* The publisher receives whole windows and nothing else, each once, in order, and no
\* reading in a window that precedes that of an older one: flush, the HashMap's order
\* and the waiting sends cannot mix, repeat or overtake windows.
WindowsInOrder == WholeWindows /\ SentInOrder /\ WindowsFollowReadings

\* A window is sealed after its wall-clock end, never before: wait, deadline and
\* window_end_unix stay in step although they are advanced separately.
NeverEarly == \A b \in AllBatches : now >= b.end * S

\* However late the timer fires, the deadline stays within the start-up lag of
\* the wall-clock boundary (the comment at aggregator.rs:94).
DriftFree == (deadline - windowEnd * S) \in 0 .. MaxLag

\* The first flush is due after the start and within one window, also for a start that is
\* exactly on a boundary.
FirstWindow == deadline - now \in 1 .. W * S

\* The two clocks of the schedule, advanced apart, neither drift nor seal too soon,
\* wherever in a second or on a boundary the gateway starts and however late a flush is;
\* in particular no partial window is sealed ahead of its end when the readings' channel
\* closes.
OnSchedule == FirstWindow /\ [](NeverEarly /\ DriftFree)

\* Back-pressure loses no sealed window: a flushed batch reaches the publisher
\* unless the publisher goes away.
BatchesArrive ==
    \A i \in 1 .. MaxReadings :
        (\E b \in outbox : i \in Ids(b))
            ~> (~listening \/ \E b \in Range(delivered) : i \in Ids(b))

\* When the pollers are gone the task returns, also from the middle of a flush
\* and when the publisher is gone too; otherwise shutdown waits out its grace.
ReturnsWhenClosed == ~sending ~> pc = "returned"

\* The task keeps running and the publisher keeps receiving while it listens.
\* tokio::select! polls its branches in random order, so recv is not starved by
\* a timer that is due again and again.
Fairness ==
    /\ WF_vars(Flush \/ (\E b \in outbox : SendBatch(b)) \/ SendFailed \/ NextWindow)
    /\ SF_vars(Record) /\ SF_vars(RecvClosed)
    /\ WF_vars(Receive)

FairSpec == Spec /\ Fairness

\* The task with its channels implements the abstract stage: blocking sends and
\* the order of a HashMap are invisible in what is sealed.
Abstract == INSTANCE TumblingWindow WITH
    taken <- Taken,
    current <- agg,
    window <- IF pc = "flush" \/ outbox # {} THEN windowEnd + W ELSE windowEnd,
    published <- AllBatches,
    running <- pc # "returned"

ImplementsTumblingWindow == Abstract!Spec
=============================================================================

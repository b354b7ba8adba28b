------------------------------- MODULE Poller -------------------------------
(***************************************************************************)
(* One connection: the polling task run_connection of                      *)
(* src/src/modbus/poller.rs with its Backoff, run by the supervisor of     *)
(* src/src/modbus/supervisor.rs.                                           *)
(*                                                                         *)
(* An action runs from one await of the task to the next.  What a request  *)
(* returns is the environment's choice; the values read are left out, and  *)
(* so is the difference between a reading sent and one dropped on a full   *)
(* channel, which the task does not act on.  The ticker is untimed.        *)
(***************************************************************************)
EXTENDS Integers, Sequences

CONSTANTS
    N, Blocks,              \* devices 1 .. N and the number of blocks of each
    MinDelay, MaxDelay,     \* reconnect_backoff_min_secs, reconnect_backoff_max_secs
    MaxCount                \* bound of the model: the histories below count up to it

ASSUME PollerAssumption ==
    /\ N \in Nat \ {0} /\ Blocks \in [1 .. N -> Nat \ {0}]
    /\ MinDelay \in Nat /\ MaxDelay \in Nat /\ MaxCount \in Nat

VARIABLES
    pc,         \* "connect", "backoff", "tick", "read"; "respawn" while the supervisor
                \* waits after a panic; "ended" once it has returned
    dev, blk,   \* the device and the block being read
    backoff,    \* Backoff::current of the task
    respawn,    \* Backoff::current of the supervisor
    open,       \* TRUE while the aggregator holds its receiver
    event,      \* history: the last event reported to the status writer
    reads,      \* history: the reads of the current tick, in order
    reported,   \* history: the device reports of the current tick, in order
    fails,      \* history: waits of the task since its last successful read
    panics      \* history: waits of the supervisor

vars == <<pc, dev, blk, backoff, respawn, open, event, reads, reported, fails, panics>>

-----------------------------------------------------------------------------
Least(a, b) == IF a <= b THEN a ELSE b

\* The delay after a wait for d, as in Backoff::wait.
AfterWait(d) == Least(2 * d, MaxDelay)

CountUp(n) == Least(n + 1, MaxCount)

Event(k, d) == [kind |-> k, device |-> d]

\* What read_block makes of a reply that is not the requested registers and does
\* not end the connection.
DeviceErrors == {"exception", "protocol", "timeout"}

Init ==
    /\ pc = "connect" /\ dev = 1 /\ blk = 1
    /\ backoff = MinDelay /\ respawn = MinDelay
    /\ open = TRUE
    /\ event = Event("none", 0)
    /\ reads = <<>> /\ reported = <<>>
    /\ fails = 0 /\ panics = 0

\* Mutated: a connect resets the backoff, as in the sketch of design.md.
EagerConnected ==
    /\ pc = "connect"
    /\ event' = Event("ConnectionUp", 0)
    /\ pc' = "tick"
    /\ backoff' = MinDelay
    /\ UNCHANGED <<dev, blk, respawn, open, reads, reported, fails, panics>>

Connected ==
    /\ pc = "connect"
    /\ event' = Event("ConnectionUp", 0)
    /\ pc' = "tick"
    /\ UNCHANGED <<dev, blk, backoff, respawn, open, reads, reported, fails, panics>>

ConnectFailed ==
    /\ pc = "connect"
    /\ event' = Event("ConnectionDown", 0)
    /\ pc' = "backoff"
    /\ UNCHANGED <<dev, blk, backoff, respawn, open, reads, reported, fails, panics>>

\* Mutated: the wait is not followed by another attempt.
StuckReconnect ==
    /\ pc = "backoff"
    /\ backoff' = AfterWait(backoff)
    /\ fails' = CountUp(fails)
    /\ reads' = <<>> /\ reported' = <<>>
    /\ UNCHANGED <<pc, dev, blk, respawn, open, event, panics>>

\* backoff.wait() returns: the delay doubles up to the maximum.
Reconnect ==
    /\ pc = "backoff"
    /\ backoff' = AfterWait(backoff)
    /\ fails' = CountUp(fails)
    /\ reads' = <<>> /\ reported' = <<>>
    /\ pc' = "connect"
    /\ UNCHANGED <<dev, blk, respawn, open, event, panics>>

Tick ==
    /\ pc = "tick"
    /\ pc' = "read" /\ dev' = 1 /\ blk' = 1
    /\ reads' = <<>> /\ reported' = <<>>
    /\ UNCHANGED <<backoff, respawn, open, event, fails, panics>>

ReadDone(outcome) ==
    /\ pc = "read"
    /\ reads' = Append(reads, [device |-> dev, block |-> blk, outcome |-> outcome])

\* Mutated: the next device is read from the block that failed.
ReportDeviceStuck(ok) ==
    /\ event' = Event(IF ok THEN "DeviceOk" ELSE "DeviceProblem", dev)
    /\ reported' = Append(reported, [device |-> dev, ok |-> ok])
    /\ blk' = blk
    /\ IF dev < N
       THEN dev' = dev + 1 /\ pc' = "read"
       ELSE dev' = 1 /\ pc' = "tick"

\* The device's result goes to the status writer, then the next device is read;
\* after the last one the ticker is awaited.
ReportDevice(ok) ==
    /\ event' = Event(IF ok THEN "DeviceOk" ELSE "DeviceProblem", dev)
    /\ reported' = Append(reported, [device |-> dev, ok |-> ok])
    /\ blk' = 1
    /\ IF dev < N
       THEN dev' = dev + 1 /\ pc' = "read"
       ELSE dev' = 1 /\ pc' = "tick"

\* The registers of one block arrive: its points are decoded and sent.
ReadWords ==
    /\ ReadDone("words") /\ open
    /\ backoff' = MinDelay /\ fails' = 0
    /\ IF blk < Blocks[dev]
       THEN blk' = blk + 1 /\ UNCHANGED <<pc, dev, event, reported>>
       ELSE ReportDevice(TRUE)
    /\ UNCHANGED <<respawn, open, panics>>

\* The aggregator's receiver is gone: the task returns, and so does supervise.
ReadClosed ==
    /\ ReadDone("words") /\ ~open
    /\ backoff' = MinDelay /\ fails' = 0
    /\ pc' = "ended"
    /\ UNCHANGED <<dev, blk, respawn, open, event, reported, panics>>

\* Mutated: a device's error ends the tick for the devices after it, too.
ReadErrorEndsTick(outcome) ==
    /\ ReadDone(outcome)
    /\ event' = Event("DeviceProblem", dev)
    /\ reported' = Append(reported, [device |-> dev, ok |-> FALSE])
    /\ blk' = 1 /\ dev' = 1 /\ pc' = "tick"
    /\ UNCHANGED <<backoff, respawn, open, fails, panics>>

\* Mutated: the device's other blocks are still read, and its last result counts.
ReadErrorGoesOn(outcome) ==
    /\ ReadDone(outcome)
    /\ IF blk < Blocks[dev]
       THEN blk' = blk + 1 /\ UNCHANGED <<pc, dev, event, reported>>
       ELSE ReportDevice(FALSE)
    /\ UNCHANGED <<backoff, respawn, open, fails, panics>>

\* An error of the device: its other blocks are skipped until the next tick.
ReadError(outcome) ==
    /\ ReadDone(outcome)
    /\ ReportDevice(FALSE)
    /\ UNCHANGED <<backoff, respawn, open, fails, panics>>

\* Mutated: the dead transport is reported as the device's problem, too.
FatalReportsDevice ==
    /\ ReadDone("fatal")
    /\ event' = Event("DeviceProblem", dev)
    /\ pc' = "backoff"
    /\ UNCHANGED <<dev, blk, backoff, respawn, open, reported, fails, panics>>

\* A transport error: the poll loop is left without a report on the device.
ReadFatal ==
    /\ ReadDone("fatal")
    /\ event' = Event("ConnectionDown", 0)
    /\ pc' = "backoff"
    /\ UNCHANGED <<dev, blk, backoff, respawn, open, reported, fails, panics>>

\* A reply shorter than requested: decode indexes past its end and the task
\* panics.  Its backoff dies with it.
ReadPanics ==
    /\ ReadDone("short")
    /\ pc' = "respawn"
    /\ UNCHANGED <<dev, blk, backoff, respawn, open, event, reported, fails, panics>>

\* supervise has waited its own backoff and spawns the task anew.
Respawn ==
    /\ pc = "respawn"
    /\ respawn' = AfterWait(respawn)
    /\ panics' = CountUp(panics)
    /\ pc' = "connect" /\ dev' = 1 /\ blk' = 1
    /\ backoff' = MinDelay /\ fails' = 0
    /\ reads' = <<>> /\ reported' = <<>>
    /\ UNCHANGED <<open, event>>

\* run drops the supervisor, which aborts the task at its next await.
Abort ==
    /\ pc # "ended"
    /\ pc' = "ended"
    /\ UNCHANGED <<dev, blk, backoff, respawn, open, event, reads, reported, fails, panics>>

\* The aggregator returns.
CloseReadings ==
    /\ open
    /\ open' = FALSE
    /\ UNCHANGED <<pc, dev, blk, backoff, respawn, event, reads, reported, fails, panics>>

Ended == pc = "ended" /\ UNCHANGED vars

Next ==
    \/ Connected \/ ConnectFailed \/ Reconnect
    \/ Tick
    \/ ReadWords \/ ReadClosed \/ ReadFatal \/ ReadPanics
    \/ \E o \in DeviceErrors : ReadError(o)
    \/ Respawn \/ Abort
    \/ CloseReadings \/ Ended

Spec == Init /\ [][Next]_vars

-----------------------------------------------------------------------------
\* The variables keep their types, and the block read is one the device has.
TypeOK ==
    /\ pc \in {"connect", "backoff", "tick", "read", "respawn", "ended"}
    /\ dev \in 1 .. N /\ blk \in 1 .. Blocks[dev]
    /\ backoff \in Nat /\ respawn \in Nat
    /\ open \in BOOLEAN
    /\ fails \in 0 .. MaxCount /\ panics \in 0 .. MaxCount
    /\ event.device \in 0 .. N

\* The powers of two.
Power[n \in 0 .. MaxCount] == IF n = 0 THEN 1 ELSE 2 * Power[n - 1]

\* The n-th wait in a row is for MinDelay * 2^n, up to the maximum.
Delay(n) == Least(MinDelay * Power[n], MaxDelay)

\* The histories count for as long as the delays may still grow.
ASSUME CountAssumption == MinDelay > 0 => Delay(MaxCount) = MaxDelay

\* Successive failures wait ever longer, up to the maximum, whichever mix of failed
\* connects and connections lost again they are; only a successful read starts the
\* series again (the comment at poller.rs:216-218).  Likewise for repeated panics.
DelaysGrow ==
    MinDelay <= MaxDelay => backoff = Delay(fails) /\ respawn = Delay(panics)

\* One device's failure never costs another device its turn: a tick that has read
\* anything and does not end the connection reports every device, once and in
\* configuration order (design.md, 6.1).
EveryDeviceEveryTick ==
    pc = "tick" /\ reads # <<>> =>
        /\ Len(reported) = N
        /\ \A i \in 1 .. N : reported[i].device = i

\* A device is reported as ok exactly when all of its blocks were read in this tick,
\* and it is not asked again in a tick in which it has failed.
ReportsMatchReads ==
    /\ \A i \in DOMAIN reported :
          LET own == {j \in DOMAIN reads : reads[j].device = reported[i].device}
          IN  IF reported[i].ok
              THEN {reads[j].block : j \in {k \in own : reads[k].outcome = "words"}}
                      = 1 .. Blocks[reported[i].device]
              ELSE \E j \in own : /\ reads[j].outcome \in DeviceErrors
                                  /\ \A k \in own : k <= j
    /\ \A j, k \in DOMAIN reads :
          j < k /\ reads[j].device = reads[k].device => reads[j].outcome = "words"

\* The task follows the protocol the status writer relies on.
Reports == INSTANCE ConnectionReports WITH
    link <- IF pc \in {"tick", "read"} THEN "up" ELSE "down",
    next <- IF pc = "read" THEN dev ELSE 1

FollowsProtocol == Reports!Spec

\* A polling cycle always ends: every request is bounded by io_timeout_ms, every
\* delay by its backoff, and no device can hold the task.
Fairness ==
    /\ WF_vars(Connected \/ ConnectFailed)
    /\ WF_vars(Reconnect) /\ WF_vars(Tick) /\ WF_vars(Respawn)
    /\ WF_vars(ReadWords \/ ReadClosed \/ ReadFatal \/ ReadPanics
               \/ (\E o \in DeviceErrors : ReadError(o)))

FairSpec == Spec /\ Fairness

Trouble == ConnectFailed \/ ReadFatal \/ ReadPanics

\* However the devices and the transport behave, the connection polls or tries to connect
\* again and again until it is told to end; and whatever mess of failures went before, once
\* the transport holds, every device is reported for ever, though any of them may fail
\* every time.
KeepsServing ==
    /\ []<>(pc \in {"connect", "tick", "ended"})
    /\ <>[][~Trouble]_vars =>
            \A d \in 1 .. N : []<>(event.device = d \/ pc = "ended")

-----------------------------------------------------------------------------
\* config.example.toml:171-172 of the reconnect_backoff_max_secs: "a smaller value
\* caps every retry delay at this value".
RetryWithinMax == pc \in {"backoff", "respawn"} =>
    (IF pc = "backoff" THEN backoff ELSE respawn) <= MaxDelay
=============================================================================

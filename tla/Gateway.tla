------------------------------ MODULE Gateway ------------------------------
(***************************************************************************)
(* The life of the whole gateway: main of src/src/main.rs, run of          *)
(* src/src/lib.rs, the tasks it starts, and the channels whose closing     *)
(* carries a shutdown from one task to the next.  It ends where run        *)
(* returns: the runtime that the attribute of main drops after that, which *)
(* waits for a status write still in progress, is not in the model.        *)
(*                                                                         *)
(* A channel is closed when every holder of its sender is gone: the        *)
(* supervisors and connection tasks hold the readings' and the status      *)
(* events' senders, the aggregator the batches', the eventloop the status  *)
(* events'.                                                                *)
(*                                                                         *)
(* The tasks are reduced to what they do to these channels; Aggregator,    *)
(* Poller, Publisher and StatusWriter are their detailed models.  Readings *)
(* and batches are counted; a status event is a broker state or noise.     *)
(* An abort takes effect later, at an await of the aborted task.           *)
(***************************************************************************)
EXTENDS Integers, Sequences, FiniteSets

CONSTANTS
    Conns,                                      \* the configured connections
    ReadingCap, BatchCap, QueueCap, StatusCap,  \* capacities of the channels and the queue
    MaxBatches                                  \* bound of the model: batches sealed

ASSUME GatewayAssumption ==
    /\ Conns # {} /\ IsFiniteSet(Conns)
    /\ Conns \cap {"aggregator", "publisher", "eventloop", "writer"} = {}
    /\ ReadingCap \in Nat \ {0} /\ BatchCap \in Nat \ {0}
    /\ QueueCap \in Nat \ {0} /\ StatusCap \in Nat \ {0} /\ MaxBatches \in Nat

VARIABLES
    run,        \* where run is: see Phases
    failure,    \* TRUE if the select ended with a dead task
    signal,     \* TRUE once SIGTERM or Ctrl-C has come
    sup,        \* the connections whose supervisor is alive
    alive,      \* the connections whose polling task is alive, and the core tasks that are
    aborted,    \* the tasks whose abort was requested
    readings,   \* readings queued for the aggregator
    batches,    \* batches queued for the publisher
    requests,   \* publishes in the request queue
    farewell,   \* "no", "queued" or "sent": the "offline" with its DISCONNECT
    broker,     \* TRUE while the eventloop is connected
    events,     \* the status channel
    shown,      \* the broker's state as the status writer has it
    sealed, sent, dropped,      \* history: batches sealed, sent, dropped on a full queue
    overdue,                    \* history: the grace has expired
    died,                       \* history: a core task ended on its own
    missed                      \* history: a status event was dropped

own == <<run, failure, signal>>
flow == <<readings, batches, requests, farewell, sealed, sent, dropped>>
statusFlow == <<broker, events, shown, missed>>
vars == <<own, sup, alive, aborted, flow, statusFlow, overdue, died>>

-----------------------------------------------------------------------------
\* In the first two SIGTERM has its default disposition; in the last three run has returned,
\* or main has before it, or a signal has killed the process.
Phases == {"loading", "handlers", "setup", "running", "stopping", "draining", "aborting",
           "flushing", "ok", "failed", "killed"}

Exited == run \in {"ok", "failed", "killed"}

Core == {"aggregator", "publisher", "eventloop", "writer"}

ReadingsClosed == sup = {} /\ alive \cap Conns = {}
BatchesClosed == "aggregator" \notin alive
EventsClosed == sup = {} /\ alive \cap (Conns \cup {"eventloop"}) = {}

\* A try_send into the status channel.
Report(e) ==
    IF Len(events) < StatusCap
    THEN events' = Append(events, e) /\ UNCHANGED missed
    ELSE missed' = TRUE /\ UNCHANGED events

Init ==
    /\ run = "loading" /\ failure = FALSE /\ signal = FALSE
    /\ sup = {} /\ alive = {} /\ aborted = {}
    /\ readings = 0 /\ batches = 0 /\ requests = 0 /\ farewell = "no"
    /\ broker = FALSE /\ events = <<>> /\ shown = "disconnected"
    /\ sealed = 0 /\ sent = 0 /\ dropped = 0
    /\ overdue = FALSE /\ died = FALSE /\ missed = FALSE

-----------------------------------------------------------------------------
\* main loads the configuration, ...
Load ==
    /\ run = "loading"
    /\ run' = "handlers"
    /\ UNCHANGED <<failure, signal, sup, alive, aborted, flow, statusFlow, overdue, died>>

\* ... sets up the log and installs the handler of SIGTERM, before anything is started.
InstallHandler ==
    /\ run = "handlers"
    /\ run' = "setup"
    /\ UNCHANGED <<failure, signal, sup, alive, aborted, flow, statusFlow, overdue, died>>

\* The configuration is invalid, the handler cannot be installed, or the password or the CA
\* that validation has seen is gone: nothing was started.
StartFails ==
    /\ run \in {"loading", "handlers", "setup"}
    /\ run' = "failed"
    /\ UNCHANGED <<failure, signal, sup, alive, aborted, flow, statusFlow, overdue, died>>

\* SIGTERM, at any moment: its handler remembers it until the select looks.
Terminate ==
    /\ ~signal /\ ~Exited
    /\ signal' = TRUE
    /\ run' = IF run \in {"loading", "handlers"} THEN "killed" ELSE run
    /\ UNCHANGED <<failure, sup, alive, aborted, flow, statusFlow, overdue, died>>

\* Ctrl-C, which has a handler from the first look of the select on.
Interrupt ==
    /\ ~signal /\ ~Exited
    /\ signal' = TRUE
    /\ run' = IF run \in {"loading", "handlers", "setup"} THEN "killed" ELSE run
    /\ UNCHANGED <<failure, sup, alive, aborted, flow, statusFlow, overdue, died>>

\* Every task is spawned without an await in between.
Start ==
    /\ run = "setup"
    /\ run' = "running"
    /\ sup' = Conns /\ alive' = Conns \cup Core
    /\ UNCHANGED <<failure, signal, aborted, flow, statusFlow, overdue, died>>

\* The select of run: the shutdown was requested, ...
Shutdown ==
    /\ run = "running" /\ signal
    /\ run' = "stopping"
    /\ UNCHANGED <<failure, signal, sup, alive, aborted, flow, statusFlow, overdue, died>>

\* ... or the publisher or the aggregator has ended on its own.
TaskExited ==
    /\ run = "running" /\ ~({"aggregator", "publisher"} \subseteq alive)
    /\ run' = "stopping" /\ failure' = TRUE
    /\ UNCHANGED <<signal, sup, alive, aborted, flow, statusFlow, overdue, died>>

\* Mutated: dropping a supervisor leaves its task running.
DropSupervisorOnly(c) ==
    /\ run = "stopping" /\ c \in sup
    /\ sup' = sup \ {c}
    /\ UNCHANGED <<own, alive, aborted, flow, statusFlow, overdue, died>>

\* pollers.shutdown(): an aborted supervisor drops its senders and aborts its task.
DropSupervisor(c) ==
    /\ run = "stopping" /\ c \in sup
    /\ sup' = sup \ {c}
    /\ aborted' = aborted \cup ({c} \cap alive)
    /\ UNCHANGED <<own, alive, flow, statusFlow, overdue, died>>

\* Mutated: after a failure run returns without aborting what is left.
PollersStoppedOnly ==
    /\ run = "stopping" /\ sup = {}
    /\ run' = IF failure THEN "failed" ELSE "draining"
    /\ UNCHANGED <<failure, signal, sup, alive, aborted, flow, statusFlow, overdue, died>>

\* Every supervisor is gone: return the failure, or let the stages drain.
PollersStopped ==
    /\ run = "stopping" /\ sup = {}
    /\ IF failure
       THEN run' = "failed" /\ aborted' = aborted \cup (alive \cap {"aggregator", "publisher"})
       ELSE run' = "draining" /\ UNCHANGED aborted
    /\ UNCHANGED <<failure, signal, sup, alive, flow, statusFlow, overdue, died>>

\* The aggregator and the publisher have returned within the grace.
Drained ==
    /\ run = "draining" /\ {"aggregator", "publisher"} \cap alive = {}
    /\ run' = "flushing"
    /\ UNCHANGED <<failure, signal, sup, alive, aborted, flow, statusFlow, overdue, died>>

\* Mutated: the tasks are left running when the grace expires.
GraceOverOnly ==
    /\ run = "draining" /\ {"aggregator", "publisher"} \cap alive # {}
    /\ run' = "aborting" /\ overdue' = TRUE
    /\ UNCHANGED <<failure, signal, sup, alive, aborted, flow, statusFlow, died>>

\* SHUTDOWN_GRACE expires first.
GraceOver ==
    /\ run = "draining" /\ {"aggregator", "publisher"} \cap alive # {}
    /\ run' = "aborting" /\ overdue' = TRUE
    /\ aborted' = aborted \cup (alive \cap {"aggregator", "publisher"})
    /\ UNCHANGED <<failure, signal, sup, alive, flow, statusFlow, died>>

\* publisher.await after its abort.
PublisherGone ==
    /\ run = "aborting" /\ "publisher" \notin alive
    /\ run' = "flushing"
    /\ UNCHANGED <<failure, signal, sup, alive, aborted, flow, statusFlow, overdue, died>>

\* The status writer has returned, ...
Flushed ==
    /\ run = "flushing" /\ "writer" \notin alive
    /\ run' = "ok"
    /\ UNCHANGED <<failure, signal, sup, alive, aborted, flow, statusFlow, overdue, died>>

\* ... or STATUS_FLUSH_TIMEOUT expires first.
FlushOver ==
    /\ run = "flushing" /\ "writer" \in alive
    /\ run' = "ok"
    /\ UNCHANGED <<failure, signal, sup, alive, aborted, flow, statusFlow, overdue, died>>

-----------------------------------------------------------------------------
\* What ends with a task: the publisher's guard aborts the eventloop, which loses the
\* connection to the broker.
Ends(t) ==
    /\ alive' = alive \ {t}
    /\ aborted' = (aborted \ {t})
                      \cup (IF t = "publisher" THEN alive \cap {"eventloop"} ELSE {})
    /\ broker' = (broker /\ t # "eventloop")

\* An abort takes effect.
Cancelled(t) ==
    /\ t \in aborted /\ t \in alive
    /\ Ends(t)
    /\ UNCHANGED <<own, sup, flow, events, shown, missed, overdue, died>>

\* The aggregator or the publisher panics.
Dies(t) ==
    /\ t \in alive
    /\ Ends(t)
    /\ died' = TRUE
    /\ UNCHANGED <<own, sup, flow, events, shown, missed, overdue>>

\* A polling task sends a reading, ...
Poll(c) ==
    /\ c \in alive /\ "aggregator" \in alive
    /\ readings < ReadingCap
    /\ readings' = readings + 1
    /\ UNCHANGED <<own, sup, alive, aborted, batches, requests, farewell, sealed, sent,
                   dropped, statusFlow, overdue, died>>

\* ... reports to the status writer, ...
ReportPoll(c) ==
    /\ c \in alive
    /\ Report("noise")
    /\ UNCHANGED <<own, sup, alive, aborted, flow, broker, shown, overdue,
                   died>>

\* ... returns because the aggregator is gone, and its supervisor with it, ...
PollReturns(c) ==
    /\ c \in alive /\ "aggregator" \notin alive
    /\ Ends(c)
    /\ sup' = sup \ {c}
    /\ UNCHANGED <<own, flow, events, shown, missed, overdue, died>>

\* ... or panics ...
PollPanics(c) ==
    /\ c \in alive
    /\ Ends(c)
    /\ UNCHANGED <<own, sup, flow, events, shown, missed, overdue, died>>

\* ... and is spawned again, if its supervisor is still there after the back-off.
Respawn(c) ==
    /\ c \in sup /\ c \notin alive
    /\ alive' = alive \cup {c}
    /\ UNCHANGED <<own, sup, aborted, flow, statusFlow, overdue, died>>

TakeReading ==
    /\ "aggregator" \in alive /\ readings > 0
    /\ readings' = readings - 1
    /\ UNCHANGED <<own, sup, alive, aborted, batches, requests, farewell, sealed, sent,
                   dropped, statusFlow, overdue, died>>

\* A batch of a window that has ended goes to the publisher.
Seal ==
    /\ "aggregator" \in alive /\ "publisher" \in alive
    /\ sealed < MaxBatches /\ batches < BatchCap
    /\ sealed' = sealed + 1 /\ batches' = batches + 1
    /\ UNCHANGED <<own, sup, alive, aborted, readings, requests, farewell, sent,
                   dropped, statusFlow, overdue, died>>

\* The readings are closed and drained, or the publisher's receiver is gone.
AggregatorReturns ==
    /\ "aggregator" \in alive
    /\ (ReadingsClosed /\ readings = 0) \/ "publisher" \notin alive
    /\ Ends("aggregator")
    /\ UNCHANGED <<own, sup, flow, events, shown, missed, overdue, died>>

\* Mutated: the request queue has no bound.
PublishAlways ==
    /\ "publisher" \in alive /\ batches > 0
    /\ batches' = batches - 1 /\ requests' = requests + 1
    /\ UNCHANGED <<own, sup, alive, aborted, readings, farewell, sealed, sent, dropped,
                   statusFlow, overdue, died>>

\* The publisher queues a batch, or drops it on a full request queue.
Publish ==
    /\ "publisher" \in alive /\ batches > 0
    /\ batches' = batches - 1
    /\ IF requests < QueueCap
       THEN requests' = requests + 1 /\ UNCHANGED dropped
       ELSE dropped' = dropped + 1 /\ UNCHANGED requests
    /\ UNCHANGED <<own, sup, alive, aborted, readings, farewell, sealed, sent,
                   statusFlow, overdue, died>>

\* Mutated: the farewell does not wait for the batches that are still queued.
QueueFarewellHastily ==
    /\ "publisher" \in alive /\ "eventloop" \in alive /\ farewell = "no"
    /\ BatchesClosed /\ requests < QueueCap
    /\ farewell' = "queued"
    /\ UNCHANGED <<own, sup, alive, aborted, readings, batches, requests, sealed, sent,
                   dropped, statusFlow, overdue, died>>

\* The batches are closed and drained: "offline" and the DISCONNECT wait for room.
QueueFarewell ==
    /\ "publisher" \in alive /\ "eventloop" \in alive /\ farewell = "no"
    /\ BatchesClosed /\ batches = 0 /\ requests < QueueCap
    /\ farewell' = "queued"
    /\ UNCHANGED <<own, sup, alive, aborted, readings, batches, requests, sealed, sent,
                   dropped, statusFlow, overdue, died>>

PublisherReturns ==
    /\ "publisher" \in alive /\ farewell # "no" /\ "eventloop" \notin alive
    /\ Ends("publisher")
    /\ UNCHANGED <<own, sup, flow, events, shown, missed, overdue, died>>

\* The eventloop connects, or loses the broker.
BrokerChanges ==
    /\ "eventloop" \in alive
    /\ broker' = ~broker
    /\ Report(IF broker THEN "disconnected" ELSE "connected")
    /\ UNCHANGED <<own, sup, alive, aborted, flow, shown, overdue, died>>

SendRequest ==
    /\ "eventloop" \in alive /\ broker /\ requests > 0
    /\ requests' = requests - 1 /\ sent' = sent + 1
    /\ UNCHANGED <<own, sup, alive, aborted, readings, batches, farewell, sealed,
                   dropped, statusFlow, overdue, died>>

\* The DISCONNECT is written behind everything else: the eventloop reports and returns.
SendFarewell ==
    /\ "eventloop" \in alive /\ broker /\ requests = 0 /\ farewell = "queued"
    /\ farewell' = "sent"
    /\ Report("disconnected")
    /\ Ends("eventloop")
    /\ UNCHANGED <<own, sup, readings, batches, requests, sealed, sent, dropped, shown,
                   overdue, died>>

\* The status writer applies an event, ...
ApplyEvent ==
    /\ "writer" \in alive /\ events # <<>>
    /\ shown' = IF Head(events) = "noise" THEN shown ELSE Head(events)
    /\ events' = Tail(events)
    /\ UNCHANGED <<own, sup, alive, aborted, flow, broker, missed, overdue,
                   died>>

\* ... and returns, with that state in the file, when every reporter is gone.
WriterReturns ==
    /\ "writer" \in alive /\ events = <<>> /\ EventsClosed
    /\ alive' = alive \ {"writer"}
    /\ UNCHANGED <<own, sup, aborted, flow, broker, events, shown, missed, overdue, died>>

Returned == Exited /\ UNCHANGED vars

Next ==
    \/ Load \/ InstallHandler \/ StartFails \/ Terminate \/ Interrupt
    \/ Start \/ Shutdown \/ TaskExited
    \/ \E c \in Conns : DropSupervisor(c)
    \/ PollersStopped \/ Drained \/ GraceOver \/ PublisherGone \/ Flushed \/ FlushOver
    \/ \E t \in Conns \cup Core : Cancelled(t)
    \/ \E t \in {"aggregator", "publisher"} : Dies(t)
    \/ \E c \in Conns : Poll(c) \/ ReportPoll(c) \/ PollReturns(c) \/ PollPanics(c) \/ Respawn(c)
    \/ TakeReading \/ Seal \/ AggregatorReturns
    \/ Publish \/ QueueFarewell \/ PublisherReturns
    \/ BrokerChanges \/ SendRequest \/ SendFarewell
    \/ ApplyEvent \/ WriterReturns
    \/ Returned

Spec == Init /\ [][Next]_vars

-----------------------------------------------------------------------------
\* The variables keep their types, the channels their capacities, and every batch is
\* accounted for.
TypeOK ==
    /\ run \in Phases /\ failure \in BOOLEAN /\ signal \in BOOLEAN
    /\ sup \subseteq Conns /\ alive \subseteq Conns \cup Core /\ aborted \subseteq alive
    /\ readings \in 0 .. ReadingCap /\ batches \in 0 .. BatchCap /\ requests \in 0 .. QueueCap
    /\ farewell \in {"no", "queued", "sent"} /\ broker \in BOOLEAN
    /\ events \in Seq({"noise", "connected", "disconnected"}) /\ Len(events) <= StatusCap
    /\ shown \in {"connected", "disconnected"}
    /\ sealed \in 0 .. MaxBatches /\ sealed = batches + requests + sent + dropped
    /\ overdue \in BOOLEAN /\ died \in BOOLEAN /\ missed \in BOOLEAN

\* A task that is about to end: it was aborted, or the owner of its guard was.
Condemned ==
    aborted \cup (IF "publisher" \in aborted THEN {"eventloop"} ELSE {})

\* No task outlives its owner: a polling task without a supervisor is being aborted; the
\* time that run gives the status writer begins when the publisher and its reporter are
\* gone (lib.rs:145-147), and whatever else is left then, or when run returns, is being
\* aborted too.
NothingOutlives ==
    /\ (alive \cap Conns) \ sup \subseteq Condemned
    /\ run = "flushing" => "publisher" \notin alive
    /\ run = "flushing" \/ Exited => alive \ {"writer"} \subseteq Condemned

\* A shutdown that needed no timeout: nothing died on the way either.
Graceful == run \in {"flushing", "ok"} /\ ~overdue /\ ~died

\* A graceful shutdown publishes every batch that was sealed, except those that met a
\* full request queue, and says farewell behind the last of them (doc of run).
GracefulStopDrains ==
    Graceful => /\ batches = 0 /\ requests = 0 /\ sent + dropped = sealed
                /\ farewell = "sent"

\* After a graceful shutdown the status writer's last write shows the broker as
\* disconnected, unless an event was dropped (e2e_shutdown.rs:149).
LastWordWritten ==
    Graceful /\ "writer" \notin alive /\ ~missed => shown = "disconnected"

\* A graceful shutdown, stage by stage, loses neither a sealed batch nor the last word
\* to the broker and to the status file (doc of run).
GracefulStop == GracefulStopDrains /\ LastWordWritten

-----------------------------------------------------------------------------
\* The steps of run itself and the aborts it has requested.
RunSteps ==
    \/ Load \/ InstallHandler \/ Start \/ Shutdown \/ TaskExited \/ (\E c \in Conns : DropSupervisor(c))
    \/ PollersStopped \/ Drained \/ PublisherGone \/ Flushed

Fairness == WF_vars(RunSteps) /\ \A t \in Conns \cup Core : WF_vars(Cancelled(t))

FairSpec == Spec /\ Fairness

\* The two timeouts of run expire.
Timeouts == WF_vars(GraceOver) /\ WF_vars(FlushOver)

\* Whenever a signal comes, or the publisher dies, run returns (or the signal kills the
\* process before it), with its timeouts alone and though no other task ever makes a step:
\* an unreachable broker, a stuck aggregator and a slow status write do not hold it, and a
\* signal that comes before the select is not lost (the comment at main.rs:39-40).
ReturnsAnyway ==
    Timeouts =>
        (signal \/ run = "stopping" \/ (run = "running" /\ "publisher" \notin alive) ~> Exited)

\* The tasks take their steps and the broker can be reached in the end.
TaskProgress ==
    /\ WF_vars(TakeReading) /\ WF_vars(AggregatorReturns)
    /\ SF_vars(Publish) /\ WF_vars(QueueFarewell) /\ WF_vars(PublisherReturns)
    /\ SF_vars(~broker /\ BrokerChanges) /\ SF_vars(SendRequest) /\ SF_vars(SendFarewell)
    /\ WF_vars(ApplyEvent) /\ WF_vars(WriterReturns)

\* Without its timeouts run returns as well: the channels close one after the other,
\* and no forgotten sender keeps a stage waiting (the comment at lib.rs:111-112).
DrainsByItself ==
    TaskProgress => (run = "stopping" ~> Exited)
=============================================================================

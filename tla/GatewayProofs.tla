---------------------------- MODULE GatewayProofs ----------------------------
(***************************************************************************)
(* Proofs about Gateway: for any number of connections and all capacities  *)
(* no task outlives its owner, and a graceful stop loses nothing.          *)
(***************************************************************************)
EXTENDS Gateway, TLAPS

\* The tasks and what has been asked of them.
TasksTyped ==
    /\ run \in Phases
    /\ sup \subseteq Conns /\ alive \subseteq Conns \cup Core /\ aborted \subseteq alive

\* Who is alive, and who must have been aborted, by the phase of run: an abort is asked for
\* in the same step that takes the owner away.
Owned ==
    /\ run \in {"loading", "handlers", "setup", "killed"} => alive = {} /\ sup = {}
    /\ run \in {"draining", "aborting", "flushing", "ok", "failed"} => sup = {}
    /\ run \in {"aborting", "flushing", "ok", "failed"} =>
            alive \cap {"aggregator", "publisher"} \subseteq aborted
    /\ run = "flushing" => "publisher" \notin alive
    /\ (alive \cap Conns) \ sup \subseteq aborted
    /\ "eventloop" \in alive /\ "publisher" \notin alive => "eventloop" \in aborted
    /\ "writer" \notin aborted

TaskInv == TasksTyped /\ Owned

\* The assumption in the form in which it is used.
LEMMA ConnsAreNotCore ==
  \A c \in Conns : c \notin {"aggregator", "publisher", "eventloop", "writer"}
BY GatewayAssumption

\* Nothing is alive at first.
LEMMA InitTasks == Init => TaskInv
BY DEF Init, TaskInv, TasksTyped, Owned, Phases

\* The end of a task keeps the invariant: its abort has gone with it, and the guard of the
\* publisher aborts the eventloop.
LEMMA EndsKeeps ==
  ASSUME TaskInv, NEW t \in alive, Ends(t), run' = run, sup' = sup \/ (t \in Conns /\ sup' = sup \ {t})
  PROVE  TaskInv'
<1>1. /\ alive' = alive \ {t}
      /\ aborted' = (aborted \ {t}) \cup (IF t = "publisher" THEN alive \cap {"eventloop"} ELSE {})
  BY DEF Ends
<1>2. TasksTyped'
  BY <1>1 DEF TaskInv, TasksTyped
<1>3. (alive \cap Conns) \ sup \subseteq aborted
      => ((alive \cap Conns) \ sup \subseteq aborted)'
  BY <1>1
<1>4. ("eventloop" \in alive /\ "publisher" \notin alive => "eventloop" \in aborted)'
  BY <1>1 DEF TaskInv, Owned
<1>5. Owned'
  BY <1>1, <1>3, <1>4 DEF TaskInv, Owned
<1> QED BY <1>2, <1>5 DEF TaskInv

\* The steps of main and run.
LEMMA RunKeeps ==
  ASSUME TaskInv,
         \/ Load \/ InstallHandler \/ StartFails \/ Terminate \/ Interrupt \/ Start \/ Shutdown
         \/ TaskExited \/ PollersStopped \/ Drained \/ GraceOver \/ PublisherGone \/ Flushed
         \/ FlushOver
  PROVE  TaskInv'
<1> USE DEF TaskInv, TasksTyped, Owned, Phases
<1>1. CASE Load
  BY <1>1 DEF Load
<1>2. CASE InstallHandler
  BY <1>2 DEF InstallHandler
<1>3. CASE StartFails
  BY <1>3 DEF StartFails
<1>4. CASE Terminate
  BY <1>4 DEF Terminate, Exited
<1>5. CASE Interrupt
  BY <1>5 DEF Interrupt, Exited
<1>6. CASE Start
  BY <1>6, ConnsAreNotCore DEF Start, Core
<1>7. CASE Shutdown
  BY <1>7 DEF Shutdown
<1>8. CASE TaskExited
  BY <1>8 DEF TaskExited
<1>9. CASE PollersStopped
  BY <1>9 DEF PollersStopped
<1>10. CASE Drained
  BY <1>10 DEF Drained
<1>11. CASE GraceOver
  BY <1>11 DEF GraceOver
<1>12. CASE PublisherGone
  BY <1>12 DEF PublisherGone
<1>13. CASE Flushed
  BY <1>13 DEF Flushed
<1>14. CASE FlushOver
  BY <1>14 DEF FlushOver
<1> QED
  BY <1>1, <1>2, <1>3, <1>4, <1>5, <1>6, <1>7, <1>8, <1>9, <1>10, <1>11, <1>12, <1>13, <1>14

\* Every step keeps the invariant.
LEMMA NextTasks == TaskInv /\ [Next]_vars => TaskInv'
<1> SUFFICES ASSUME TaskInv, [Next]_vars PROVE TaskInv'
  OBVIOUS
<1> DEFINE Stays == UNCHANGED <<run, sup, alive, aborted>>
<1>1. ASSUME Stays PROVE TaskInv'
  BY <1>1 DEF TaskInv, TasksTyped, Owned
<1>2. ASSUME NEW c \in Conns, DropSupervisor(c) PROVE TaskInv'
  BY <1>2, ConnsAreNotCore DEF DropSupervisor, own, TaskInv, TasksTyped, Owned
<1>3. ASSUME NEW t \in Conns \cup Core, Cancelled(t) \/ Dies(t) PROVE TaskInv'
  BY <1>3, EndsKeeps DEF Cancelled, Dies, own
<1>4. ASSUME NEW c \in Conns, PollReturns(c) \/ PollPanics(c) PROVE TaskInv'
  BY <1>4, EndsKeeps DEF PollReturns, PollPanics, own
<1>5. ASSUME NEW c \in Conns, Respawn(c) PROVE TaskInv'
  BY <1>5, ConnsAreNotCore DEF Respawn, own, TaskInv, TasksTyped, Owned
<1>6. CASE AggregatorReturns \/ PublisherReturns \/ SendFarewell
  BY <1>6, EndsKeeps DEF AggregatorReturns, PublisherReturns, SendFarewell, own
<1>7. CASE WriterReturns
  BY <1>7 DEF WriterReturns, own, TaskInv, TasksTyped, Owned
<1>8. ASSUME NEW c \in Conns, Poll(c) \/ ReportPoll(c) PROVE TaskInv'
  BY <1>1, <1>8 DEF Poll, ReportPoll, own
<1>9. CASE TakeReading \/ Seal \/ Publish \/ QueueFarewell \/ BrokerChanges \/ SendRequest
           \/ ApplyEvent \/ Returned \/ UNCHANGED vars
  BY <1>1, <1>9 DEF TakeReading, Seal, Publish, QueueFarewell, BrokerChanges, SendRequest,
                    ApplyEvent, Returned, vars, own
<1>10. CASE \E t \in {"aggregator", "publisher"} : Dies(t)
  BY <1>3, <1>10 DEF Core
<1>11. CASE \E c \in Conns : Poll(c) \/ ReportPoll(c) \/ PollReturns(c) \/ PollPanics(c) \/ Respawn(c)
  BY <1>4, <1>5, <1>8, <1>11
<1>12. CASE \/ Load \/ InstallHandler \/ StartFails \/ Terminate \/ Interrupt \/ Start \/ Shutdown
            \/ TaskExited \/ PollersStopped \/ Drained \/ GraceOver \/ PublisherGone \/ Flushed
            \/ FlushOver
  BY <1>12, RunKeeps
<1> QED BY <1>2, <1>3, <1>6, <1>7, <1>9, <1>10, <1>11, <1>12 DEF Next

\* For every set of connections and all capacities: a polling task without a supervisor is
\* being aborted; and when the status writer gets its time the publisher is gone and
\* whatever else is alive is being aborted, as it is when run returns (AbortOnDrop and the
\* aborts of run).
THEOREM Outlived == Spec => []NothingOutlives
<1>1. TaskInv => NothingOutlives
  <2> SUFFICES ASSUME TaskInv PROVE NothingOutlives
    OBVIOUS
  <2>1. (alive \cap Conns) \ sup \subseteq Condemned
    BY DEF TaskInv, Owned, Condemned
  <2>2. ASSUME run = "flushing" \/ Exited, NEW t \in alive, t # "writer" PROVE t \in Condemned
    <3>1. CASE run = "killed"
      BY <2>2, <3>1 DEF TaskInv, Owned
    <3>2. CASE run # "killed"
      BY <2>2, <3>2 DEF TaskInv, TasksTyped, Owned, Exited, Core, Condemned
    <3> QED BY <3>1, <3>2
  <2>3. run = "flushing" => "publisher" \notin alive
    BY DEF TaskInv, Owned
  <2> QED BY <2>1, <2>2, <2>3 DEF NothingOutlives
<1> QED BY <1>1, InitTasks, NextTasks, PTL DEF Spec

-----------------------------------------------------------------------------
\* Where the batches are.
Counts ==
    /\ readings \in 0 .. ReadingCap /\ batches \in 0 .. BatchCap /\ requests \in 0 .. QueueCap
    /\ sent \in Nat /\ dropped \in Nat
    /\ farewell \in {"no", "queued", "sent"}
    /\ sealed \in 0 .. MaxBatches /\ sealed = batches + requests + sent + dropped

\* What the status writer gets to know.
StatusTyped ==
    /\ broker \in BOOLEAN /\ missed \in BOOLEAN
    /\ events \in Seq({"noise", "connected", "disconnected"}) /\ Len(events) <= StatusCap
    /\ shown \in {"connected", "disconnected"}

Flags == failure \in BOOLEAN /\ signal \in BOOLEAN /\ overdue \in BOOLEAN /\ died \in BOOLEAN

FlowInv == Counts /\ StatusTyped /\ Flags

\* Every channel is empty at first.
LEMMA InitFlow == Init => FlowInv
<1> SUFFICES ASSUME Init PROVE FlowInv
  OBVIOUS
<1>1. Counts
  BY GatewayAssumption DEF Init, Counts
<1>2. <<>> \in Seq({"noise", "connected", "disconnected"}) /\ Len(<<>>) = 0
  OBVIOUS
<1>3. events \in Seq({"noise", "connected", "disconnected"}) /\ Len(events) = 0
  BY <1>2, Zenon DEF Init
<1>4. Len(events) <= StatusCap
  BY <1>3, GatewayAssumption
<1>5. broker \in BOOLEAN /\ missed \in BOOLEAN /\ shown \in {"connected", "disconnected"}
  BY DEF Init
<1>6. StatusTyped
  BY <1>3, <1>4, <1>5, Zenon DEF StatusTyped
<1> QED BY <1>1, <1>6 DEF Init, FlowInv, Flags

\* A report keeps the status channel within its capacity.
LEMMA ReportKeeps ==
  ASSUME StatusTyped, NEW e \in {"noise", "connected", "disconnected"}, Report(e),
         broker' \in BOOLEAN, shown' = shown
  PROVE  StatusTyped'
<1>1. CASE Len(events) < StatusCap
  <2>1. events' = Append(events, e) /\ missed' = missed
    BY <1>1 DEF Report
  <2>2. /\ events' \in Seq({"noise", "connected", "disconnected"})
        /\ Len(events') = Len(events) + 1 /\ Len(events) \in Nat
    BY <2>1 DEF StatusTyped
  <2> QED BY <1>1, <2>1, <2>2, GatewayAssumption DEF StatusTyped
<1>2. CASE ~(Len(events) < StatusCap)
  BY <1>2 DEF Report, StatusTyped
<1> QED BY <1>1, <1>2

\* The steps that move no reading, batch or request, but may report.
LEMMA QuietKeeps ==
  ASSUME FlowInv, UNCHANGED flow, StatusTyped', Flags'
  PROVE  FlowInv'
BY DEF FlowInv, Counts, flow

\* The steps of the tasks that move readings, batches and requests.
LEMMA MoveKeeps ==
  ASSUME FlowInv, UNCHANGED <<own, overdue, died>>, UNCHANGED statusFlow,
         \/ TakeReading \/ Seal \/ Publish \/ QueueFarewell \/ SendRequest
         \/ \E c \in Conns : Poll(c)
  PROVE  FlowInv'
<1>1. StatusTyped' /\ Flags'
  BY DEF FlowInv, StatusTyped, Flags, statusFlow, own
<1> USE GatewayAssumption DEF FlowInv, Counts
<1>2. CASE TakeReading
  BY <1>1, <1>2 DEF TakeReading
<1>3. CASE Seal
  BY <1>1, <1>3 DEF Seal
<1>4. CASE Publish
  <2>1. CASE requests < QueueCap
    BY <1>1, <1>4, <2>1 DEF Publish
  <2>2. CASE ~(requests < QueueCap)
    BY <1>1, <1>4, <2>2 DEF Publish
  <2> QED BY <2>1, <2>2
<1>5. CASE QueueFarewell
  BY <1>1, <1>5 DEF QueueFarewell
<1>6. CASE SendRequest
  BY <1>1, <1>6 DEF SendRequest
<1>7. ASSUME NEW c \in Conns, Poll(c) PROVE FlowInv'
  BY <1>1, <1>7 DEF Poll
<1> QED BY <1>2, <1>3, <1>4, <1>5, <1>6, <1>7

\* The end of a task moves nothing, and can only end the connection to the broker.
LEMMA EndsFlow ==
  ASSUME FlowInv, NEW t, Ends(t), UNCHANGED <<own, flow, events, shown, missed, overdue>>,
         died' \in BOOLEAN
  PROVE  FlowInv'
<1>1. StatusTyped' /\ Flags'
  BY DEF FlowInv, StatusTyped, Flags, Ends, own
<1> QED BY <1>1, QuietKeeps DEF flow

\* Every step keeps it.
LEMMA NextFlow == FlowInv /\ [Next]_vars => FlowInv'
<1> SUFFICES ASSUME FlowInv, [Next]_vars PROVE FlowInv'
  OBVIOUS
<1> DEFINE Still == UNCHANGED <<flow, statusFlow>>
<1>1. ASSUME Still, Flags' PROVE FlowInv'
  BY <1>1, QuietKeeps DEF FlowInv, StatusTyped, statusFlow
<1>2. CASE \/ Load \/ InstallHandler \/ StartFails \/ Terminate \/ Interrupt \/ Start \/ Shutdown
           \/ TaskExited
  <2>1. Still /\ Flags'
    BY <1>2 DEF Load, InstallHandler, StartFails, Terminate, Interrupt, Start, Shutdown, TaskExited,
                own, FlowInv, Flags
  <2> QED BY <1>1, <2>1
<1>3. CASE \/ PollersStopped \/ Drained \/ GraceOver \/ PublisherGone \/ Flushed \/ FlushOver
           \/ (\E c \in Conns : DropSupervisor(c))
  <2>1. Still /\ Flags'
    BY <1>3 DEF PollersStopped, Drained, GraceOver, PublisherGone, Flushed, FlushOver,
                DropSupervisor, own, FlowInv, Flags
  <2> QED BY <1>1, <2>1
<1>4. CASE Returned \/ UNCHANGED vars
  <2>1. Still /\ Flags'
    BY <1>4 DEF Returned, vars, own, FlowInv, Flags
  <2> QED BY <1>1, <2>1
<1>5. ASSUME NEW t \in Conns \cup Core, Cancelled(t) \/ Dies(t) PROVE FlowInv'
  <2>1. Ends(t) /\ UNCHANGED <<own, flow, events, shown, missed, overdue>>
    BY <1>5 DEF Cancelled, Dies, own
  <2>2. died' \in BOOLEAN
    BY <1>5 DEF Cancelled, Dies, FlowInv, Flags
  <2> QED BY <2>1, <2>2, EndsFlow
<1>6. CASE \E t \in {"aggregator", "publisher"} : Dies(t)
  BY <1>5, <1>6 DEF Core
<1>7. ASSUME NEW c \in Conns, PollReturns(c) \/ PollPanics(c) PROVE FlowInv'
  <2>1. Ends(c) /\ UNCHANGED <<own, flow, events, shown, missed, overdue, died>>
    BY <1>7 DEF PollReturns, PollPanics, own
  <2>2. died' \in BOOLEAN
    BY <2>1 DEF FlowInv, Flags
  <2> QED BY <2>1, <2>2, EndsFlow
<1>8. ASSUME NEW c \in Conns, Respawn(c) PROVE FlowInv'
  <2>1. Still /\ Flags'
    BY <1>8 DEF Respawn, own, FlowInv, Flags
  <2> QED BY <1>1, <2>1
<1>9. ASSUME NEW c \in Conns, ReportPoll(c) PROVE FlowInv'
  <2>1. Report("noise") /\ UNCHANGED <<own, flow, broker, shown, overdue, died>>
    BY <1>9 DEF ReportPoll, own
  <2>2. StatusTyped'
    BY <2>1, ReportKeeps DEF FlowInv, StatusTyped
  <2> QED BY <2>1, <2>2, QuietKeeps DEF FlowInv, Flags, own
<1>10. CASE AggregatorReturns
  <2>1. Ends("aggregator") /\ UNCHANGED <<own, flow, events, shown, missed, overdue, died>>
    BY <1>10 DEF AggregatorReturns, own
  <2> QED BY <2>1, EndsFlow DEF FlowInv, Flags
<1>11. CASE PublisherReturns
  <2>1. Ends("publisher") /\ UNCHANGED <<own, flow, events, shown, missed, overdue, died>>
    BY <1>11 DEF PublisherReturns, own
  <2> QED BY <2>1, EndsFlow DEF FlowInv, Flags
<1>12. CASE BrokerChanges
  <2>1. PICK e \in {"noise", "connected", "disconnected"} : Report(e)
    BY <1>12 DEF BrokerChanges
  <2>2. StatusTyped'
    BY <1>12, <2>1, ReportKeeps DEF BrokerChanges, FlowInv, StatusTyped
  <2> QED BY <1>12, <2>2, QuietKeeps DEF BrokerChanges, FlowInv, Flags, own
<1>13. CASE SendFarewell
  <2>1. StatusTyped'
    BY <1>13, ReportKeeps DEF SendFarewell, Ends, FlowInv, StatusTyped
  <2> QED BY <1>13, <2>1 DEF SendFarewell, FlowInv, Counts, Flags, own
<1>14. CASE ApplyEvent
  <2>1. /\ events' \in Seq({"noise", "connected", "disconnected"})
        /\ Len(events') = Len(events) - 1 /\ Len(events) \in Nat
        /\ Head(events) \in {"noise", "connected", "disconnected"}
    BY <1>14 DEF ApplyEvent, FlowInv, StatusTyped
  <2>2. StatusTyped'
    BY <1>14, <2>1, GatewayAssumption DEF ApplyEvent, FlowInv, StatusTyped
  <2> QED BY <1>14, <2>2, QuietKeeps DEF ApplyEvent, FlowInv, Flags, own
<1>15. CASE WriterReturns
  <2>1. Still /\ Flags'
    BY <1>15 DEF WriterReturns, own, flow, statusFlow, FlowInv, Flags
  <2> QED BY <1>1, <2>1
<1>16. CASE TakeReading \/ Seal \/ Publish \/ QueueFarewell \/ SendRequest
            \/ (\E c \in Conns : Poll(c))
  <2>1. UNCHANGED <<own, overdue, died>> /\ UNCHANGED statusFlow
    BY <1>16 DEF TakeReading, Seal, Publish, QueueFarewell, SendRequest, Poll, own, statusFlow
  <2> QED BY <1>16, <2>1, MoveKeeps
<1> HIDE DEF Still
<1> QED
  BY <1>2, <1>3, <1>4, <1>5, <1>6, <1>7, <1>8, <1>9, <1>10, <1>11, <1>12, <1>13, <1>14, <1>15, <1>16
  DEF Next

\* For every set of connections and all capacities: the variables keep their types, the
\* channels their capacities, and every sealed batch is queued, sent or dropped on a full
\* request queue (run, and the channels of run_aggregator and run_publisher).
THEOREM TypeCorrect == Spec => []TypeOK
<1>1. TaskInv /\ FlowInv => TypeOK
  BY DEF TaskInv, TasksTyped, FlowInv, Counts, StatusTyped, Flags, TypeOK
<1> QED BY <1>1, InitTasks, NextTasks, InitFlow, NextFlow, PTL DEF Spec
-----------------------------------------------------------------------------
\* Nothing has gone wrong so far: no task died, no timeout expired.
Orderly == ~overdue /\ ~died

Started == run \in {"running", "stopping", "draining", "aborting", "flushing", "ok"}

Present == IF broker THEN "connected" ELSE "disconnected"

\* Nothing is under way before the tasks are started, or if they never are.
Fresh ==
    /\ Orderly /\ run = "failed" => alive = {}
    /\ run \in {"loading", "handlers", "setup"} =>
            farewell = "no" /\ ~broker /\ ~failure /\ aborted = {} /\ events = <<>>

\* As long as nothing goes wrong no core task is aborted, and they end one after the other:
\* the aggregator behind the pollers, the eventloop behind the farewell, which is behind the
\* last batch, and the publisher behind the eventloop.
StageByStage ==
    Orderly /\ Started =>
        /\ ~failure /\ aborted \cap Core = {}
        /\ run = "running" => sup = Conns
        /\ run # "aborting"
        /\ "aggregator" \notin alive => ReadingsClosed
        /\ farewell # "no" => "aggregator" \notin alive /\ batches = 0
        /\ farewell = "sent" => requests = 0
        /\ "eventloop" \notin alive => farewell = "sent"
        /\ "publisher" \notin alive => "eventloop" \notin alive
        /\ run \in {"flushing", "ok"} => "publisher" \notin alive

\* The status writer ends when nobody can report any more.
WriterLast == Started /\ "writer" \notin alive => events = <<>> /\ EventsClosed

\* The last broker state on its way to the status writer is the present one.
Noise(i) == events[i] = "noise"
WordInv ==
    Orderly /\ ~missed =>
        \/ shown = Present /\ \A i \in 1 .. Len(events) : Noise(i)
        \/ \E i \in 1 .. Len(events) : /\ events[i] = Present
                                       /\ \A j \in i + 1 .. Len(events) : Noise(j)

NoBroker == "eventloop" \notin alive => ~broker

DrainInv == Fresh /\ StageByStage /\ WriterLast /\ WordInv /\ NoBroker

\* Before the start nothing is queued or reported.
LEMMA FreshStep ==
  ASSUME TaskInv, Fresh, StageByStage, [Next]_vars
  PROVE  Fresh'
<1>1. run \in {"loading", "handlers", "setup"} => alive = {} /\ sup = {}
  BY DEF TaskInv, Owned
<1>2. run = "failed" => sup = {}
  BY DEF TaskInv, Owned
<1> USE DEF Fresh, Orderly, own, flow, statusFlow
<1>3. CASE Load \/ InstallHandler \/ Terminate \/ Interrupt \/ Start \/ Shutdown \/ TaskExited
  BY <1>1, <1>3 DEF Load, InstallHandler, Terminate, Interrupt, Start, Shutdown, TaskExited
<1>4. CASE StartFails
  BY <1>1, <1>4 DEF StartFails
<1>5. CASE PollersStopped
  BY <1>5 DEF PollersStopped, StageByStage, Started
<1>6. CASE \/ Drained \/ GraceOver \/ PublisherGone \/ Flushed \/ FlushOver
           \/ (\E c \in Conns : DropSupervisor(c))
  BY <1>6 DEF Drained, GraceOver, PublisherGone, Flushed, FlushOver, DropSupervisor
<1>7. ASSUME NEW t \in alive, Ends(t), UNCHANGED <<run, failure>>, died' \in {died, TRUE}, overdue' = overdue
      PROVE  Fresh'
  BY <1>1, <1>7 DEF Ends
<1>8. CASE \/ \E t \in Conns \cup Core : Cancelled(t)
           \/ \E t \in {"aggregator", "publisher"} : Dies(t)
           \/ \E c \in Conns : PollReturns(c) \/ PollPanics(c)
           \/ AggregatorReturns \/ PublisherReturns \/ SendFarewell
  BY <1>7, <1>8 DEF Cancelled, Dies, PollReturns, PollPanics, AggregatorReturns, PublisherReturns,
                    SendFarewell
<1>9. CASE \E c \in Conns : Poll(c) \/ ReportPoll(c) \/ Respawn(c)
  BY <1>1, <1>2, <1>9 DEF Poll, ReportPoll, Respawn
<1>10. CASE \/ TakeReading \/ Seal \/ Publish \/ QueueFarewell \/ BrokerChanges \/ SendRequest
            \/ ApplyEvent \/ WriterReturns
  BY <1>1, <1>10 DEF TakeReading, Seal, Publish, QueueFarewell, BrokerChanges, SendRequest,
                     ApplyEvent, WriterReturns
<1>11. CASE Returned \/ UNCHANGED vars
  BY <1>11 DEF Returned, vars
<1> QED BY <1>3, <1>4, <1>5, <1>6, <1>8, <1>9, <1>10, <1>11 DEF Next


\* What an orderly run has of its core tasks, by the phase.
LEMMA StageFacts ==
  ASSUME TaskInv, FlowInv, StageByStage, Orderly, Started
  PROVE  /\ ~failure /\ aborted \cap Core = {}
         /\ \A t \in Core : t \notin aborted
         /\ run = "running" => /\ sup = Conns /\ farewell = "no"
                               /\ {"aggregator", "publisher", "eventloop"} \subseteq alive
         /\ "publisher" \notin alive => "aggregator" \notin alive
         /\ "eventloop" \notin alive => farewell = "sent" /\ "aggregator" \notin alive /\ batches = 0
                                        /\ requests = 0
<1>1. run = "running" => "aggregator" \in alive
  <2>1. Conns # {}
    BY GatewayAssumption
  <2> QED BY <2>1 DEF StageByStage, ReadingsClosed
<1> QED BY <1>1 DEF StageByStage, Core

\* The steps that neither start nor end a task, and move no batch and no request, ...
LEMMA StageStill ==
  ASSUME StageByStage, UNCHANGED <<run, failure, sup, alive, aborted, batches, requests, farewell,
                                   overdue, died>>
  PROVE  StageByStage'
BY DEF StageByStage, Orderly, Started, ReadingsClosed

\* ... the steps of run, ...
LEMMA StageRun ==
  ASSUME TaskInv, FlowInv, Fresh, StageByStage,
         \/ Load \/ InstallHandler \/ StartFails \/ Terminate \/ Interrupt \/ Start \/ Shutdown
         \/ TaskExited \/ PollersStopped \/ Drained \/ GraceOver \/ PublisherGone \/ Flushed
         \/ FlushOver \/ (\E c \in Conns : DropSupervisor(c))
  PROVE  StageByStage'
<1> SUFFICES ASSUME Orderly', Started' PROVE StageByStage'
  BY DEF StageByStage
<1> USE DEF flow, own
<1>1. CASE Start
  <2>1. /\ run' = "running" /\ sup' = Conns /\ alive' = Conns \cup Core
        /\ UNCHANGED <<failure, aborted, farewell, batches, requests>>
        /\ ~failure /\ aborted = {} /\ farewell = "no"
    BY <1>1 DEF Start, Fresh
  <2> QED BY <2>1 DEF StageByStage, Core, ReadingsClosed
<1>2. CASE Load \/ InstallHandler \/ StartFails
  BY <1>2 DEF Load, InstallHandler, StartFails, Started
<1>3. ASSUME ~Start, ~Load, ~InstallHandler, ~StartFails PROVE Orderly /\ Started
  BY <1>3 DEF Terminate, Interrupt, Shutdown, TaskExited, PollersStopped, Drained, GraceOver,
              PublisherGone, Flushed, FlushOver, DropSupervisor, Orderly, Started, Exited
<1>4. CASE Terminate \/ Interrupt
  <2>1. UNCHANGED <<run, failure, sup, alive, aborted, batches, requests, farewell, overdue, died>>
    BY <1>4 DEF Terminate, Interrupt, Started
  <2> QED BY <2>1, StageStill
<1>5. CASE Shutdown
  BY <1>3, <1>5, StageFacts DEF Shutdown, StageByStage, ReadingsClosed, Start, Load, InstallHandler, StartFails
<1>6. CASE TaskExited
  BY <1>3, <1>6, StageFacts DEF TaskExited, Start, Load, InstallHandler, StartFails
<1>7. CASE PollersStopped
  BY <1>3, <1>7, StageFacts DEF PollersStopped, StageByStage, ReadingsClosed, Start, Load,
                                InstallHandler, StartFails
<1>8. CASE Drained
  BY <1>3, <1>8, StageFacts DEF Drained, StageByStage, ReadingsClosed, Start, Load,
                                InstallHandler, StartFails
<1>9. CASE GraceOver
  BY <1>9 DEF GraceOver, Orderly
<1>10. CASE PublisherGone
  BY <1>3, <1>10 DEF PublisherGone, StageByStage, Start, Load, InstallHandler, StartFails
<1>11. CASE Flushed \/ FlushOver
  BY <1>3, <1>11 DEF Flushed, FlushOver, StageByStage, ReadingsClosed, Start, Load,
                     InstallHandler, StartFails
<1>12. ASSUME NEW c \in Conns, DropSupervisor(c) PROVE StageByStage'
  <2>1. c \notin Core
    BY ConnsAreNotCore DEF Core
  <2>2. /\ run = "stopping" /\ sup' = sup \ {c} /\ aborted' = aborted \cup ({c} \cap alive)
        /\ UNCHANGED <<run, failure, alive, batches, requests, farewell, overdue, died>>
    BY <1>12 DEF DropSupervisor
  <2>3. Orderly /\ Started
    BY <2>2 DEF Orderly, Started
  <2> QED BY <2>1, <2>2, <2>3 DEF StageByStage, ReadingsClosed
<1> QED BY <1>1, <1>2, <1>4, <1>5, <1>6, <1>7, <1>8, <1>9, <1>10, <1>11, <1>12


\* ... the end of a task, ...
LEMMA StageEnds ==
  ASSUME TaskInv, FlowInv, Fresh, StageByStage, NEW t \in alive, Ends(t),
         \/ t \in aborted \/ died' \/ t \in Conns
         \/ t = "aggregator" /\ (ReadingsClosed \/ "publisher" \notin alive)
         \/ t = "publisher" /\ farewell # "no" /\ "eventloop" \notin alive,
         sup' = sup \/ ("aggregator" \notin alive /\ sup' = sup \ {t}),
         died => died', UNCHANGED <<run, failure, batches, requests, farewell, overdue>>
  PROVE  StageByStage'
<1> SUFFICES ASSUME Orderly', Started' PROVE StageByStage'
  BY DEF StageByStage
<1>1. Orderly /\ Started
  BY DEF Orderly, Started
<1>2. /\ ~failure /\ aborted \cap Core = {} /\ t \in Conns \cup Core
      /\ run = "running" => sup = Conns /\ "aggregator" \in alive
  BY <1>1, StageFacts DEF TaskInv, TasksTyped
<1>3. /\ alive' = alive \ {t} /\ alive' \subseteq alive
      /\ aborted' = (aborted \ {t}) \cup (IF t = "publisher" THEN alive \cap {"eventloop"} ELSE {})
  BY DEF Ends
<1>4. sup' \subseteq sup /\ (run = "running" => sup' = Conns)
  BY <1>2
<1>5. CASE t \in Conns
  <2>1. t \notin Core
    BY <1>5, ConnsAreNotCore DEF Core
  <2> QED BY <1>1, <1>2, <1>3, <1>4, <2>1 DEF StageByStage, ReadingsClosed, Core
<1>6. CASE t \notin Conns
  <2>1. t \in Core /\ t \notin aborted
    BY <1>2, <1>6
  <2>2. \/ t = "aggregator" /\ ReadingsClosed
        \/ t = "publisher" /\ farewell # "no" /\ "eventloop" \notin alive
    BY <1>1, <1>6, <2>1, StageFacts DEF Orderly
  <2>3. CASE t = "aggregator" /\ ReadingsClosed
    <3>1. run # "running"
      BY <1>2, <2>3, GatewayAssumption DEF ReadingsClosed
    <3> QED BY <1>1, <1>2, <1>3, <1>4, <2>3, <3>1 DEF StageByStage, ReadingsClosed
  <2>4. CASE t = "publisher" /\ farewell # "no" /\ "eventloop" \notin alive
    BY <1>1, <1>2, <1>3, <1>4, <2>4 DEF StageByStage, ReadingsClosed
  <2> QED BY <2>2, <2>3, <2>4
<1> QED BY <1>5, <1>6

\* ... and every step.
LEMMA StageStep ==
  ASSUME TaskInv, FlowInv, Fresh, StageByStage, [Next]_vars
  PROVE  StageByStage'
<1> USE DEF flow, own
<1>1. CASE \/ Load \/ InstallHandler \/ StartFails \/ Terminate \/ Interrupt \/ Start \/ Shutdown
           \/ TaskExited \/ PollersStopped \/ Drained \/ GraceOver \/ PublisherGone \/ Flushed
           \/ FlushOver \/ (\E c \in Conns : DropSupervisor(c))
  BY <1>1, StageRun
<1>2. CASE \/ \E t \in Conns \cup Core : Cancelled(t)
           \/ \E t \in {"aggregator", "publisher"} : Dies(t)
           \/ \E c \in Conns : PollReturns(c) \/ PollPanics(c)
           \/ AggregatorReturns \/ PublisherReturns
  BY <1>2, StageEnds DEF Cancelled, Dies, PollReturns, PollPanics, AggregatorReturns, PublisherReturns
<1>3. CASE \E c \in Conns : Respawn(c)
  <2>1. PICK c \in Conns : c \in sup /\ alive' = alive \cup {c}
                           /\ UNCHANGED <<run, failure, sup, aborted, batches, requests, farewell,
                                          overdue, died>>
    BY <1>3 DEF Respawn
  <2>2. c \notin Core
    BY ConnsAreNotCore DEF Core
  <2> QED BY <2>1, <2>2 DEF StageByStage, Orderly, Started, ReadingsClosed, Core
<1>4. CASE \/ \E c \in Conns : Poll(c) \/ ReportPoll(c)
           \/ TakeReading \/ BrokerChanges \/ ApplyEvent \/ Returned \/ UNCHANGED vars
  BY <1>4, StageStill DEF Poll, ReportPoll, TakeReading, BrokerChanges, ApplyEvent, Returned, vars
<1>5. CASE WriterReturns
  BY <1>5 DEF WriterReturns, StageByStage, Orderly, Started, ReadingsClosed
<1>6. CASE Seal
  BY <1>6 DEF Seal, StageByStage, Orderly, Started, ReadingsClosed
<1>7. CASE Publish
  BY <1>7 DEF Publish, StageByStage, Orderly, Started, ReadingsClosed
<1>8. CASE QueueFarewell
  BY <1>8 DEF QueueFarewell, StageByStage, Orderly, Started, ReadingsClosed, BatchesClosed
<1>9. CASE SendRequest
  BY <1>9 DEF SendRequest, StageByStage, Orderly, Started, ReadingsClosed, FlowInv, Counts
<1>10. CASE SendFarewell
  BY <1>10 DEF SendFarewell, Ends, StageByStage, Orderly, Started, ReadingsClosed
<1> QED BY <1>1, <1>2, <1>3, <1>4, <1>5, <1>6, <1>7, <1>8, <1>9, <1>10 DEF Next


\* The connection to the broker ends with the eventloop.
LEMMA BrokerStep ==
  ASSUME TaskInv, FlowInv, NoBroker, Fresh, [Next]_vars
  PROVE  NoBroker'
<1> USE DEF flow, own, statusFlow
<1>1. ASSUME NEW t, Ends(t) PROVE NoBroker'
  BY <1>1 DEF Ends, NoBroker
<1>2. CASE \/ \E t \in Conns \cup Core : Cancelled(t)
           \/ \E t \in {"aggregator", "publisher"} : Dies(t)
           \/ \E c \in Conns : PollReturns(c) \/ PollPanics(c)
           \/ AggregatorReturns \/ PublisherReturns \/ SendFarewell
  BY <1>1, <1>2 DEF Cancelled, Dies, PollReturns, PollPanics, AggregatorReturns, PublisherReturns,
                    SendFarewell
<1>3. CASE Start \/ BrokerChanges
  BY <1>3 DEF Start, BrokerChanges, NoBroker, Core
<1>4. CASE WriterReturns \/ (\E c \in Conns : Respawn(c))
  BY <1>4 DEF WriterReturns, Respawn, NoBroker
<1>5. CASE \/ Load \/ InstallHandler \/ StartFails \/ Terminate \/ Interrupt \/ Shutdown
           \/ TaskExited \/ PollersStopped \/ Drained \/ GraceOver \/ PublisherGone \/ Flushed
           \/ FlushOver \/ (\E c \in Conns : DropSupervisor(c))
  BY <1>5 DEF Load, InstallHandler, StartFails, Terminate, Interrupt, Shutdown, TaskExited,
              PollersStopped, Drained, GraceOver, PublisherGone, Flushed, FlushOver,
              DropSupervisor, NoBroker
<1>6. CASE \/ \E c \in Conns : Poll(c) \/ ReportPoll(c)
           \/ TakeReading \/ Seal \/ Publish \/ QueueFarewell \/ SendRequest \/ ApplyEvent
           \/ Returned \/ UNCHANGED vars
  BY <1>6 DEF Poll, ReportPoll, TakeReading, Seal, Publish, QueueFarewell, SendRequest, ApplyEvent,
              Returned, vars, NoBroker
<1> QED BY <1>2, <1>3, <1>4, <1>5, <1>6 DEF Next

\* Once every reporter is gone none comes back.
LEMMA WriterStep ==
  ASSUME TaskInv, FlowInv, WriterLast, [Next]_vars
  PROVE  WriterLast'
<1> USE DEF flow, own, statusFlow, WriterLast, EventsClosed
<1>1. \A c \in Conns : c # "writer" /\ c # "eventloop"
  BY ConnsAreNotCore
<1>2. CASE Start
  BY <1>2 DEF Start, Core
<1>3. CASE \/ Load \/ InstallHandler \/ StartFails
           \/ Terminate \/ Interrupt \/ Shutdown
           \/ TaskExited \/ PollersStopped \/ Drained \/ GraceOver \/ PublisherGone \/ Flushed
           \/ FlushOver \/ (\E c \in Conns : DropSupervisor(c))
  BY <1>3 DEF Load, InstallHandler, StartFails, Terminate, Interrupt, Shutdown, TaskExited,
              PollersStopped, Drained, GraceOver, PublisherGone, Flushed, FlushOver,
              DropSupervisor, Started, Exited
<1>4. ASSUME NEW t \in alive, t # "writer", Ends(t), UNCHANGED <<run, events>>, sup' \subseteq sup
      PROVE  WriterLast'
  BY <1>4 DEF Ends, Started
<1>5. "writer" \notin aborted
  BY DEF TaskInv, Owned
<1>6. CASE \/ \E t \in Conns \cup Core : Cancelled(t)
           \/ \E t \in {"aggregator", "publisher"} : Dies(t)
           \/ \E c \in Conns : PollReturns(c) \/ PollPanics(c)
           \/ AggregatorReturns \/ PublisherReturns
  BY <1>1, <1>4, <1>5, <1>6 DEF Cancelled, Dies, PollReturns, PollPanics, AggregatorReturns,
                                PublisherReturns
<1>7. CASE SendFarewell \/ BrokerChanges \/ (\E c \in Conns : ReportPoll(c))
  BY <1>7 DEF SendFarewell, BrokerChanges, ReportPoll, Ends, Started
<1>8. CASE \E c \in Conns : Poll(c) \/ Respawn(c)
  BY <1>1, <1>8 DEF Poll, Respawn, Started
<1>9. CASE ApplyEvent \/ WriterReturns
  BY <1>9 DEF ApplyEvent, WriterReturns, Started
<1>10. CASE \/ TakeReading \/ Seal \/ Publish \/ QueueFarewell \/ SendRequest
            \/ Returned \/ UNCHANGED vars
  BY <1>10 DEF TakeReading, Seal, Publish, QueueFarewell, SendRequest, Returned, vars, Started
<1> QED BY <1>2, <1>3, <1>6, <1>7, <1>8, <1>9, <1>10 DEF Next

-----------------------------------------------------------------------------
\* A report that is not dropped becomes the last word, unless it is noise.
LEMMA ReportWord ==
  ASSUME FlowInv, WordInv, NEW e \in {"noise", "connected", "disconnected"}, Report(e),
         shown' = shown, overdue' = overdue, died' = died,
         e = "noise" => broker' = broker,
         e # "noise" => e = Present'
  PROVE  WordInv'
<1> SUFFICES ASSUME Orderly', ~missed' PROVE WordInv'
  BY DEF WordInv
<1>1. /\ events' = Append(events, e) /\ ~missed /\ Orderly
      /\ events \in Seq({"noise", "connected", "disconnected"})
  BY DEF Report, FlowInv, StatusTyped, Orderly
<1>2. /\ Len(events') = Len(events) + 1 /\ Len(events) \in Nat /\ events'[Len(events) + 1] = e
      /\ \A i \in 1 .. Len(events) : events'[i] = events[i]
  BY <1>1
<1>3. CASE e # "noise"
  BY <1>2, <1>3 DEF WordInv, Noise
<1>4. CASE e = "noise"
  <2>1. Present' = Present
    BY <1>4 DEF Present
  <2>2. CASE shown = Present /\ \A i \in 1 .. Len(events) : Noise(i)
    <3>1. \A i \in 1 .. Len(events') : events'[i] = "noise"
      BY <1>2, <1>4, <2>2 DEF Noise
    <3> QED BY <2>1, <2>2, <3>1 DEF WordInv, Noise
  <2>3. CASE \E i \in 1 .. Len(events) : /\ events[i] = Present
                                         /\ \A j \in i + 1 .. Len(events) : Noise(j)
    <3>1. PICK i \in 1 .. Len(events) : /\ events[i] = Present
                                        /\ \A j \in i + 1 .. Len(events) : Noise(j)
      BY <2>3
    <3>2. i \in 1 .. Len(events') /\ events'[i] = Present'
      BY <1>2, <2>1, <3>1
    <3>3. \A j \in i + 1 .. Len(events') : events'[j] = "noise"
      BY <1>2, <1>4, <3>1 DEF Noise
    <3> QED BY <3>2, <3>3 DEF WordInv, Noise
  <2> QED BY <1>1, <2>2, <2>3 DEF WordInv
<1> QED BY <1>3, <1>4

\* The status writer takes the events in order.
LEMMA ApplyWord ==
  ASSUME FlowInv, WordInv, ApplyEvent
  PROVE  WordInv'
<1> SUFFICES ASSUME Orderly', ~missed' PROVE WordInv'
  BY DEF WordInv
<1>1. /\ events # <<>> /\ events' = Tail(events) /\ ~missed /\ Orderly /\ broker' = broker
      /\ shown' = (IF Head(events) = "noise" THEN shown ELSE Head(events))
      /\ events \in Seq({"noise", "connected", "disconnected"})
  BY DEF ApplyEvent, FlowInv, StatusTyped, Orderly
<1>2. /\ Len(events') = Len(events) - 1 /\ Len(events) \in Nat \ {0} /\ Head(events) = events[1]
      /\ \A i \in 1 .. Len(events') : events'[i] = events[i + 1]
  BY <1>1
<1>3. Present' = Present /\ Present # "noise"
  BY <1>1 DEF Present
<1>4. CASE shown = Present /\ \A i \in 1 .. Len(events) : Noise(i)
  BY <1>1, <1>2, <1>3, <1>4 DEF WordInv, Noise
<1>5. CASE \E i \in 1 .. Len(events) : /\ events[i] = Present
                                       /\ \A j \in i + 1 .. Len(events) : Noise(j)
  <2>1. PICK i \in 1 .. Len(events) : /\ events[i] = Present
                                      /\ \A j \in i + 1 .. Len(events) : Noise(j)
    BY <1>5
  <2>2. CASE i = 1
    <3>1. shown' = Present'
      BY <1>1, <1>2, <1>3, <2>1, <2>2
    <3>2. \A j \in 1 .. Len(events') : events'[j] = "noise"
      BY <1>2, <2>1, <2>2 DEF Noise
    <3> QED BY <3>1, <3>2 DEF WordInv, Noise
  <2>3. CASE i # 1
    <3>1. i - 1 \in 1 .. Len(events') /\ events'[i - 1] = Present'
      BY <1>2, <1>3, <2>1, <2>3
    <3>2. \A j \in (i - 1) + 1 .. Len(events') : events'[j] = "noise"
      BY <1>2, <2>1 DEF Noise
    <3> QED BY <3>1, <3>2 DEF WordInv, Noise
  <2> QED BY <2>2, <2>3
<1> QED BY <1>1, <1>4, <1>5 DEF WordInv


\* The last word is kept by every step.
LEMMA WordStep ==
  ASSUME TaskInv, FlowInv, Fresh, StageByStage, NoBroker, WordInv, [Next]_vars
  PROVE  WordInv'
<1> USE DEF flow, own, statusFlow
<1>1. ASSUME UNCHANGED <<broker, events, shown, missed>>, Orderly' => Orderly
      PROVE  WordInv'
  BY <1>1 DEF WordInv, Noise, Present
<1>2. ASSUME Orderly, "eventloop" \in alive PROVE "eventloop" \notin aborted
  <2>1. run \in Phases
    BY DEF TaskInv, TasksTyped
  <2>2. CASE Started
    BY <1>2, <2>2, StageFacts DEF Core
  <2>3. CASE run \in {"loading", "handlers", "setup", "killed", "failed"}
    BY <1>2, <2>3 DEF TaskInv, Owned, Fresh
  <2> QED BY <2>1, <2>2, <2>3 DEF Phases, Started
<1>3. CASE \/ Load \/ InstallHandler \/ StartFails \/ Terminate \/ Interrupt \/ Start \/ Shutdown
           \/ TaskExited \/ PollersStopped \/ Drained \/ PublisherGone \/ Flushed
           \/ FlushOver \/ (\E c \in Conns : DropSupervisor(c))
  BY <1>1, <1>3 DEF Load, InstallHandler, StartFails, Terminate, Interrupt, Start, Shutdown,
                    TaskExited, PollersStopped, Drained, PublisherGone, Flushed,
                    FlushOver, DropSupervisor, Orderly
<1>4. CASE GraceOver
  BY <1>4 DEF GraceOver, WordInv, Orderly
<1>5. CASE \E t \in Conns \cup Core : Cancelled(t)
  <2>1. PICK t \in Conns \cup Core : Cancelled(t)
    BY <1>5
  <2>2. CASE t = "eventloop"
    BY <1>2, <2>1, <2>2 DEF Cancelled, WordInv, Orderly
  <2>3. CASE t # "eventloop"
    <3>1. UNCHANGED <<broker, events, shown, missed, overdue, died>>
      BY <2>1, <2>3 DEF Cancelled, Ends, FlowInv, StatusTyped
    <3> QED BY <1>1, <3>1 DEF Orderly
  <2> QED BY <2>2, <2>3
<1>6. CASE \E t \in {"aggregator", "publisher"} : Dies(t)
  BY <1>6 DEF Dies, WordInv, Orderly
<1>7. CASE (\E c \in Conns : PollReturns(c) \/ PollPanics(c)) \/ AggregatorReturns \/ PublisherReturns
  <2>1. \A c \in Conns : c # "eventloop"
    BY ConnsAreNotCore
  <2>2. UNCHANGED <<broker, events, shown, missed, overdue, died>>
    BY <1>7, <2>1 DEF PollReturns, PollPanics, AggregatorReturns, PublisherReturns, Ends, FlowInv,
                      StatusTyped
  <2> QED BY <1>1, <2>2 DEF Orderly
<1>8. CASE \E c \in Conns : ReportPoll(c)
  BY <1>8, ReportWord DEF ReportPoll
<1>9. CASE BrokerChanges
  <2>1. PICK e \in {"connected", "disconnected"} :
            Report(e) /\ e = IF broker THEN "disconnected" ELSE "connected"
    BY <1>9 DEF BrokerChanges
  <2>2. e = Present'
    BY <1>9, <2>1 DEF BrokerChanges, Present
  <2> QED BY <1>9, <2>1, <2>2, ReportWord DEF BrokerChanges
<1>10. CASE SendFarewell
  <2>1. "disconnected" = Present'
    BY <1>10 DEF SendFarewell, Ends, Present
  <2> QED BY <1>10, <2>1, ReportWord DEF SendFarewell
<1>11. CASE ApplyEvent
  BY <1>11, ApplyWord
<1>12. CASE \/ \E c \in Conns : Poll(c) \/ Respawn(c)
            \/ TakeReading \/ Seal \/ Publish \/ QueueFarewell \/ SendRequest \/ WriterReturns
            \/ Returned \/ UNCHANGED vars
  BY <1>1, <1>12 DEF Poll, Respawn, TakeReading, Seal, Publish, QueueFarewell, SendRequest,
                     WriterReturns, Returned, vars, Orderly
<1> QED BY <1>3, <1>4, <1>5, <1>6, <1>7, <1>8, <1>9, <1>10, <1>11, <1>12 DEF Next

\* For every set of connections and all capacities: a shutdown that needed no timeout and in
\* which nothing died has published every batch that was sealed, but those that met a full
\* request queue, said farewell behind the last of them, and the status writer's last word
\* is that the broker is gone (run, publisher_task and run_status_writer).
THEOREM GracefulStopKept == Spec => []GracefulStop
<1>1. Init => DrainInv
  <2> SUFFICES ASSUME Init PROVE DrainInv
    OBVIOUS
  <2>1. Fresh /\ StageByStage /\ WriterLast /\ NoBroker
    BY DEF Init, Fresh, StageByStage, WriterLast, NoBroker, Started, Orderly
  <2>2. WordInv
    BY DEF Init, WordInv, Present, Noise
  <2> QED BY <2>1, <2>2 DEF DrainInv
<1>2. TaskInv /\ FlowInv /\ DrainInv /\ [Next]_vars => DrainInv'
  BY FreshStep, StageStep, WriterStep, WordStep, BrokerStep DEF DrainInv
<1>3. TaskInv /\ FlowInv /\ DrainInv => GracefulStop
  <2> SUFFICES ASSUME TaskInv, FlowInv, DrainInv, Graceful PROVE GracefulStop
    BY DEF GracefulStop, GracefulStopDrains, LastWordWritten
  <2>1. Orderly /\ Started /\ run \in {"flushing", "ok"}
    BY DEF Graceful, Orderly, Started
  <2>2. /\ "publisher" \notin alive /\ "eventloop" \notin alive /\ farewell = "sent"
        /\ batches = 0 /\ requests = 0
    BY <2>1 DEF DrainInv, StageByStage
  <2>3. sent + dropped = sealed
    BY <2>2 DEF FlowInv, Counts
  <2>4. "writer" \notin alive /\ ~missed => shown = "disconnected"
    <3> SUFFICES ASSUME "writer" \notin alive, ~missed PROVE shown = "disconnected"
      OBVIOUS
    <3>1. Len(events) = 0 /\ ~broker
      BY <2>1, <2>2 DEF DrainInv, WriterLast, NoBroker
    <3> QED BY <2>1, <3>1 DEF DrainInv, WordInv, Present
  <2> QED BY <2>2, <2>3, <2>4 DEF GracefulStop, GracefulStopDrains, LastWordWritten
<1> QED BY <1>1, <1>2, <1>3, InitTasks, NextTasks, InitFlow, NextFlow, PTL DEF Spec
=============================================================================

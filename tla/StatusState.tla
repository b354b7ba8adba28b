----------------------------- MODULE StatusState -----------------------------
(***************************************************************************)
(* The StatusState of src/src/status.rs and the channel that feeds it:     *)
(* pollers and the publisher report events and drop them when the channel  *)
(* is full; the status writer applies what it receives.  Each connection   *)
(* reports as ConnectionReports allows, which is what Poller is shown to   *)
(* do.  A device's result is "ok" or the reason of its problem; since is    *)
(* left out.  When the state is written is the subject of StatusWriter.    *)
(***************************************************************************)
EXTENDS Integers, Sequences, FiniteSets

CONSTANTS
    Conns, N,       \* connections, each with the devices 1 .. N
    Reasons,        \* the reasons of a device's problem
    ChanCap         \* STATUS_CHANNEL_CAPACITY

ASSUME StatusAssumption == N \in Nat \ {0} /\ ChanCap \in Nat \ {0}
                           /\ {"ok", "unknown"} \cap Reasons = {}

VARIABLES
    link, next,     \* of each connection: whether it is up, and whom it reports next
    latest,         \* of each device: its last result on the present connection
    broker,         \* TRUE while the eventloop is connected to the broker
    chan,           \* the StatusEvent channel
    st,             \* the StatusState
    faithful        \* history: no event was dropped and no connection ended silently

reporters == <<link, next, latest, broker>>
vars == <<reporters, chan, st, faithful>>

-----------------------------------------------------------------------------
Devs == 1 .. N

State(m, u, h) == [mqtt |-> m, up |-> u, health |-> h]

\* StatusState::new: down and unknown until the first events arrive.
NewState == State(FALSE, [c \in Conns |-> FALSE], [c \in Conns |-> [d \in Devs |-> "unknown"]])

Results == {"ok"} \cup Reasons

\* DeviceOk and DeviceProblem are one kind of event, told apart by the result.
ConnEvent(k, c) == [kind |-> k, conn |-> c]
DeviceEvent(r, c, d) == [kind |-> "Device", conn |-> c, device |-> d, result |-> r]
MqttEvent(k) == [kind |-> k]

ConnKinds == {"ConnectionUp", "ConnectionDown"}
MqttKinds == {"MqttConnected", "MqttDisconnected"}

StatusEvent ==
    {ConnEvent(k, c) : k \in ConnKinds, c \in Conns}
        \cup {DeviceEvent(r, c, d) : r \in Results, c \in Conns, d \in Devs}
        \cup {MqttEvent(k) : k \in MqttKinds}

\* Mutated: the results of the previous connection are kept.
ApplyKeepsHealth(s, e) ==
    CASE e.kind \in MqttKinds -> [s EXCEPT !.mqtt = e.kind = "MqttConnected"]
      [] e.kind \in ConnKinds -> [s EXCEPT !.up[e.conn] = e.kind = "ConnectionUp"]
      [] e.kind = "Device" ->
            [s EXCEPT !.up[e.conn] = TRUE, !.health[e.conn][e.device] = e.result]

\* The state after an event.  A connection that comes up forgets the results of the
\* previous connection; a device's result also means that its connection is up.
Apply(s, e) ==
    CASE e.kind \in MqttKinds -> [s EXCEPT !.mqtt = e.kind = "MqttConnected"]
      [] e.kind = "ConnectionUp" ->
            IF s.up[e.conn]
            THEN s
            ELSE [s EXCEPT !.up[e.conn] = TRUE,
                           !.health[e.conn] = [d \in Devs |-> "unknown"]]
      [] e.kind = "ConnectionDown" -> [s EXCEPT !.up[e.conn] = FALSE]
      [] e.kind = "Device" ->
            [s EXCEPT !.up[e.conn] = TRUE, !.health[e.conn][e.device] = e.result]

\* Mutated: a device's result is a change only if its own health changes.
ChangesHealthOnly(s, e) ==
    CASE e.kind \in MqttKinds -> s.mqtt # (e.kind = "MqttConnected")
      [] e.kind \in ConnKinds -> s.up[e.conn] # (e.kind = "ConnectionUp")
      [] e.kind = "Device" -> s.health[e.conn][e.device] # e.result

\* What apply returns: whether a write is due.
Changes(s, e) ==
    CASE e.kind \in MqttKinds -> s.mqtt # (e.kind = "MqttConnected")
      [] e.kind \in ConnKinds -> s.up[e.conn] # (e.kind = "ConnectionUp")
      [] e.kind = "Device" ->
            ~s.up[e.conn] \/ s.health[e.conn][e.device] # e.result

\* What render_status shows: nothing of a connection that is down, otherwise the number of
\* devices that are ok and the problems.
Render(s) ==
    [mqtt |-> s.mqtt,
     connections |-> [c \in Conns |->
        IF s.up[c]
        THEN <<Cardinality({d \in Devs : s.health[c][d] = "ok"}),
               {<<d, s.health[c][d]>> : d \in {x \in Devs : s.health[c][x] \in Reasons}}>>
        ELSE <<>>]]

Init ==
    /\ link = [c \in Conns |-> "down"] /\ next = [c \in Conns |-> 1]
    /\ latest = [c \in Conns |-> [d \in Devs |-> "unknown"]]
    /\ broker = FALSE
    /\ chan = <<>>
    /\ st = NewState
    /\ faithful = TRUE

-----------------------------------------------------------------------------
\* Mutated: the channel is unbounded.
ReportAlways(e) ==
    /\ chan' = Append(chan, e)
    /\ UNCHANGED <<st, faithful>>

\* StatusReporter::report: a full channel drops the event.
Report(e) ==
    /\ IF Len(chan) < ChanCap
       THEN chan' = Append(chan, e) /\ UNCHANGED faithful
       ELSE faithful' = FALSE /\ UNCHANGED chan
    /\ UNCHANGED st

ReportUp(c) ==
    /\ link[c] = "down"
    /\ link' = [link EXCEPT ![c] = "up"]
    /\ next' = [next EXCEPT ![c] = 1]
    /\ latest' = [latest EXCEPT ![c] = [d \in Devs |-> "unknown"]]
    /\ Report(ConnEvent("ConnectionUp", c))
    /\ UNCHANGED broker

\* A connect failed, or the transport of the connection is dead.
ReportDown(c) ==
    /\ link' = [link EXCEPT ![c] = "down"]
    /\ next' = [next EXCEPT ![c] = 1]
    /\ Report(ConnEvent("ConnectionDown", c))
    /\ UNCHANGED <<latest, broker>>

ReportDevice(c, r) ==
    /\ link[c] = "up"
    /\ latest' = [latest EXCEPT ![c][next[c]] = r]
    /\ next' = [next EXCEPT ![c] = IF @ = N THEN 1 ELSE @ + 1]
    /\ Report(DeviceEvent(r, c, next[c]))
    /\ UNCHANGED <<link, broker>>

\* The connection's task panics: no event says that the connection is gone.
EndSilently(c) ==
    /\ link[c] = "up"
    /\ link' = [link EXCEPT ![c] = "down"]
    /\ next' = [next EXCEPT ![c] = 1]
    /\ faithful' = FALSE
    /\ UNCHANGED <<latest, broker, chan, st>>

\* The eventloop reports a ConnAck, ...
ReportMqttConnected ==
    /\ ~broker /\ broker' = TRUE
    /\ Report(MqttEvent("MqttConnected"))
    /\ UNCHANGED <<link, next, latest>>

\* ... the loss of the broker and every attempt that failed since.
ReportMqttDisconnected ==
    /\ broker' = FALSE
    /\ Report(MqttEvent("MqttDisconnected"))
    /\ UNCHANGED <<link, next, latest>>

\* The status writer receives an event and applies it.
Recv ==
    /\ chan # <<>>
    /\ chan' = Tail(chan)
    /\ st' = Apply(st, Head(chan))
    /\ UNCHANGED <<reporters, faithful>>

Next ==
    \/ \E c \in Conns : ReportUp(c) \/ ReportDown(c) \/ EndSilently(c)
    \/ \E c \in Conns, r \in Results : ReportDevice(c, r)
    \/ ReportMqttConnected \/ ReportMqttDisconnected
    \/ Recv

Spec == Init /\ [][Next]_vars

-----------------------------------------------------------------------------
Healths == {"unknown"} \cup Results

\* The variables keep their types and the channel its capacity.
TypeOK ==
    /\ link \in [Conns -> {"down", "up"}] /\ next \in [Conns -> Devs]
    /\ latest \in [Conns -> [Devs -> Healths]]
    /\ broker \in BOOLEAN /\ faithful \in BOOLEAN
    /\ chan \in Seq(StatusEvent) /\ Len(chan) <= ChanCap
    /\ st \in [mqtt : BOOLEAN, up : [Conns -> BOOLEAN], health : [Conns -> [Devs -> Healths]]]

\* What the gateway's tasks last knew of themselves.
Actual == State(broker, [c \in Conns |-> link[c] = "up"], latest)

\* The state after the events of es.
AfterAll(s, es) ==
    LET after[i \in 0 .. Len(es)] == IF i = 0 THEN s ELSE Apply(after[i - 1], es[i])
    IN  after[Len(es)]

\* While no event is dropped and no task panics, the status writer catches up with
\* the gateway exactly: applying what is still queued gives the actual state, and
\* health says nothing that was learnt on an earlier connection.
CatchesUp == faithful => AfterAll(st, chan) = Actual

\* apply returns TRUE exactly for the events that change the text of the status file
\* (the doc of apply: "whether anything visible changed"): the write policy neither misses
\* a change nor wears the flash for one that nobody can see.
ApplyTellsChanges == \A e \in StatusEvent : Changes(st, e) <=> Render(Apply(st, e)) # Render(st)

-----------------------------------------------------------------------------
\* status.rs:74 of Health::Unknown: "Not polled since the connection (re)connected".
UnknownUntilPolled ==
    chan = <<>> =>
        \A c \in Conns, d \in Devs :
            link[c] = "up" /\ st.up[c] /\ latest[c][d] = "unknown"
                => st.health[c][d] = "unknown"

\* The writer is never starved of its channel, the eventloop stays connected and the
\* pollers go on reporting.
Fairness ==
    /\ WF_vars(Recv)
    /\ \A c \in Conns : WF_vars(\E r \in Results : ReportDevice(c, r))

FairSpec == Spec /\ Fairness

\* status.rs:20-21 of the channel's capacity: "a dropped event is corrected on the
\* next one".
BrokerShown == <>[]broker => <>[]st.mqtt
=============================================================================

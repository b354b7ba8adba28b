----------------------------- MODULE Publisher -----------------------------
(***************************************************************************)
(* The MQTT publisher of src/src/mqtt.rs: run_publisher, the eventloop     *)
(* task, the detached tasks that announce "online" after every CONNACK,    *)
(* and the bounded request queue between them.                             *)
(*                                                                         *)
(* The client library's eventloop, the network and the broker are not part *)
(* of the repository and are modelled as this code uses them.  In the      *)
(* model: requests leave the queue in order; a lost connection puts what is *)
(* unacknowledged, and the whole queue after it, behind what is still      *)
(* pending from an earlier loss; what is pending is sent before the queue; *)
(* a CONNACK says whether the broker kept the session, and without one the *)
(* client drops what is pending; the broker publishes the retained         *)
(* "offline" will of a connection that ends without a DISCONNECT; at       *)
(* mqtt.qos = 0 a batch is not acknowledged, at 2 the broker recognises,   *)
(* within a session, one that it already has.                              *)
(*                                                                         *)
(* Not in the model: the second half of a QoS 2 handshake (a batch counts  *)
(* as delivered when its PUBLISH arrives), and packet identifiers.  The    *)
(* library does not hold the pending publishes back at a full window, and  *)
(* identifiers that collide there may change their order, or drop one; like *)
(* a loss in the middle of a resend that is recorded in jumbled, and the   *)
(* claims on order and completeness are made for an execution without one. *)
(*                                                                         *)
(* Batches are numbered.  The broker is reachable in the end (MaxConnects  *)
(* bounds the connections), which the documentation of run_publisher makes *)
(* a condition of its return.                                              *)
(***************************************************************************)
EXTENDS Integers, Sequences

CONSTANTS
    MaxBatches,         \* bound of the model: batches handed to the publisher
    QueueCap,           \* QUEUE_CAPACITY
    InflightCap,        \* unacknowledged publishes the eventloop allows
    MaxConnects         \* bound of the model: connections made

ASSUME PublisherAssumption ==
    /\ MaxBatches \in Nat /\ MaxConnects \in Nat \ {0}
    /\ QueueCap \in Nat \ {0} /\ InflightCap \in Nat \ {0}

VARIABLES
    qos,        \* mqtt.qos, for the batches; the status messages have QoS 1
    pub,        \* run_publisher: "recv", "offline", "disconnect", "await", "done"
    open,       \* TRUE while the aggregator holds the batch sender
    taken,      \* batches received from the aggregator
    queue,      \* the request queue, the oldest first
    onlines,    \* detached tasks that have not queued their "online" yet
    ev,         \* the eventloop: "down", "up" or "stopped"
    connects,   \* connections made so far
    pending,    \* requests an earlier connection left, to be sent before the queue
    inflight,   \* publishes sent and not acknowledged
    wire,       \* what is sent and has not reached the broker
    acks,       \* acknowledgements by the broker that have not arrived
    will,       \* TRUE while the broker holds a will it has still to publish or discard
    lost,       \* TRUE if the connection of that will is gone
    retained,   \* the retained status message at the broker
    told,       \* the last MQTT event reported to the status writer
    accepted,   \* history: batches the request queue accepted
    delivered,  \* history: the batches the broker received, in order, repeats included
    clean,      \* history: the broker received the DISCONNECT
    parted,     \* history: the broker received the "offline" of the shutdown
    quiet,      \* history: no "online" was outstanding when "offline" was queued, or since
    forgotten,  \* history: requests dropped because the broker had no session
    jumbled     \* history: a connection was lost in a way that need not keep the order

network == <<pending, inflight, wire, acks>>
losses == <<forgotten, jumbled>>
brokerState == <<will, lost, retained, delivered, clean, parted>>
vars == <<qos, pub, open, taken, queue, onlines, ev, connects, network, brokerState, told,
          accepted, quiet, losses>>

-----------------------------------------------------------------------------
Request(k, n) == [kind |-> k, batch |-> n]
BatchRequest(n) == Request("batch", n)
Online == Request("online", 0)
Offline == Request("offline", 0)
Disconnect == Request("disconnect", 0)

Room == Len(queue) < QueueCap

\* What the eventloop still has to send, in its order.
Upcoming == pending \o queue
Elems(s) == {s[i] : i \in DOMAIN s}

Init ==
    /\ qos \in 0 .. 2
    /\ pub = "recv" /\ open = TRUE /\ taken = 0
    /\ queue = <<>> /\ onlines = 0
    /\ ev = "down" /\ connects = 0
    /\ pending = <<>> /\ inflight = <<>> /\ wire = <<>> /\ acks = 0
    /\ will = FALSE /\ lost = FALSE
    /\ retained \in {"none", "online", "offline"}
    /\ told = "none"
    /\ accepted = {} /\ delivered = <<>> /\ clean = FALSE /\ parted = FALSE /\ quiet = FALSE
    /\ forgotten = {} /\ jumbled = FALSE

-----------------------------------------------------------------------------
\* Mutated: the request queue has no bound.
PublishAlways ==
    /\ pub = "recv" /\ open /\ taken < MaxBatches
    /\ taken' = taken + 1
    /\ queue' = Append(queue, BatchRequest(taken + 1))
    /\ accepted' = accepted \cup {taken + 1}
    /\ UNCHANGED <<qos, pub, open, onlines, ev, connects, network, brokerState, told, quiet,
                   losses>>

\* A batch is received and queued with try_publish, or dropped on a full queue.
TryPublish ==
    /\ pub = "recv" /\ open /\ taken < MaxBatches
    /\ taken' = taken + 1
    /\ IF Room
       THEN queue' = Append(queue, BatchRequest(taken + 1)) /\ accepted' = accepted \cup {taken + 1}
       ELSE UNCHANGED <<queue, accepted>>
    /\ UNCHANGED <<qos, pub, open, onlines, ev, connects, network, brokerState, told, quiet,
                   losses>>

\* The aggregator returns: recv() gives None once the channel is drained.
InputClosed ==
    /\ pub = "recv" /\ open
    /\ open' = FALSE /\ pub' = "offline"
    /\ UNCHANGED <<qos, taken, queue, onlines, ev, connects, network, brokerState, told,
                   accepted, quiet, losses>>

\* Mutated: the "offline" is skipped when the queue is full.
TryOffline ==
    /\ pub = "offline"
    /\ IF Room THEN queue' = Append(queue, Offline) ELSE UNCHANGED queue
    /\ quiet' = (onlines = 0)
    /\ pub' = "disconnect"
    /\ UNCHANGED <<qos, open, taken, onlines, ev, connects, network, brokerState, told,
                   accepted, losses>>

\* publish(OFFLINE).await: wait for room, then queue it.
QueueOffline ==
    /\ pub = "offline" /\ Room
    /\ queue' = Append(queue, Offline)
    /\ quiet' = (onlines = 0)
    /\ pub' = "disconnect"
    /\ UNCHANGED <<qos, open, taken, onlines, ev, connects, network, brokerState, told,
                   accepted, losses>>

\* Mutated: the DISCONNECT overtakes what is queued.
DisconnectFirst ==
    /\ pub = "disconnect" /\ Room
    /\ queue' = <<Disconnect>> \o queue
    /\ pub' = "await"
    /\ UNCHANGED <<qos, open, taken, onlines, ev, connects, network, brokerState, told,
                   accepted, quiet, losses>>

\* disconnect().await
QueueDisconnect ==
    /\ pub = "disconnect" /\ Room
    /\ queue' = Append(queue, Disconnect)
    /\ pub' = "await"
    /\ UNCHANGED <<qos, open, taken, onlines, ev, connects, network, brokerState, told,
                   accepted, quiet, losses>>

\* eventloop_task.await
PublisherReturns ==
    /\ pub = "await" /\ ev = "stopped"
    /\ pub' = "done"
    /\ UNCHANGED <<qos, open, taken, queue, onlines, ev, connects, network, brokerState, told,
                   accepted, quiet, losses>>

\* Mutated: a full queue drops the "online".
TryOnline ==
    /\ onlines > 0
    /\ IF Room THEN queue' = Append(queue, Online) ELSE UNCHANGED queue
    /\ onlines' = onlines - 1
    /\ UNCHANGED <<qos, pub, open, taken, ev, connects, network, brokerState, told, accepted,
                   quiet, losses>>

\* A detached task's publish(ONLINE).await; after the eventloop has stopped its
\* channel is closed and the task only warns.
QueueOnline ==
    /\ onlines > 0 /\ (Room \/ ev = "stopped")
    /\ IF ev = "stopped" THEN UNCHANGED queue ELSE queue' = Append(queue, Online)
    /\ onlines' = onlines - 1
    /\ UNCHANGED <<qos, pub, open, taken, ev, connects, network, brokerState, told, accepted,
                   quiet, losses>>

-----------------------------------------------------------------------------
\* Mutated: the eventloop itself awaits the publish of "online".
ConnAckAwaits(session_present) ==
    /\ ev = "down" /\ connects < MaxConnects /\ Room
    /\ ev' = "up" /\ connects' = connects + 1
    /\ queue' = Append(queue, Online)
    /\ told' = "MqttConnected"
    /\ retained' = IF lost THEN "offline" ELSE retained
    /\ will' = TRUE /\ lost' = FALSE
    /\ quiet' = FALSE
    /\ IF session_present
       THEN UNCHANGED <<pending, forgotten>>
       ELSE pending' = <<>> /\ forgotten' = forgotten \cup Elems(pending)
    /\ UNCHANGED <<qos, pub, open, taken, onlines, inflight, wire, acks, delivered, clean, parted,
                   accepted, jumbled>>

\* A CONNACK: report it and spawn a task that announces "online".  A connection the
\* broker still held is taken over, and its will published; without a session at the
\* broker the client drops what is pending.
ConnAck(session_present) ==
    /\ ev = "down" /\ connects < MaxConnects
    /\ ev' = "up" /\ connects' = connects + 1
    /\ onlines' = onlines + 1
    /\ told' = "MqttConnected"
    /\ retained' = IF lost THEN "offline" ELSE retained
    /\ will' = TRUE /\ lost' = FALSE
    /\ quiet' = FALSE
    /\ IF session_present
       THEN UNCHANGED <<pending, forgotten>>
       ELSE pending' = <<>> /\ forgotten' = forgotten \cup Elems(pending)
    /\ UNCHANGED <<qos, pub, open, taken, queue, inflight, wire, acks, delivered, clean, parted,
                   accepted, jumbled>>

\* poll() fails without a connection; retried after RECONNECT_DELAY.
ConnectFails ==
    /\ ev = "down"
    /\ told' = "MqttDisconnected"
    /\ UNCHANGED <<qos, pub, open, taken, queue, onlines, ev, connects, network, brokerState,
                   accepted, quiet, losses>>

\* poll() fails on a connection: what was not acknowledged, and the queue, is left for the
\* next one, behind what this one had not taken up yet.
ConnectionLost ==
    /\ ev = "up" /\ connects < MaxConnects
    /\ ev' = "down" /\ lost' = TRUE
    /\ told' = "MqttDisconnected"
    /\ pending' = pending \o inflight \o queue
    /\ queue' = <<>> /\ inflight' = <<>> /\ wire' = <<>> /\ acks' = 0
    /\ jumbled' = (jumbled \/ (pending # <<>> /\ inflight # <<>>) \/ Len(pending') > InflightCap)
    /\ UNCHANGED <<qos, pub, open, taken, onlines, connects, will, retained, delivered, clean,
                   parted, accepted, quiet, forgotten>>

\* The connection breaks before everything written ahead of its end has arrived.
LostAtStop ==
    /\ ev = "stopped" /\ will /\ ~lost /\ wire # <<>>
    /\ wire' = <<>> /\ acks' = 0 /\ lost' = TRUE
    /\ UNCHANGED <<qos, pub, open, taken, queue, onlines, ev, connects, pending, inflight, will,
                   retained, delivered, clean, parted, told, accepted, quiet, losses>>

\* A publish that is kept until its acknowledgement.
Kept(r) == r.kind = "batch" => qos # 0

\* Put a publish on the wire.
Send(r) ==
    /\ r # Disconnect /\ Len(inflight) < InflightCap
    /\ inflight' = IF Kept(r) THEN Append(inflight, r) ELSE inflight
    /\ wire' = Append(wire, r) /\ UNCHANGED acks

\* What is pending is sent before what is queued.
TakeNext ==
    IF pending # <<>>
    THEN pending' = Tail(pending) /\ UNCHANGED queue
    ELSE queue' = Tail(queue) /\ UNCHANGED pending

\* Mutated: queued requests are sent before those that are pending.
SendFreshFirst ==
    /\ ev = "up" /\ Upcoming # <<>>
    /\ IF queue # <<>>
       THEN Send(Head(queue)) /\ queue' = Tail(queue) /\ UNCHANGED pending
       ELSE Send(Head(pending)) /\ pending' = Tail(pending) /\ UNCHANGED queue
    /\ UNCHANGED <<qos, pub, open, taken, onlines, ev, connects, brokerState, told, accepted,
                   quiet, losses>>

SendNext ==
    /\ ev = "up" /\ Upcoming # <<>>
    /\ Send(Head(Upcoming)) /\ TakeNext
    /\ UNCHANGED <<qos, pub, open, taken, onlines, ev, connects, brokerState, told, accepted,
                   quiet, losses>>

\* The DISCONNECT is written and drive_eventloop returns.
SendDisconnect ==
    /\ ev = "up" /\ Upcoming # <<>> /\ Head(Upcoming) = Disconnect
    /\ ev' = "stopped"
    /\ told' = "MqttDisconnected"
    /\ TakeNext
    /\ wire' = Append(wire, Disconnect)
    /\ UNCHANGED <<qos, pub, open, taken, onlines, connects, inflight, acks, brokerState, accepted,
                   quiet, losses>>

\* The broker receives the next packet and acknowledges a publish that is kept for it; a
\* DISCONNECT discards the will.
Deliver ==
    /\ wire # <<>>
    /\ wire' = Tail(wire)
    /\ LET r == Head(wire)
           known == qos = 2 /\ \E i \in DOMAIN delivered : delivered[i] = r.batch
       IN  /\ retained' = IF r \in {Online, Offline} THEN r.kind ELSE retained
           /\ delivered' = IF r.kind = "batch" /\ ~known THEN Append(delivered, r.batch) ELSE delivered
           /\ parted' = (parted \/ r = Offline)
           /\ clean' = (clean \/ r = Disconnect)
           /\ will' = (will /\ r # Disconnect)
           /\ acks' = IF r # Disconnect /\ Kept(r) THEN acks + 1 ELSE acks
    /\ UNCHANGED <<qos, pub, open, taken, queue, onlines, ev, connects, pending, inflight, lost,
                   told, accepted, quiet, losses>>

\* The acknowledgement of the oldest publish that is kept for one arrives.
Ack ==
    /\ ev = "up" /\ acks > 0
    /\ acks' = acks - 1 /\ inflight' = Tail(inflight)
    /\ UNCHANGED <<qos, pub, open, taken, queue, onlines, ev, connects, pending, wire,
                   brokerState, told, accepted, quiet, losses>>

\* The broker notices a connection that is gone and publishes its will.
PublishWill ==
    /\ lost /\ will
    /\ retained' = "offline" /\ will' = FALSE /\ lost' = FALSE
    /\ UNCHANGED <<qos, pub, open, taken, queue, onlines, ev, connects, network, delivered,
                   clean, parted, told, accepted, quiet, losses>>

\* Nothing more need happen: the publisher has returned, or waits for a DISCONNECT that is
\* gone, until it is aborted.
Ended ==
    /\ pub = "done" \/ Disconnect \in forgotten
    /\ wire = <<>> /\ onlines = 0 /\ UNCHANGED vars

Next ==
    \/ TryPublish \/ InputClosed \/ QueueOffline \/ QueueDisconnect \/ PublisherReturns
    \/ QueueOnline
    \/ \E s \in BOOLEAN : ConnAck(s)
    \/ ConnectFails \/ ConnectionLost \/ LostAtStop
    \/ SendNext \/ SendDisconnect
    \/ Deliver \/ Ack \/ PublishWill
    \/ Ended

Spec == Init /\ [][Next]_vars

-----------------------------------------------------------------------------
Batches == 1 .. MaxBatches
Publishes == {BatchRequest(n) : n \in Batches} \cup {Online, Offline}
Requests == Publishes \cup {Disconnect}

\* The variables keep their types and the queue and the window their capacities.
TypeOK ==
    /\ qos \in 0 .. 2
    /\ pub \in {"recv", "offline", "disconnect", "await", "done"} /\ open \in BOOLEAN
    /\ taken \in 0 .. MaxBatches /\ connects \in 0 .. MaxConnects /\ onlines \in 0 .. connects
    /\ ev \in {"down", "up", "stopped"}
    /\ queue \in Seq(Requests) /\ Len(queue) <= QueueCap
    /\ pending \in Seq(Requests) /\ inflight \in Seq(Publishes) /\ Len(inflight) <= InflightCap
    /\ wire \in Seq(Requests) /\ acks \in Nat
    /\ will \in BOOLEAN /\ lost \in BOOLEAN /\ retained \in {"none", "online", "offline"}
    /\ told \in {"none", "MqttConnected", "MqttDisconnected"}
    /\ accepted \subseteq Batches /\ delivered \in Seq(Batches)
    /\ clean \in BOOLEAN /\ parted \in BOOLEAN /\ quiet \in BOOLEAN
    /\ forgotten \subseteq Requests /\ jumbled \in BOOLEAN

\* The broker receives the batches in the order the windows were sealed, across any number
\* of reconnects of which none came in the middle of a resend or with more to resend than
\* the window holds: at QoS 1 and 2 without a gap, so that when one arrives every earlier
\* one the queue accepted has arrived before, unless a new session at the broker made the
\* client drop it; and at QoS 0 and 2 none twice.
BatchesInOrder ==
    ~jumbled =>
        /\ qos # 0 =>
            \A i \in DOMAIN delivered : \A b \in accepted :
                b < delivered[i] =>
                    BatchRequest(b) \in forgotten \/ \E j \in 1 .. i : delivered[j] = b
        /\ qos # 1 => \A i, j \in DOMAIN delivered : i < j => delivered[i] < delivered[j]

\* A clean shutdown leaves nothing behind: the DISCONNECT comes after the "offline" and
\* after every accepted batch (the documentation of run_publisher), except what a new
\* session at the broker made the client drop; at QoS 0 a batch may be lost with an
\* earlier connection, but only so.  A loss in the middle of a resend is excluded: after
\* it a DISCONNECT can overtake a batch.
NothingLeftBehind ==
    clean /\ ~jumbled =>
        /\ parted \/ Offline \in forgotten
        /\ qos # 0 \/ connects = 1 =>
            \A b \in accepted :
                BatchRequest(b) \in forgotten \/ \E i \in DOMAIN delivered : delivered[i] = b

\* A clean shutdown is visible as "offline", provided that no task was still about to
\* announce "online" when "offline" was queued and none was started after.
OfflineAfterQuietStop == clean /\ quiet => retained = "offline"

\* A gateway whose connection was lost is shown as offline until it is back: what is
\* retained is "online" only while a will is in force to replace it, unless the
\* broker kept it from before.
OnlineIsGuarded == retained = "online" /\ connects > 0 => will \/ clean

\* What the broker retains does not mislead: after a clean stop it is "offline", and an
\* "online" is one that a will, or the stop, can still replace (run_publisher).
RetainedIsTrue == OfflineAfterQuietStop /\ OnlineIsGuarded

\* The publisher, the eventloop and the broker take their steps, the broker is reachable
\* in the end, and of the senders that await a free slot of the queue, which are finitely
\* many, one gets it when slots come free again and again.
Fairness ==
    /\ WF_vars(PublisherReturns) /\ WF_vars(\E s \in BOOLEAN : ConnAck(s))
    /\ SF_vars(QueueOffline \/ QueueDisconnect \/ QueueOnline)
    /\ WF_vars(SendNext \/ SendDisconnect)
    /\ WF_vars(Deliver) /\ WF_vars(Ack)

FairSpec == Spec /\ Fairness

\* Shutdown completes however full the queue is and whatever connection is lost on
\* the way: no two of the tasks wait for each other (the comment at mqtt.rs:180-182).
\* The one thing it cannot survive is a broker that has lost the session while the
\* DISCONNECT is pending: the client drops it.
ReturnsIfReachable == ~open ~> pub = "done" \/ Disconnect \in forgotten

\* While the connection holds, "online" is announced, also through a full queue.
OnlineAnnounced ==
    ev = "up" /\ pub = "recv" ~> retained = "online" \/ ev # "up" \/ pub # "recv"

-----------------------------------------------------------------------------
\* mqtt.rs:107-109 of run_publisher: once the input closes it "publishes a retained
\* "offline" (a clean DISCONNECT suppresses the LWT), disconnects and returns".
OfflineAfterCleanStop == clean => retained = "offline"
=============================================================================

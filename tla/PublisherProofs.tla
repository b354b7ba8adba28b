--------------------------- MODULE PublisherProofs ---------------------------
(***************************************************************************)
(* Proofs about Publisher, for any number of batches and connections and   *)
(* all capacities.  Unless a connection is lost in the middle of a resend, *)
(* or with more to resend than the window holds, the batches reach the     *)
(* broker in order, and a clean shutdown leaves none behind but those that *)
(* a new session at the broker made the client drop; and what the broker   *)
(* retains is true.                                                        *)
(***************************************************************************)
EXTENDS Publisher, SequenceTheorems, TLAPS

\* What may still reach the broker on this connection, and what a reconnect would send.
Stream == wire \o Upcoming
Unacked == inflight \o Upcoming

\* The connection: only a live one carries packets, and a DISCONNECT is the last of them.
ConnectionInv ==
    /\ ev = "down" => wire = <<>> /\ inflight = <<>> /\ acks = 0
    /\ ev = "up" => will /\ ~lost /\ connects >= 1
    /\ ev # "stopped" => ~clean /\ Disconnect \notin Elems(wire)
    /\ ev = "stopped" /\ wire # <<>> =>
            /\ will /\ ~lost /\ ~clean /\ wire[Len(wire)] = Disconnect
            /\ \A i \in 1 .. Len(wire) - 1 : wire[i] # Disconnect
    /\ clean => wire = <<>> /\ ~will

\* run_publisher: nothing of the farewell is on its way before it is queued.
FarewellInv ==
    /\ pub \in {"recv", "offline", "disconnect"} =>
            ev # "stopped" /\ Disconnect \notin Elems(Upcoming)
    /\ pub \in {"recv", "offline"} =>
            ~quiet /\ Offline \notin Elems(Stream) /\ Offline \notin Elems(Unacked)
    /\ quiet => onlines = 0

\* Only an "online" is queued after the DISCONNECT, and batches by their numbers.
Ordered(s) ==
    \A i, j \in DOMAIN s : i < j =>
        /\ s[i] = Disconnect => s[j] = Online
        /\ s[i].kind = "batch" /\ s[j].kind = "batch" => s[i].batch < s[j].batch

\* Batches come from the queue and nowhere else; what was dropped does not come back.
KnownSet(S) == \A r \in S : r.kind = "batch" => r.batch \in accepted
Known(s) == KnownSet(Elems(s))
Fresh(s) == \A r \in Elems(s) : r.kind = "batch" => r \notin forgotten

OrderInv ==
    /\ accepted \subseteq 1 .. taken
    /\ Elems(delivered) \subseteq accepted
    /\ Known(Stream) /\ Known(Unacked) /\ KnownSet(forgotten)
    /\ ~jumbled => /\ Ordered(Stream) /\ Ordered(Unacked)
                   /\ Fresh(Stream) /\ Fresh(Unacked)

\* The packets on the wire that wait for an acknowledgement are the youngest in flight: c
\* counts, along the wire, how many in flight precede the next one.
Matches(c) ==
    /\ c[0] = acks /\ c[Len(wire)] = Len(inflight)
    /\ \A i, j \in 0 .. Len(wire) : i < j => c[i] <= c[j]
    /\ \A i \in 1 .. Len(wire) :
            /\ Kept(wire[i]) => c[i] = c[i - 1] + 1 /\ wire[i] = inflight[c[i]]
            /\ ~Kept(wire[i]) => c[i] = c[i - 1]

WindowInv == ev = "up" => \E c \in [0 .. Len(wire) -> Nat] : Matches(c)

\* As long as the stream can be delivered, it holds what has not been delivered yet.
InOneSession == qos # 0 \/ connects = 0 \/ (connects = 1 /\ ev # "down")

NothingMissing ==
    ev # "stopped" \/ wire # <<>> =>
        /\ pub \notin {"recv", "offline"} =>
                parted \/ Offline \in forgotten \/ Offline \in Elems(Stream)
        /\ InOneSession =>
                \A b \in accepted : \/ b \in Elems(delivered)
                                    \/ BatchRequest(b) \in forgotten
                                    \/ BatchRequest(b) \in Elems(Stream)

\* At QoS 0 no batch is sent again.
OnceAtQosZero ==
    qos = 0 =>
        /\ \A r \in Elems(inflight) : r.kind # "batch"
        /\ ~jumbled =>
                \A b \in Elems(delivered) : \A r \in Elems(Stream) : r.kind = "batch" => b < r.batch

\* After a quiet shutdown no "online" follows the "offline", and this no DISCONNECT.
QuietInv ==
    quiet /\ (ev = "up" \/ wire # <<>>) =>
        /\ \A i, j \in DOMAIN Stream : i < j =>
                /\ Stream[i] = Offline => Stream[j] # Online
                /\ Stream[i] = Disconnect => Stream[j] # Offline
        /\ Offline \notin Elems(Stream) => retained = "offline" /\ Online \notin Elems(Stream)

IInv ==
    /\ TypeOK /\ ConnectionInv /\ FarewellInv /\ OrderInv /\ WindowInv
    /\ NothingMissing /\ OnceAtQosZero /\ QuietInv
    /\ BatchesInOrder /\ NothingLeftBehind /\ RetainedIsTrue

-----------------------------------------------------------------------------
\* Appending adds one element.
LEMMA ElemsAppend ==
  ASSUME NEW T, NEW s \in Seq(T), NEW e \in T
  PROVE  Elems(Append(s, e)) = Elems(s) \cup {e}
<1>1. Append(s, e) \in Seq(T) /\ Len(Append(s, e)) = Len(s) + 1 /\ Len(s) \in Nat
  OBVIOUS
<1>2. \A i \in 1 .. Len(s) : Append(s, e)[i] = s[i]
  OBVIOUS
<1>3. Append(s, e)[Len(s) + 1] = e
  OBVIOUS
<1>4. DOMAIN Append(s, e) = 1 .. Len(s) + 1 /\ DOMAIN s = 1 .. Len(s)
  BY <1>1
<1> QED BY <1>1, <1>2, <1>3, <1>4 DEF Elems

\* Head and Tail share out the elements.
LEMMA ElemsHeadTail ==
  ASSUME NEW T, NEW s \in Seq(T), s # <<>>
  PROVE  Elems(s) = {Head(s)} \cup Elems(Tail(s))
<1>1. Tail(s) \in Seq(T) /\ Len(Tail(s)) = Len(s) - 1 /\ Len(s) \in Nat \ {0}
  OBVIOUS
<1>2. \A i \in 1 .. Len(Tail(s)) : Tail(s)[i] = s[i + 1]
  OBVIOUS
<1>3. DOMAIN s = 1 .. Len(s) /\ DOMAIN Tail(s) = 1 .. Len(s) - 1 /\ Head(s) = s[1]
  BY <1>1
<1>4. ASSUME NEW i \in DOMAIN s PROVE s[i] = Head(s) \/ s[i] \in Elems(Tail(s))
  <2>1. CASE i = 1
    BY <1>3, <2>1
  <2>2. CASE i # 1
    <3>1. i - 1 \in 1 .. Len(Tail(s)) /\ (i - 1) + 1 = i
      BY <1>1, <1>3, <2>2
    <3>2. Tail(s)[i - 1] = s[i]
      BY <1>2, <3>1
    <3> QED BY <1>1, <3>1, <3>2 DEF Elems
  <2> QED BY <2>1, <2>2
<1>5. ASSUME NEW i \in DOMAIN Tail(s) PROVE Tail(s)[i] \in Elems(s)
  <2>1. i + 1 \in DOMAIN s /\ Tail(s)[i] = s[i + 1]
    BY <1>1, <1>2, <1>3
  <2> QED BY <2>1 DEF Elems
<1>6. Head(s) \in Elems(s)
  BY <1>1, <1>3 DEF Elems
<1> QED BY <1>4, <1>5, <1>6 DEF Elems

\* The elements of a concatenation.
LEMMA ElemsConcat ==
  ASSUME NEW T, NEW s \in Seq(T), NEW t \in Seq(T)
  PROVE  Elems(s \o t) = Elems(s) \cup Elems(t)
<1>1. /\ s \o t \in Seq(T) /\ Len(s \o t) = Len(s) + Len(t)
      /\ \A i \in 1 .. Len(s) + Len(t) :
            (s \o t)[i] = IF i <= Len(s) THEN s[i] ELSE t[i - Len(s)]
  BY ConcatProperties
<1>2. Len(s) \in Nat /\ Len(t) \in Nat
  OBVIOUS
<1>3. DOMAIN (s \o t) = 1 .. Len(s) + Len(t) /\ DOMAIN s = 1 .. Len(s) /\ DOMAIN t = 1 .. Len(t)
  BY <1>1
<1>4. ASSUME NEW i \in DOMAIN (s \o t) PROVE (s \o t)[i] \in Elems(s) \cup Elems(t)
  <2>1. CASE i <= Len(s)
    <3>1. i \in DOMAIN s /\ (s \o t)[i] = s[i]
      BY <1>1, <1>2, <1>3, <2>1
    <3> QED BY <3>1 DEF Elems
  <2>2. CASE ~(i <= Len(s))
    <3>1. i - Len(s) \in DOMAIN t /\ (s \o t)[i] = t[i - Len(s)]
      BY <1>1, <1>2, <1>3, <2>2
    <3> QED BY <3>1 DEF Elems
  <2> QED BY <2>1, <2>2
<1>5. ASSUME NEW i \in DOMAIN s PROVE s[i] \in Elems(s \o t)
  <2>1. i \in DOMAIN (s \o t) /\ (s \o t)[i] = s[i]
    BY <1>1, <1>2, <1>3
  <2> QED BY <2>1 DEF Elems
<1>6. ASSUME NEW i \in DOMAIN t PROVE t[i] \in Elems(s \o t)
  <2>1. Len(s) + i \in 1 .. Len(s) + Len(t) /\ ~(Len(s) + i <= Len(s)) /\ (Len(s) + i) - Len(s) = i
    BY <1>2, <1>3
  <2>2. (s \o t)[Len(s) + i] = t[i]
    BY <1>1, <2>1
  <2> QED BY <1>3, <2>1, <2>2 DEF Elems
<1> QED BY <1>4, <1>5, <1>6 DEF Elems

\* Moving the head of one sequence to the end of another changes nothing in their
\* concatenation.
LEMMA MoveHead ==
  ASSUME NEW T, NEW s \in Seq(T), NEW t \in Seq(T), t # <<>>
  PROVE  Append(s, Head(t)) \o Tail(t) = s \o t
<1>1. Head(t) \in T /\ Tail(t) \in Seq(T) /\ <<Head(t)>> \in Seq(T)
  BY HeadTailProperties
<1>2. Append(s, Head(t)) = s \o <<Head(t)>>
  BY <1>1
<1>3. t = <<Head(t)>> \o Tail(t)
  BY <1>1
<1> QED BY <1>1, <1>2, <1>3, ConcatAssociative

\* Appending commutes with putting something in front.
LEMMA AppendBehind ==
  ASSUME NEW T, NEW s \in Seq(T), NEW t \in Seq(T), NEW e \in T
  PROVE  s \o Append(t, e) = Append(s \o t, e)
<1>1. Append(t, e) = t \o <<e>> /\ Append(s \o t, e) = (s \o t) \o <<e>> /\ <<e>> \in Seq(T)
  OBVIOUS
<1> QED BY <1>1, ConcatAssociative

\* Taking the head of what is in front is taking the head of all.
LEMMA TailInFront ==
  ASSUME NEW T, NEW s \in Seq(T), NEW t \in Seq(T), s # <<>>
  PROVE  s \o t # <<>> /\ Head(s \o t) = Head(s) /\ Tail(s \o t) = Tail(s) \o t
OBVIOUS

\* The requests are told apart by their kind.
LEMMA RequestFacts ==
  /\ Publishes \subseteq Requests /\ Disconnect \in Requests /\ Disconnect \notin Publishes
  /\ Online \in Publishes /\ Offline \in Publishes /\ \A n \in Batches : BatchRequest(n) \in Publishes
  /\ Online # Offline /\ Online # Disconnect /\ Offline # Disconnect
  /\ Online.kind = "online" /\ Offline.kind = "offline" /\ Disconnect.kind = "disconnect"
  /\ \A n \in Batches : BatchRequest(n).kind = "batch" /\ BatchRequest(n).batch = n
  /\ \A r \in Requests : r.kind = "batch" => r.batch \in Batches /\ r = BatchRequest(r.batch)
<1> USE DEF Publishes, Requests, Online, Offline, Disconnect, BatchRequest, Request
<1>1. /\ Publishes \subseteq Requests /\ Disconnect \in Requests
      /\ Online \in Publishes /\ Offline \in Publishes /\ \A n \in Batches : BatchRequest(n) \in Publishes
  OBVIOUS
<1>2. /\ Online.kind = "online" /\ Offline.kind = "offline" /\ Disconnect.kind = "disconnect"
      /\ \A n \in Batches : BatchRequest(n).kind = "batch" /\ BatchRequest(n).batch = n
  OBVIOUS
<1>3. \A r \in Publishes : r.kind \in {"batch", "online", "offline"}
  OBVIOUS
<1>4. \A r \in Requests : r.kind = "batch" => \E n \in Batches : r = BatchRequest(n)
  OBVIOUS
<1> HIDE DEF Publishes, Requests, Online, Offline, Disconnect, BatchRequest, Request
<1>5. Disconnect \notin Publishes
  BY <1>2, <1>3
<1> QED BY <1>1, <1>2, <1>4, <1>5

\* Taking requests out of a sequence keeps the order of the others.
LEMMA OrderedPart ==
  ASSUME NEW s \in Seq(Requests), NEW t \in Seq(Requests), Ordered(s),
         NEW f \in [DOMAIN t -> DOMAIN s],
         \A i \in DOMAIN t : t[i] = s[f[i]],
         \A i, j \in DOMAIN t : i < j => f[i] < f[j]
  PROVE  Ordered(t)
<1> SUFFICES ASSUME NEW i \in DOMAIN t, NEW j \in DOMAIN t, i < j
             PROVE  /\ t[i] = Disconnect => t[j] = Online
                    /\ t[i].kind = "batch" /\ t[j].kind = "batch" => t[i].batch < t[j].batch
  BY DEF Ordered
<1>1. f[i] \in DOMAIN s /\ f[j] \in DOMAIN s /\ f[i] < f[j] /\ t[i] = s[f[i]] /\ t[j] = s[f[j]]
  OBVIOUS
<1> QED BY <1>1 DEF Ordered

\* The order survives the loss of the first request, ...
LEMMA OrderedTail ==
  ASSUME NEW s \in Seq(Requests), s # <<>>, Ordered(s)
  PROVE  Ordered(Tail(s))
<1> DEFINE f == [i \in DOMAIN Tail(s) |-> i + 1]
<1>1. Tail(s) \in Seq(Requests) /\ DOMAIN Tail(s) = 1 .. Len(s) - 1 /\ DOMAIN s = 1 .. Len(s)
      /\ Len(s) \in Nat
  OBVIOUS
<1>2. f \in [DOMAIN Tail(s) -> DOMAIN s]
  BY <1>1
<1>3. \A i \in DOMAIN Tail(s) : Tail(s)[i] = s[f[i]]
  OBVIOUS
<1>4. \A i, j \in DOMAIN Tail(s) : i < j => f[i] < f[j]
  BY <1>1
<1> HIDE DEF f
<1> QED BY <1>1, <1>2, <1>3, <1>4, OrderedPart

\* ... of one in the middle, ...
LEMMA OrderedWithoutHead ==
  ASSUME NEW s \in Seq(Requests), NEW t \in Seq(Requests), t # <<>>, Ordered(s \o t)
  PROVE  Ordered(s \o Tail(t))
<1> DEFINE f == [i \in DOMAIN (s \o Tail(t)) |-> IF i <= Len(s) THEN i ELSE i + 1]
<1>1. /\ Tail(t) \in Seq(Requests) /\ Len(Tail(t)) = Len(t) - 1
      /\ Len(s) \in Nat /\ Len(t) \in Nat \ {0}
      /\ \A i \in 1 .. Len(t) - 1 : Tail(t)[i] = t[i + 1]
  OBVIOUS
<1>2. /\ s \o t \in Seq(Requests) /\ Len(s \o t) = Len(s) + Len(t)
      /\ \A i \in 1 .. Len(s) + Len(t) :
            (s \o t)[i] = IF i <= Len(s) THEN s[i] ELSE t[i - Len(s)]
  BY ConcatProperties
<1>3. /\ s \o Tail(t) \in Seq(Requests) /\ Len(s \o Tail(t)) = Len(s) + Len(t) - 1
      /\ \A i \in 1 .. Len(s) + Len(t) - 1 :
            (s \o Tail(t))[i] = IF i <= Len(s) THEN s[i] ELSE Tail(t)[i - Len(s)]
  <2>1. /\ s \o Tail(t) \in Seq(Requests) /\ Len(s \o Tail(t)) = Len(s) + Len(Tail(t))
        /\ \A i \in 1 .. Len(s) + Len(Tail(t)) :
              (s \o Tail(t))[i] = IF i <= Len(s) THEN s[i] ELSE Tail(t)[i - Len(s)]
    BY <1>1, ConcatProperties
  <2> QED BY <1>1, <2>1
<1>4. DOMAIN (s \o t) = 1 .. Len(s) + Len(t) /\ DOMAIN (s \o Tail(t)) = 1 .. Len(s) + Len(t) - 1
  BY <1>2, <1>3
<1>5. f \in [DOMAIN (s \o Tail(t)) -> DOMAIN (s \o t)]
  BY <1>1, <1>4
<1>6. ASSUME NEW i \in DOMAIN (s \o Tail(t)) PROVE (s \o Tail(t))[i] = (s \o t)[f[i]]
  <2>1. CASE i <= Len(s)
    BY <1>1, <1>2, <1>3, <1>4, <2>1
  <2>2. CASE ~(i <= Len(s))
    <3>1. /\ f[i] = i + 1 /\ i + 1 \in 1 .. Len(s) + Len(t) /\ ~(i + 1 <= Len(s))
          /\ i - Len(s) \in 1 .. Len(t) - 1 /\ (i + 1) - Len(s) = (i - Len(s)) + 1
      BY <1>1, <1>4, <2>2
    <3>2. (s \o Tail(t))[i] = Tail(t)[i - Len(s)] /\ Tail(t)[i - Len(s)] = t[(i + 1) - Len(s)]
      BY <1>1, <1>3, <1>4, <2>2, <3>1
    <3>3. (s \o t)[i + 1] = t[(i + 1) - Len(s)]
      BY <1>2, <3>1
    <3> QED BY <3>1, <3>2, <3>3
  <2> QED BY <2>1, <2>2
<1>7. \A i, j \in DOMAIN (s \o Tail(t)) : i < j => f[i] < f[j]
  BY <1>1, <1>4
<1> HIDE DEF f
<1> QED BY <1>2, <1>3, <1>5, <1>6, <1>7, OrderedPart

\* ... and a request at the end that may come last.
LEMMA OrderedAppend ==
  ASSUME NEW s \in Seq(Requests), NEW e \in Requests, Ordered(s),
         e = Online \/ Disconnect \notin Elems(s),
         e.kind = "batch" => \A r \in Elems(s) : r.kind = "batch" => r.batch < e.batch
  PROVE  Ordered(Append(s, e))
<1>1. DOMAIN Append(s, e) = 1 .. Len(s) + 1 /\ DOMAIN s = 1 .. Len(s) /\ Len(s) \in Nat
  OBVIOUS
<1>2. (\A i \in 1 .. Len(s) : Append(s, e)[i] = s[i]) /\ Append(s, e)[Len(s) + 1] = e
  OBVIOUS
<1>3. \A i \in DOMAIN s : s[i] \in Elems(s)
  BY DEF Elems
<1> SUFFICES ASSUME NEW i \in 1 .. Len(s) + 1, NEW j \in 1 .. Len(s) + 1, i < j
             PROVE  /\ Append(s, e)[i] = Disconnect => Append(s, e)[j] = Online
                    /\ Append(s, e)[i].kind = "batch" /\ Append(s, e)[j].kind = "batch"
                            => Append(s, e)[i].batch < Append(s, e)[j].batch
  BY <1>1 DEF Ordered
<1>4. i \in DOMAIN s /\ Append(s, e)[i] = s[i] /\ s[i] \in Elems(s)
  BY <1>1, <1>2, <1>3
<1>5. CASE j = Len(s) + 1
  BY <1>2, <1>4, <1>5
<1>6. CASE j # Len(s) + 1
  <2>1. j \in DOMAIN s /\ Append(s, e)[j] = s[j]
    BY <1>1, <1>2, <1>6
  <2> QED BY <1>4, <2>1 DEF Ordered
<1> QED BY <1>5, <1>6

-----------------------------------------------------------------------------
\* The sequences of the network and what they hold together.
LEMMA StreamFacts ==
  ASSUME TypeOK
  PROVE  /\ wire \in Seq(Requests) /\ pending \in Seq(Requests) /\ inflight \in Seq(Requests)
         /\ queue \in Seq(Requests) /\ Upcoming \in Seq(Requests)
         /\ Stream \in Seq(Requests) /\ Unacked \in Seq(Requests)
         /\ Elems(Upcoming) = Elems(pending) \cup Elems(queue)
         /\ Elems(Stream) = Elems(wire) \cup Elems(Upcoming)
         /\ Elems(Unacked) = Elems(inflight) \cup Elems(Upcoming)
<1>1. wire \in Seq(Requests) /\ queue \in Seq(Requests) /\ pending \in Seq(Requests)
  BY DEF TypeOK
<1>2. inflight \in Seq(Requests)
  BY RequestFacts, SeqMonotonic DEF TypeOK
<1>3. Upcoming \in Seq(Requests) /\ Elems(Upcoming) = Elems(pending) \cup Elems(queue)
  BY <1>1, ElemsConcat DEF Upcoming
<1>4. Stream \in Seq(Requests) /\ Unacked \in Seq(Requests)
  BY <1>1, <1>2, <1>3 DEF Stream, Unacked
<1>5. Elems(Stream) = Elems(wire) \cup Elems(Upcoming)
      /\ Elems(Unacked) = Elems(inflight) \cup Elems(Upcoming)
  BY <1>1, <1>2, <1>3, ElemsConcat DEF Stream, Unacked
<1> QED BY <1>1, <1>2, <1>3, <1>4, <1>5

\* What is queued comes last of all.
LEMMA Queued ==
  ASSUME TypeOK, NEW r \in Requests, queue' = Append(queue, r), UNCHANGED network
  PROVE  /\ Stream' = Append(Stream, r) /\ Unacked' = Append(Unacked, r)
         /\ Elems(Stream') = Elems(Stream) \cup {r} /\ Elems(Unacked') = Elems(Unacked) \cup {r}
         /\ Elems(Upcoming') = Elems(Upcoming) \cup {r}
<1>1. wire' = wire /\ pending' = pending /\ inflight' = inflight
  BY DEF network
<1>2. Upcoming' = Append(Upcoming, r)
  BY <1>1, StreamFacts, AppendBehind DEF Upcoming
<1>3. \A s \in Seq(Requests) : s \o Append(Upcoming, r) = Append(s \o Upcoming, r)
  BY StreamFacts, AppendBehind
<1>4. Stream' = Append(Stream, r) /\ Unacked' = Append(Unacked, r)
  BY <1>1, <1>2, <1>3, StreamFacts, Zenon DEF Stream, Unacked
<1> QED BY <1>2, <1>4, StreamFacts, ElemsAppend

\* The next request leaves what is still to be sent.
LEMMA Taken ==
  ASSUME TypeOK, Upcoming # <<>>, TakeNext
  PROVE  /\ Upcoming' = Tail(Upcoming) /\ Head(Upcoming) \in Requests
         /\ Elems(Upcoming) = {Head(Upcoming)} \cup Elems(Upcoming')
         /\ pending' \in Seq(Requests) /\ queue' \in Seq(Requests) /\ Len(queue') <= Len(queue)
<1>1. /\ pending \in Seq(Requests) /\ queue \in Seq(Requests) /\ Upcoming \in Seq(Requests)
      /\ Len(queue) \in Nat
  BY StreamFacts
<1>2. CASE pending # <<>>
  <2>1. pending' = Tail(pending) /\ queue' = queue
    BY <1>2 DEF TakeNext
  <2>2. Upcoming' = Tail(Upcoming)
    BY <1>1, <1>2, <2>1, TailInFront DEF Upcoming
  <2>3. pending' \in Seq(Requests) /\ Len(queue') <= Len(queue)
    BY <1>1, <1>2, <2>1
  <2> QED BY <1>1, <2>1, <2>2, <2>3, ElemsHeadTail, HeadTailProperties
<1>3. CASE pending = <<>>
  <2>1. queue' = Tail(queue) /\ pending' = pending
    BY <1>3 DEF TakeNext
  <2>2. Upcoming = queue /\ queue # <<>>
    BY <1>1, <1>3, ConcatEmptySeq DEF Upcoming
  <2>3. queue' \in Seq(Requests) /\ Len(queue') <= Len(queue)
    BY <1>1, <2>1, <2>2
  <2>4. Upcoming' = queue'
    BY <1>3, <2>1, <2>3, ConcatEmptySeq DEF Upcoming
  <2> QED BY <1>1, <2>1, <2>2, <2>3, <2>4, ElemsHeadTail, HeadTailProperties
<1> QED BY <1>2, <1>3

\* A request put on the wire keeps its place among what may reach the broker, and, if it is
\* kept, among what a reconnect would send.
LEMMA Sent ==
  ASSUME TypeOK, Upcoming # <<>>, TakeNext, NEW r, r = Head(Upcoming), wire' = Append(wire, r),
         inflight' = inflight \/ inflight' = Append(inflight, r)
  PROVE  /\ Stream' = Stream
         /\ Elems(Unacked') \subseteq Elems(Unacked)
         /\ Ordered(Unacked) => Ordered(Unacked')
<1>0. /\ wire \in Seq(Requests) /\ inflight \in Seq(Requests) /\ Upcoming \in Seq(Requests)
  BY StreamFacts
<1>1. /\ Upcoming' = Tail(Upcoming) /\ Elems(Upcoming) = {r} \cup Elems(Tail(Upcoming))
      /\ r \in Requests /\ wire \in Seq(Requests) /\ inflight \in Seq(Requests)
      /\ Upcoming \in Seq(Requests) /\ Tail(Upcoming) \in Seq(Requests)
  <2>1. Upcoming' = Tail(Upcoming) /\ r \in Requests
    BY Taken
  <2>2. Tail(Upcoming) \in Seq(Requests)
    BY <1>0, HeadTailProperties
  <2>3. Elems(Upcoming) = {r} \cup Elems(Tail(Upcoming))
    BY <1>0, ElemsHeadTail
  <2> QED BY <1>0, <2>1, <2>2, <2>3
<1>2. Stream' = Stream
  BY <1>1, MoveHead DEF Stream
<1>3. CASE inflight' = Append(inflight, r)
  <2>1. Unacked' = Unacked
    BY <1>1, <1>3, MoveHead DEF Unacked
  <2> QED BY <1>2, <2>1
<1>4. CASE inflight' = inflight
  <2>1. Unacked' = inflight \o Tail(Upcoming)
    BY <1>1, <1>4 DEF Unacked
  <2>2. Elems(Unacked') = Elems(inflight) \cup Elems(Tail(Upcoming))
    <3>1. inflight \in Seq(Requests) /\ Tail(Upcoming) \in Seq(Requests)
      BY <1>1
    <3>2. Elems(inflight \o Tail(Upcoming)) = Elems(inflight) \cup Elems(Tail(Upcoming))
      BY <3>1, ElemsConcat
    <3> QED BY <2>1, <3>2, Zenon
  <2>3. Ordered(Unacked) => Ordered(Unacked')
    BY <1>1, <2>1, OrderedWithoutHead DEF Unacked
  <2> QED BY <1>1, <1>2, <2>2, <2>3, StreamFacts
<1> QED BY <1>3, <1>4

\* The broker receives the first packet of all.
LEMMA Received ==
  ASSUME TypeOK, wire # <<>>, wire' = Tail(wire), UNCHANGED <<pending, inflight, queue>>
  PROVE  /\ Stream # <<>> /\ Head(wire) = Head(Stream) /\ Stream' = Tail(Stream) /\ Unacked' = Unacked
         /\ Upcoming' = Upcoming
         /\ Head(wire) \in Requests /\ Tail(wire) \in Seq(Requests)
         /\ Elems(Stream) = {Head(wire)} \cup Elems(Stream')
<1>1. Upcoming' = Upcoming
  BY DEF Upcoming
<1>2. Stream # <<>> /\ Head(Stream) = Head(wire) /\ Tail(Stream) = Tail(wire) \o Upcoming
  BY StreamFacts, TailInFront DEF Stream
<1>3. Stream' = Tail(Stream) /\ Unacked' = Unacked
  BY <1>1, <1>2 DEF Stream, Unacked
<1>4. Head(wire) \in Requests /\ Tail(wire) \in Seq(Requests)
  BY StreamFacts, HeadTailProperties
<1>5. Elems(Stream) = {Head(Stream)} \cup Elems(Tail(Stream))
  BY <1>2, StreamFacts, ElemsHeadTail
<1> QED BY <1>1, <1>2, <1>3, <1>4, <1>5

-----------------------------------------------------------------------------
\* The truth values, and the rest of TypeOK.
FlagsOK ==
    /\ open \in BOOLEAN /\ will \in BOOLEAN /\ lost \in BOOLEAN
    /\ clean \in BOOLEAN /\ parted \in BOOLEAN /\ quiet \in BOOLEAN /\ jumbled \in BOOLEAN

TasksOK ==
    /\ qos \in 0 .. 2
    /\ pub \in {"recv", "offline", "disconnect", "await", "done"}
    /\ taken \in 0 .. MaxBatches /\ connects \in 0 .. MaxConnects /\ onlines \in 0 .. connects
    /\ ev \in {"down", "up", "stopped"}
    /\ retained \in {"none", "online", "offline"}
    /\ told \in {"none", "MqttConnected", "MqttDisconnected"}
    /\ accepted \subseteq Batches

QueuesOK ==
    /\ queue \in Seq(Requests) /\ Len(queue) <= QueueCap
    /\ pending \in Seq(Requests) /\ inflight \in Seq(Publishes) /\ Len(inflight) <= InflightCap
    /\ wire \in Seq(Requests) /\ acks \in Nat
    /\ delivered \in Seq(Batches) /\ forgotten \subseteq Requests

\* These are the parts of TypeOK.
LEMMA TypeParts == TypeOK <=> FlagsOK /\ TasksOK /\ QueuesOK
BY Zenon DEF TypeOK, FlagsOK, TasksOK, QueuesOK

\* The truth values stay truth values.
LEMMA FlagsStep == FlagsOK /\ [Next]_vars => FlagsOK'
<1> SUFFICES ASSUME FlagsOK, [Next]_vars PROVE FlagsOK'
  OBVIOUS
<1> USE DEF FlagsOK
<1>1. CASE TryPublish \/ InputClosed \/ QueueOffline
  BY <1>1, Zenon DEF TryPublish, InputClosed, QueueOffline, brokerState, losses
<1>2. CASE QueueDisconnect \/ PublisherReturns \/ QueueOnline
  BY <1>2, Zenon DEF QueueDisconnect, PublisherReturns, QueueOnline, brokerState, losses
<1>3. CASE (\E s \in BOOLEAN : ConnAck(s)) \/ ConnectFails \/ LostAtStop
  BY <1>3, Zenon DEF ConnAck, ConnectFails, LostAtStop, brokerState, losses
<1>4. CASE ConnectionLost
  BY <1>4, Zenon DEF ConnectionLost
<1>5. CASE SendNext \/ SendDisconnect \/ Ack
  BY <1>5, Zenon DEF SendNext, SendDisconnect, Ack, brokerState, losses
<1>6. CASE Deliver \/ PublishWill
  BY <1>6, Zenon DEF Deliver, PublishWill, losses
<1>7. CASE Ended \/ UNCHANGED vars
  BY <1>7, Zenon DEF Ended, vars, brokerState, losses
<1> QED BY <1>1, <1>2, <1>3, <1>4, <1>5, <1>6, <1>7 DEF Next

\* The tasks and the counters keep their types.
LEMMA TasksStep == TypeOK /\ [Next]_vars => TasksOK'
<1> SUFFICES ASSUME TypeOK, [Next]_vars PROVE TasksOK'
  OBVIOUS
<1>0. TasksOK
  BY TypeParts
<1> USE PublisherAssumption, <1>0 DEF TasksOK, Batches
<1>1. CASE TryPublish
  <2>1. accepted' \in {accepted, accepted \cup {taken + 1}}
    BY <1>1 DEF TryPublish
  <2>2. /\ taken' = taken + 1 /\ taken < MaxBatches
        /\ UNCHANGED <<qos, pub, connects, onlines, ev, retained, told>>
    BY <1>1 DEF TryPublish, brokerState
  <2>3. accepted' \subseteq 1 .. MaxBatches
    BY <2>1, <2>2
  <2> QED BY <2>2, <2>3
<1>2. CASE InputClosed \/ QueueOffline \/ QueueDisconnect \/ PublisherReturns
  BY <1>2 DEF InputClosed, QueueOffline, QueueDisconnect, PublisherReturns, brokerState
<1>3. CASE QueueOnline
  BY <1>3 DEF QueueOnline, brokerState
<1>4. CASE \E s \in BOOLEAN : ConnAck(s)
  BY <1>4 DEF ConnAck
<1>5. CASE ConnectFails \/ ConnectionLost \/ LostAtStop
  BY <1>5 DEF ConnectFails, ConnectionLost, LostAtStop, brokerState
<1>6. CASE SendNext \/ SendDisconnect \/ Ack
  BY <1>6 DEF SendNext, SendDisconnect, Ack, brokerState
<1>7. CASE Deliver
  <2>1. retained' \in {"none", "online", "offline"}
    BY <1>7, RequestFacts DEF Deliver
  <2> QED BY <1>7, <2>1 DEF Deliver
<1>8. CASE PublishWill
  BY <1>8 DEF PublishWill
<1>9. CASE Ended \/ UNCHANGED vars
  BY <1>9 DEF Ended, vars, brokerState
<1> QED BY <1>1, <1>2, <1>3, <1>4, <1>5, <1>6, <1>7, <1>8, <1>9 DEF Next

\* A publish put on the wire.
LEMMA SendType ==
  ASSUME TypeOK, NEW r \in Requests, Send(r)
  PROVE  /\ inflight' \in Seq(Publishes) /\ Len(inflight') <= InflightCap
         /\ wire' \in Seq(Requests) /\ acks' \in Nat
<1>1. r \in Publishes
  BY DEF Send, Requests
<1>2. inflight \in Seq(Publishes) /\ Len(inflight) < InflightCap /\ wire \in Seq(Requests)
      /\ Len(inflight) <= InflightCap /\ acks' = acks /\ acks \in Nat
  BY DEF Send, TypeOK
<1>3. wire' \in Seq(Requests)
  BY <1>2 DEF Send
<1>4. inflight' \in {inflight, Append(inflight, r)}
  BY DEF Send
<1>5. Append(inflight, r) \in Seq(Publishes) /\ Len(Append(inflight, r)) = Len(inflight) + 1
      /\ Len(inflight) \in Nat
  BY <1>1, <1>2
<1>6. InflightCap \in Nat
  BY PublisherAssumption
<1>7. CASE inflight' = inflight
  BY <1>2, <1>3, <1>7
<1>8. CASE inflight' = Append(inflight, r)
  <2>1. Len(inflight') <= InflightCap
    BY <1>2, <1>5, <1>6, <1>8
  <2> QED BY <1>2, <1>3, <1>5, <1>8, <2>1, Zenon
<1> QED BY <1>4, <1>7, <1>8

\* No more acknowledgements are on their way than publishes wait for one.
LEMMA AcksInFlight ==
  ASSUME TypeOK, WindowInv, ev = "up"
  PROVE  acks <= Len(inflight)
<1>1. PICK c \in [0 .. Len(wire) -> Nat] : Matches(c)
  BY DEF WindowInv
<1>2. Len(wire) \in Nat /\ Len(inflight) \in Nat /\ acks \in Nat
  BY DEF TypeOK
<1>3. Len(wire) = 0 \/ 0 < Len(wire)
  BY <1>2
<1>4. 0 \in 0 .. Len(wire) /\ Len(wire) \in 0 .. Len(wire)
  BY <1>2
<1>5. c[0] = acks /\ c[Len(wire)] = Len(inflight)
      /\ \A i, j \in 0 .. Len(wire) : i < j => c[i] <= c[j]
  BY <1>1 DEF Matches
<1> QED BY <1>2, <1>3, <1>4, <1>5

\* The sequences keep their types and the queue and the window their capacities.
LEMMA QueuesStep == TypeOK /\ WindowInv /\ [Next]_vars => QueuesOK'
<1> SUFFICES ASSUME TypeOK, WindowInv, [Next]_vars PROVE QueuesOK'
  OBVIOUS
<1>0. QueuesOK
  BY TypeParts
<1>1. ASSUME NEW r \in Requests, Room, queue' = Append(queue, r)
      PROVE  queue' \in Seq(Requests) /\ Len(queue') <= QueueCap
  BY <1>0, <1>1, PublisherAssumption DEF QueuesOK, Room
<1>2. UNCHANGED queue => queue' \in Seq(Requests) /\ Len(queue') <= QueueCap
  BY <1>0 DEF QueuesOK
<1>3. UNCHANGED <<network, delivered, forgotten>> =>
        /\ pending' \in Seq(Requests) /\ inflight' \in Seq(Publishes)
        /\ Len(inflight') <= InflightCap /\ wire' \in Seq(Requests)
        /\ acks' \in Nat /\ delivered' \in Seq(Batches) /\ forgotten' \subseteq Requests
  BY <1>0 DEF QueuesOK, network
<1>5. CASE TryPublish \/ QueueOffline \/ QueueDisconnect \/ QueueOnline
  <2>1. BatchRequest(taken + 1) \in Requests \/ ~TryPublish
    <3>1. taken \in 0 .. MaxBatches
      BY DEF TypeOK
    <3> QED BY <3>1, RequestFacts, PublisherAssumption DEF TryPublish, Batches
  <2>2. UNCHANGED <<network, delivered, forgotten>>
    BY <1>5 DEF TryPublish, QueueOffline, QueueDisconnect, QueueOnline, brokerState, losses
  <2>3. UNCHANGED queue \/ (Room /\ \E r \in Requests : queue' = Append(queue, r))
    BY <1>5, <2>1, RequestFacts DEF TryPublish, QueueOffline, QueueDisconnect, QueueOnline
  <2>4. queue' \in Seq(Requests) /\ Len(queue') <= QueueCap
    BY <1>1, <1>2, <2>3
  <2> QED BY <1>3, <2>2, <2>4 DEF QueuesOK
<1>6. CASE InputClosed \/ PublisherReturns \/ ConnectFails \/ PublishWill \/ Ended \/ UNCHANGED vars
  <2>1. UNCHANGED <<queue, network, delivered, forgotten>>
    BY <1>6 DEF InputClosed, PublisherReturns, ConnectFails, PublishWill, Ended, vars, brokerState,
                losses
  <2> QED BY <1>2, <1>3, <2>1 DEF QueuesOK
<1>7. CASE \E s \in BOOLEAN : ConnAck(s)
  <2>1. /\ UNCHANGED <<queue, inflight, wire, acks, delivered>>
        /\ \/ UNCHANGED <<pending, forgotten>>
           \/ pending' = <<>> /\ forgotten' = forgotten \cup Elems(pending)
    BY <1>7 DEF ConnAck
  <2>2. Elems(pending) \subseteq Requests /\ <<>> \in Seq(Requests)
    BY <1>0 DEF QueuesOK, Elems
  <2> QED BY <1>0, <2>1, <2>2 DEF QueuesOK
<1>8. CASE ConnectionLost
  <2>1. pending' = pending \o inflight \o queue /\ queue' = <<>> /\ inflight' = <<>> /\ wire' = <<>>
        /\ acks' = 0 /\ UNCHANGED <<delivered, forgotten>>
    BY <1>8 DEF ConnectionLost
  <2>2. pending' \in Seq(Requests)
    BY <2>1, StreamFacts
  <2> QED BY <1>0, <2>1, <2>2, PublisherAssumption DEF QueuesOK
<1>9. CASE LostAtStop
  BY <1>0, <1>9 DEF LostAtStop, QueuesOK, losses
<1>10. CASE SendNext
  <2>1. Upcoming # <<>> /\ Send(Head(Upcoming)) /\ TakeNext /\ UNCHANGED <<delivered, forgotten>>
    BY <1>10 DEF SendNext, brokerState, losses
  <2>2. /\ Head(Upcoming) \in Requests /\ pending' \in Seq(Requests) /\ queue' \in Seq(Requests)
        /\ Len(queue') <= Len(queue)
    BY <2>1, Taken
  <2>3. Len(queue') <= QueueCap
    BY <1>0, <2>2, PublisherAssumption DEF QueuesOK
  <2>4. /\ inflight' \in Seq(Publishes) /\ Len(inflight') <= InflightCap
        /\ wire' \in Seq(Requests) /\ acks' \in Nat
    BY <2>1, <2>2, SendType
  <2> QED BY <1>0, <2>1, <2>2, <2>3, <2>4 DEF QueuesOK
<1>11. CASE SendDisconnect
  <2>1. /\ Upcoming # <<>> /\ TakeNext /\ wire' = Append(wire, Disconnect)
        /\ UNCHANGED <<inflight, acks, delivered, forgotten>>
    BY <1>11 DEF SendDisconnect, brokerState, losses
  <2>2. pending' \in Seq(Requests) /\ queue' \in Seq(Requests) /\ Len(queue') <= Len(queue)
    BY <2>1, Taken
  <2>3. Len(queue') <= QueueCap
    BY <1>0, <2>2, PublisherAssumption DEF QueuesOK
  <2>4. wire' \in Seq(Requests)
    BY <1>0, <2>1, RequestFacts DEF QueuesOK
  <2> QED BY <1>0, <2>1, <2>2, <2>3, <2>4 DEF QueuesOK
<1>12. CASE Deliver
  <2>1. Head(wire) \in Requests /\ Tail(wire) \in Seq(Requests)
    BY <1>0, <1>12 DEF Deliver, QueuesOK
  <2>2. wire' = Tail(wire) /\ UNCHANGED <<queue, pending, inflight, forgotten>>
        /\ acks' \in {acks, acks + 1}
        /\ (delivered' = delivered
            \/ (Head(wire).kind = "batch" /\ delivered' = Append(delivered, Head(wire).batch)))
    BY <1>12 DEF Deliver, losses
  <2>3. Head(wire).kind = "batch" => Head(wire).batch \in Batches
    BY <2>1, RequestFacts
  <2>4. delivered' \in Seq(Batches)
    <3>1. \A b \in Batches : Append(delivered, b) \in Seq(Batches)
      BY <1>0 DEF QueuesOK
    <3> QED BY <1>0, <2>2, <2>3, <3>1, Zenon DEF QueuesOK
  <2> QED BY <1>0, <2>1, <2>2, <2>4 DEF QueuesOK
<1>13. CASE Ack
  <2>0. inflight # <<>>
    BY <1>0, <1>13, AcksInFlight DEF Ack, QueuesOK
  <2>1. acks' \in Nat
    BY <1>0, <1>13 DEF Ack, QueuesOK
  <2>2. inflight' = Tail(inflight) /\ UNCHANGED <<queue, pending, wire, delivered, forgotten>>
    BY <1>13 DEF Ack, brokerState, losses
  <2>3. inflight' \in Seq(Publishes) /\ Len(inflight') <= InflightCap
    BY <1>0, <2>0, <2>2, PublisherAssumption DEF QueuesOK
  <2> QED BY <1>0, <2>1, <2>2, <2>3 DEF QueuesOK
<1> QED BY <1>5, <1>6, <1>7, <1>8, <1>9, <1>10, <1>11, <1>12, <1>13 DEF Next

\* The variables keep their types: at every step.
LEMMA TypeStep == TypeOK /\ WindowInv /\ [Next]_vars => TypeOK'
<1>1. TypeOK' <=> FlagsOK' /\ TasksOK' /\ QueuesOK'
  BY TypeParts, PTL
<1> QED BY <1>1, TypeParts, FlagsStep, TasksStep, QueuesStep

-----------------------------------------------------------------------------
\* A delivery: a live connection, and if it is that of the DISCONNECT, the last one.
LEMMA Delivery ==
  ASSUME TypeOK, ConnectionInv, Deliver
  PROVE  /\ ev # "down" /\ wire # <<>> /\ will /\ ~clean /\ ~lost
         /\ Head(wire) # Disconnect => will' /\ ~clean' /\ parted' = (parted \/ Head(wire) = Offline)
         /\ Head(wire) = Disconnect =>
                ev = "stopped" /\ wire' = <<>> /\ ~will' /\ clean' /\ parted' = parted
<1>1. wire # <<>> /\ wire' = Tail(wire) /\ ev' = ev
  BY DEF Deliver
<1>2. ev # "down" /\ will /\ ~clean /\ ~lost
  BY <1>1 DEF ConnectionInv, TypeOK
<1>3. Head(wire) # Disconnect => will' /\ ~clean' /\ parted' = (parted \/ Head(wire) = Offline)
  BY <1>2, RequestFacts, Zenon DEF Deliver
<1>4. ASSUME Head(wire) = Disconnect
      PROVE  ev = "stopped" /\ wire' = <<>> /\ ~will' /\ clean' /\ parted' = parted
  <2>1. wire \in Seq(Requests) /\ Len(wire) \in Nat \ {0} /\ Head(wire) = wire[1]
    BY <1>1, StreamFacts
  <2>2. Disconnect \in Elems(wire)
    BY <1>1, <1>4, <2>1, ElemsHeadTail
  <2>3. ev = "stopped" /\ \A i \in 1 .. Len(wire) - 1 : wire[i] # Disconnect
    BY <1>1, <2>2 DEF ConnectionInv
  <2>4. Len(wire) = 1
    <3> DEFINE n == Len(wire)
    <3>1. n \in Nat \ {0} /\ ~(1 \in 1 .. n - 1)
      BY <1>4, <2>1, <2>3
    <3> HIDE DEF n
    <3>2. n = 1
      BY <3>1
    <3> QED BY <3>2 DEF n
  <2>5. wire' = <<>>
    BY <1>1, <2>1, <2>4
  <2>6. ~will' /\ clean' /\ parted' = parted
    <3>1. parted \in BOOLEAN
      BY DEF TypeOK
    <3> QED BY <1>4, <3>1, RequestFacts, Zenon DEF Deliver
  <2> QED BY <2>3, <2>5, <2>6
<1> QED BY <1>1, <1>2, <1>3, <1>4

\* Only a live connection carries packets, and the DISCONNECT is the last of them.
LEMMA ConnectionStep ==
  ASSUME TypeOK, ConnectionInv, [Next]_vars
  PROVE  ConnectionInv'
<1>1. CASE UNCHANGED <<ev, wire, inflight, acks, will, lost, connects, clean>>
  BY <1>1 DEF ConnectionInv
<1>2. CASE \E s \in BOOLEAN : ConnAck(s)
  <2>1. UNCHANGED <<wire, clean>> /\ ev = "down" /\ ev' = "up" /\ will' /\ ~lost' /\ connects' >= 1
    BY <1>2 DEF ConnAck, TypeOK
  <2>2. wire = <<>> /\ Elems(wire) = {} /\ ~clean
    BY <2>1 DEF ConnectionInv, Elems
  <2> QED BY <2>1, <2>2 DEF ConnectionInv
<1>3. CASE ConnectionLost
  <2>1. /\ ev = "up" /\ ev' = "down" /\ wire' = <<>> /\ inflight' = <<>> /\ acks' = 0
        /\ clean' = clean
    BY <1>3 DEF ConnectionLost
  <2>2. Elems(wire') = {}
    BY <2>1 DEF Elems
  <2> QED BY <2>1, <2>2 DEF ConnectionInv
<1>4. CASE LostAtStop
  <2>1. ev = "stopped" /\ wire # <<>> /\ ev' = ev /\ wire' = <<>> /\ UNCHANGED <<will, clean>>
    BY <1>4 DEF LostAtStop
  <2> QED BY <2>1 DEF ConnectionInv
<1>5. CASE SendNext
  <2>1. Head(Upcoming) \in Requests /\ Send(Head(Upcoming))
    BY <1>5, Taken DEF SendNext
  <2>2. ev = "up" /\ UNCHANGED <<ev, will, lost, connects, clean>>
    BY <1>5 DEF SendNext, brokerState
  <2>3. Elems(wire') = Elems(wire) \cup {Head(Upcoming)} /\ Head(Upcoming) # Disconnect
    BY <2>1, StreamFacts, ElemsAppend DEF Send
  <2> QED BY <2>2, <2>3 DEF ConnectionInv
<1>6. CASE SendDisconnect
  <2>1. /\ ev = "up" /\ ev' = "stopped" /\ wire' = Append(wire, Disconnect)
        /\ UNCHANGED <<will, lost, clean>>
    BY <1>6 DEF SendDisconnect, brokerState
  <2>2. /\ wire' # <<>> /\ wire'[Len(wire')] = Disconnect /\ Len(wire') - 1 = Len(wire)
        /\ \A i \in 1 .. Len(wire) : wire'[i] = wire[i]
    <3>1. wire \in Seq(Requests) /\ Disconnect \in Requests
      BY StreamFacts, RequestFacts
    <3>2. wire' # <<>> /\ Len(wire') = Len(wire) + 1 /\ Len(wire) \in Nat
      BY <2>1, <3>1
    <3>3. wire'[Len(wire) + 1] = Disconnect /\ \A i \in 1 .. Len(wire) : wire'[i] = wire[i]
      BY <2>1, <3>1
    <3>4. Len(wire') - 1 = Len(wire)
      BY <3>2
    <3> QED BY <3>2, <3>3, <3>4, Zenon
  <2>3. \A i \in 1 .. Len(wire) : wire[i] # Disconnect
    <3>1. DOMAIN wire = 1 .. Len(wire)
      BY StreamFacts
    <3> QED BY <2>1, <3>1 DEF ConnectionInv, Elems
  <2> QED BY <2>1, <2>2, <2>3 DEF ConnectionInv
<1>7. CASE Deliver
  <2>1. ev' = ev /\ lost' = lost /\ wire' = Tail(wire) /\ UNCHANGED <<inflight, connects>>
    BY <1>7 DEF Deliver
  <2>2. CASE Head(wire) = Disconnect
    BY <1>7, <2>1, <2>2, Delivery DEF ConnectionInv
  <2>3. CASE Head(wire) # Disconnect
    <3>0. wire # <<>> /\ wire \in Seq(Requests)
      BY <1>7, StreamFacts, Delivery
    <3>1. Elems(wire') \subseteq Elems(wire)
      BY <2>1, <3>0, ElemsHeadTail
    <3>2. /\ Len(wire') = Len(wire) - 1 /\ Len(wire) \in Nat
          /\ \A i \in 1 .. Len(wire') : wire'[i] = wire[i + 1]
          /\ wire' # <<>> => Len(wire') \in 1 .. Len(wire') /\ wire'[Len(wire')] = wire[Len(wire)]
      BY <2>1, <3>0
    <3>3. \A i \in 1 .. Len(wire') - 1 : i + 1 \in 1 .. Len(wire) - 1 /\ wire'[i] = wire[i + 1]
      BY <3>2
    <3>4. ev = "stopped" => \A i \in 1 .. Len(wire') - 1 : wire'[i] # Disconnect
      BY <3>0, <3>3 DEF ConnectionInv
    <3> QED BY <1>7, <2>1, <2>3, <3>1, <3>2, <3>4, Delivery DEF ConnectionInv
  <2> QED BY <2>2, <2>3
<1>8. CASE PublishWill
  <2>1. lost /\ ~will' /\ ~lost' /\ UNCHANGED <<ev, wire, inflight, acks, connects, clean>>
    BY <1>8 DEF PublishWill, network
  <2> QED BY <2>1 DEF ConnectionInv
<1>9. CASE Ack
  <2>1. ev = "up" /\ UNCHANGED <<ev, wire, will, lost, connects, clean>>
    BY <1>9 DEF Ack, brokerState
  <2> QED BY <2>1 DEF ConnectionInv
<1>10. CASE \/ TryPublish \/ InputClosed \/ QueueOffline \/ QueueDisconnect \/ PublisherReturns
            \/ QueueOnline \/ ConnectFails \/ Ended \/ UNCHANGED vars
  BY <1>1, <1>10 DEF TryPublish, InputClosed, QueueOffline, QueueDisconnect, PublisherReturns,
        QueueOnline, ConnectFails, Ended, vars, network, brokerState
<1> QED BY <1>2, <1>3, <1>4, <1>5, <1>6, <1>7, <1>8, <1>9, <1>10 DEF Next

-----------------------------------------------------------------------------
\* The order of a concatenation is that of its end, too.
LEMMA OrderedEnd ==
  ASSUME NEW s \in Seq(Requests), NEW t \in Seq(Requests), Ordered(s \o t)
  PROVE  Ordered(t)
<1> DEFINE f == [i \in DOMAIN t |-> Len(s) + i]
<1>1. /\ s \o t \in Seq(Requests) /\ Len(s \o t) = Len(s) + Len(t)
      /\ \A i \in 1 .. Len(s) + Len(t) : (s \o t)[i] = IF i <= Len(s) THEN s[i] ELSE t[i - Len(s)]
  BY ConcatProperties
<1>2. Len(s) \in Nat /\ Len(t) \in Nat /\ DOMAIN t = 1 .. Len(t)
      /\ DOMAIN (s \o t) = 1 .. Len(s) + Len(t)
  BY <1>1
<1>3. f \in [DOMAIN t -> DOMAIN (s \o t)]
  BY <1>2
<1>4. ASSUME NEW i \in DOMAIN t PROVE t[i] = (s \o t)[f[i]]
  <2>1. /\ f[i] = Len(s) + i /\ Len(s) + i \in 1 .. Len(s) + Len(t)
        /\ ~(Len(s) + i <= Len(s)) /\ (Len(s) + i) - Len(s) = i
    BY <1>2
  <2> QED BY <1>1, <2>1
<1>5. \A i, j \in DOMAIN t : i < j => f[i] < f[j]
  BY <1>2
<1> HIDE DEF f
<1> QED BY <1>1, <1>3, <1>4, <1>5, OrderedPart

\* No batch is in both halves of an ordered sequence.
LEMMA OrderedApart ==
  ASSUME NEW s \in Seq(Requests), NEW t \in Seq(Requests), Ordered(s \o t),
         NEW r \in Elems(t), r.kind = "batch"
  PROVE  r \notin Elems(s)
<1> SUFFICES ASSUME r \in Elems(s) PROVE FALSE
  OBVIOUS
<1>1. /\ s \o t \in Seq(Requests) /\ Len(s \o t) = Len(s) + Len(t)
      /\ \A i \in 1 .. Len(s) + Len(t) : (s \o t)[i] = IF i <= Len(s) THEN s[i] ELSE t[i - Len(s)]
  BY ConcatProperties
<1>2. /\ Len(s) \in Nat /\ Len(t) \in Nat /\ DOMAIN s = 1 .. Len(s) /\ DOMAIN t = 1 .. Len(t)
      /\ DOMAIN (s \o t) = 1 .. Len(s) + Len(t)
  BY <1>1
<1>3. PICK i \in 1 .. Len(s), j \in 1 .. Len(t) : s[i] = r /\ t[j] = r
  BY <1>2 DEF Elems
<1>4. /\ i \in DOMAIN (s \o t) /\ Len(s) + j \in DOMAIN (s \o t) /\ i < Len(s) + j
      /\ i <= Len(s) /\ ~(Len(s) + j <= Len(s)) /\ (Len(s) + j) - Len(s) = j
  BY <1>2
<1>5. (s \o t)[i] = r /\ (s \o t)[Len(s) + j] = r
  BY <1>1, <1>2, <1>3, <1>4
<1>6. r.batch < r.batch
  BY <1>4, <1>5 DEF Ordered
<1>7. r \in Requests
  BY <1>2 DEF Elems
<1>8. r.batch \in Nat
  BY <1>7, RequestFacts DEF Batches
<1> QED BY <1>6, <1>8

\* The steps that move no request.
LEMMA StillEffect ==
  ASSUME UNCHANGED <<network, queue>>
  PROVE  Stream' = Stream /\ Unacked' = Unacked /\ Upcoming' = Upcoming
BY DEF network, Stream, Unacked, Upcoming

\* The steps of the eventloop that send.
LEMMA SendEffect ==
  ASSUME TypeOK, SendNext \/ SendDisconnect
  PROVE  /\ Stream' = Stream
         /\ Elems(Unacked') \subseteq Elems(Unacked)
         /\ Ordered(Unacked) => Ordered(Unacked')
         /\ Elems(Upcoming') \subseteq Elems(Upcoming)
         /\ SendDisconnect => Disconnect \in Elems(Upcoming)
         /\ ev = "up" /\ ev' \in {"up", "stopped"} /\ (SendNext => ev' = "up") /\ wire' # <<>>
         /\ UNCHANGED <<qos, pub, taken, onlines, connects, brokerState, accepted, quiet, losses>>
<1> DEFINE r == Head(Upcoming)
<1>1. /\ ev = "up" /\ ev' \in {"up", "stopped"} /\ (SendNext => ev' = "up")
      /\ UNCHANGED <<qos, pub, taken, onlines, connects, brokerState, accepted, quiet, losses>>
  BY DEF SendNext, SendDisconnect
<1>2. Upcoming # <<>> /\ TakeNext /\ wire' = Append(wire, r)
      /\ (inflight' = inflight \/ inflight' = Append(inflight, r)) /\ (SendDisconnect => r = Disconnect)
  BY DEF SendNext, SendDisconnect, Send
<1>3. /\ r \in Requests /\ Elems(Upcoming) = {r} \cup Elems(Upcoming')
      /\ wire \in Seq(Requests)
  BY <1>2, Taken, StreamFacts
<1>4. /\ Stream' = Stream /\ Elems(Unacked') \subseteq Elems(Unacked)
      /\ Ordered(Unacked) => Ordered(Unacked')
  BY <1>2, Sent
<1> HIDE DEF r
<1>5. wire' # <<>>
  BY <1>2, <1>3
<1> QED BY <1>1, <1>2, <1>3, <1>4, <1>5

\* A lost connection: all that was not acknowledged is pending, and in its order unless
\* some was pending already or there is more than the window holds.
LEMMA LossEffect ==
  ASSUME TypeOK, ConnectionLost
  PROVE  /\ Elems(Stream') = Elems(Unacked) /\ Elems(Unacked') = Elems(Unacked)
         /\ Elems(Upcoming') = Elems(Unacked)
         /\ ~jumbled' => ~jumbled /\ Stream' = Unacked /\ Unacked' = Unacked
<1>1. /\ wire' = <<>> /\ inflight' = <<>> /\ queue' = <<>>
      /\ pending' = pending \o inflight \o queue
      /\ ~jumbled' => ~jumbled /\ (pending = <<>> \/ inflight = <<>>)
  BY DEF ConnectionLost, TypeOK
<1>2. /\ pending \in Seq(Requests) /\ inflight \in Seq(Requests) /\ queue \in Seq(Requests)
      /\ pending \o inflight \in Seq(Requests) /\ pending' \in Seq(Requests)
  BY <1>1, StreamFacts
<1>3. Upcoming' = pending' /\ Stream' = Upcoming' /\ Unacked' = Upcoming'
  BY <1>1, <1>2, ConcatEmptySeq DEF Upcoming, Stream, Unacked
<1>4. Elems(pending') = Elems(inflight) \cup Elems(Upcoming)
  <2>1. Elems(pending') = Elems(pending \o inflight) \cup Elems(queue)
    <3>1. \A s \in Seq(Requests) : Elems(s \o queue) = Elems(s) \cup Elems(queue)
      BY <1>2, ElemsConcat
    <3> QED BY <1>1, <1>2, <3>1, Zenon
  <2>2. Elems(pending \o inflight) = Elems(pending) \cup Elems(inflight)
    BY <1>2, ElemsConcat
  <2> QED BY <2>1, <2>2, StreamFacts
<1>5. ASSUME pending = <<>> \/ inflight = <<>> PROVE pending' = Unacked
  <2>1. CASE pending = <<>>
    <3>1. pending' = inflight \o queue /\ Upcoming = queue
      BY <1>1, <1>2, <2>1, ConcatEmptySeq DEF Upcoming
    <3> QED BY <3>1 DEF Unacked
  <2>2. CASE inflight = <<>>
    <3>1. pending \o inflight = pending
      BY <1>2, <2>2, ConcatEmptySeq
    <3>2. pending' = Upcoming /\ Unacked = Upcoming
      BY <1>1, <2>2, <3>1, StreamFacts, ConcatEmptySeq DEF Upcoming, Unacked
    <3> QED BY <3>2
  <2> QED BY <1>5, <2>1, <2>2
<1> QED BY <1>1, <1>3, <1>4, <1>5, StreamFacts

\* A new connection: what is pending stays, or is dropped for good.
LEMMA AnswerEffect ==
  ASSUME TypeOK, ConnectionInv, NEW s \in BOOLEAN, ConnAck(s)
  PROVE  /\ Elems(Stream') \subseteq Elems(Stream) /\ Elems(Unacked') \subseteq Elems(Unacked)
         /\ Elems(Upcoming') \subseteq Elems(Upcoming)
         /\ Ordered(Stream) => Ordered(Stream') /\ Ordered(Unacked')
         /\ Ordered(Stream) /\ Fresh(Stream) => Fresh(Stream)' /\ Fresh(Unacked)'
         /\ Elems(Stream) \subseteq Elems(Stream') \cup forgotten'
         /\ forgotten \subseteq forgotten' /\ forgotten' \subseteq forgotten \cup Elems(Stream)
         /\ UNCHANGED <<qos, pub, taken, delivered, clean, parted, accepted, jumbled>>
<1>1. /\ ev = "down" /\ UNCHANGED <<queue, inflight, wire>>
      /\ \/ UNCHANGED <<pending, forgotten>>
         \/ pending' = <<>> /\ forgotten' = forgotten \cup Elems(pending)
      /\ UNCHANGED <<qos, pub, taken, delivered, clean, parted, accepted, jumbled>>
  BY DEF ConnAck
<1>2. wire = <<>> /\ inflight = <<>>
  BY <1>1 DEF ConnectionInv
<1>3. Stream = Upcoming /\ Unacked = Upcoming
  BY <1>2, StreamFacts, ConcatEmptySeq DEF Stream, Unacked
<1>4. CASE UNCHANGED <<pending, forgotten>>
  <2>1. Upcoming' = Upcoming /\ Stream' = Stream /\ Unacked' = Unacked
    BY <1>1, <1>4 DEF Upcoming, Stream, Unacked
  <2> QED BY <1>1, <1>3, <1>4, <2>1 DEF Fresh
<1>5. CASE pending' = <<>> /\ forgotten' = forgotten \cup Elems(pending)
  <2>0. pending \in Seq(Requests) /\ queue \in Seq(Requests)
    BY StreamFacts
  <2>1. Upcoming' = queue /\ Stream' = queue /\ Unacked' = queue
    BY <1>1, <1>2, <1>5, <2>0, ConcatEmptySeq DEF Upcoming, Stream, Unacked
  <2>2. Elems(Upcoming) = Elems(pending) \cup Elems(queue)
    BY StreamFacts
  <2>3. Ordered(Stream) => Ordered(queue)
    BY <1>3, <2>0, OrderedEnd DEF Upcoming
  <2>4. ASSUME Ordered(Stream), Fresh(Stream), NEW r \in Elems(queue), r.kind = "batch"
        PROVE  r \notin forgotten'
    <3>1. r \notin Elems(pending)
      BY <1>3, <2>0, <2>4, OrderedApart DEF Upcoming
    <3> QED BY <1>3, <1>5, <2>2, <2>4, <3>1 DEF Fresh
  <2>5. Ordered(Stream) /\ Fresh(Stream) => Fresh(Stream)' /\ Fresh(Unacked)'
    BY <2>1, <2>4 DEF Fresh
  <2> QED BY <1>1, <1>3, <1>5, <2>1, <2>2, <2>3, <2>5
<1> QED BY <1>1, <1>4, <1>5

\* A connection that breaks after the end: what it carried is gone.
LEMMA StopEffect ==
  ASSUME TypeOK, LostAtStop
  PROVE  /\ Unacked' = Unacked /\ Elems(Stream') \subseteq Elems(Stream) /\ Upcoming' = Upcoming
         /\ Ordered(Stream) => Ordered(Stream')
<1>1. wire' = <<>> /\ UNCHANGED <<pending, inflight, queue>>
  BY DEF LostAtStop
<1>2. Upcoming' = Upcoming /\ Unacked' = Unacked
  BY <1>1 DEF Upcoming, Unacked
<1>3. Stream' = Upcoming
  BY <1>1, <1>2, StreamFacts, ConcatEmptySeq DEF Stream
<1> QED BY <1>2, <1>3, StreamFacts, OrderedEnd DEF Stream

\* An acknowledgement takes the oldest publish in flight.
LEMMA AckEffect ==
  ASSUME TypeOK, WindowInv, Ack
  PROVE  /\ inflight # <<>> /\ Unacked # <<>> /\ Unacked' = Tail(Unacked) /\ Stream' = Stream
         /\ Upcoming' = Upcoming
         /\ Elems(Unacked') \subseteq Elems(Unacked) /\ Elems(inflight') \subseteq Elems(inflight)
         /\ Ordered(Unacked) => Ordered(Unacked')
<1>1. ev = "up" /\ acks > 0 /\ inflight' = Tail(inflight) /\ UNCHANGED <<wire, pending, queue>>
  BY DEF Ack
<1>2. inflight # <<>> /\ inflight \in Seq(Requests) /\ Upcoming \in Seq(Requests)
      /\ Unacked \in Seq(Requests)
  BY <1>1, AcksInFlight, StreamFacts DEF TypeOK
<1>3. Upcoming' = Upcoming /\ Stream' = Stream
  BY <1>1 DEF Upcoming, Stream
<1>4. Unacked # <<>> /\ Tail(Unacked) = Tail(inflight) \o Upcoming
  BY <1>2, TailInFront DEF Unacked
<1>5. Unacked' = Tail(Unacked)
  BY <1>1, <1>3, <1>4 DEF Unacked
<1> QED BY <1>1, <1>2, <1>3, <1>4, <1>5, ElemsHeadTail, OrderedTail

-----------------------------------------------------------------------------
\* What the tasks queue.
LEMMA AppendEffect ==
  ASSUME TypeOK, TryPublish \/ QueueOffline \/ QueueDisconnect \/ QueueOnline
  PROVE  /\ UNCHANGED <<network, brokerState, ev, connects, qos, losses>>
         /\ \/ /\ TryPublish \/ QueueOnline
               /\ UNCHANGED <<queue, accepted, quiet>>
            \/ /\ TryPublish /\ queue' = Append(queue, BatchRequest(taken + 1))
               /\ taken + 1 \in Batches /\ accepted' = accepted \cup {taken + 1}
            \/ QueueOffline /\ queue' = Append(queue, Offline) /\ accepted' = accepted
            \/ QueueDisconnect /\ queue' = Append(queue, Disconnect) /\ accepted' = accepted
            \/ /\ QueueOnline /\ ev # "stopped" /\ onlines # 0
               /\ queue' = Append(queue, Online) /\ accepted' = accepted
<1>1. taken \in Nat /\ MaxBatches \in Nat /\ onlines \in Nat
  BY PublisherAssumption DEF TypeOK
<1>2. CASE TryPublish
  BY <1>1, <1>2 DEF TryPublish, Batches
<1>3. CASE QueueOffline
  BY <1>3 DEF QueueOffline
<1>4. CASE QueueDisconnect
  BY <1>4 DEF QueueDisconnect
<1>5. CASE QueueOnline
  BY <1>1, <1>5 DEF QueueOnline
<1> QED BY <1>2, <1>3, <1>4, <1>5

\* Nothing of the farewell is on its way before it is queued.
LEMMA FarewellStep ==
  ASSUME TypeOK, ConnectionInv, FarewellInv, WindowInv, [Next]_vars
  PROVE  FarewellInv'
<1> USE DEF FarewellInv
<1>1. CASE InputClosed \/ PublisherReturns \/ ConnectFails \/ PublishWill \/ Ended \/ UNCHANGED vars
  <2>1. UNCHANGED <<ev, queue, quiet, onlines, network>>
    BY <1>1 DEF InputClosed, PublisherReturns, ConnectFails, PublishWill, Ended, vars
  <2>2. pub' = pub \/ (pub = "recv" /\ pub' = "offline") \/ pub' = "done"
    BY <1>1 DEF InputClosed, PublisherReturns, ConnectFails, PublishWill, Ended, vars
  <2>3. Stream' = Stream /\ Unacked' = Unacked /\ Upcoming' = Upcoming
    BY <2>1, StillEffect
  <2> QED BY <2>1, <2>2, <2>3
<1>2. CASE \E s \in BOOLEAN : ConnAck(s)
  <2>1. ev' = "up" /\ ~quiet' /\ pub' = pub
    BY <1>2, Zenon DEF ConnAck
  <2> QED BY <1>2, <2>1, AnswerEffect
<1>3. CASE ConnectionLost
  <2>1. ev' = "down" /\ UNCHANGED <<pub, quiet, onlines>>
    BY <1>3 DEF ConnectionLost
  <2>2. Disconnect \notin Elems(inflight)
    BY RequestFacts DEF TypeOK, Elems
  <2> QED BY <1>3, <2>1, <2>2, LossEffect, StreamFacts
<1>4. CASE LostAtStop
  <2>1. ev = "stopped" /\ UNCHANGED <<pub, quiet, onlines>>
    BY <1>4 DEF LostAtStop
  <2> QED BY <2>1
<1>5. CASE SendNext \/ SendDisconnect
  BY <1>5, SendEffect DEF SendNext, SendDisconnect
<1>6. CASE Deliver
  <2>1. UNCHANGED <<pub, ev, quiet, onlines, pending, inflight, queue>> /\ wire # <<>> /\ wire' = Tail(wire)
    BY <1>6 DEF Deliver
  <2>2. Elems(Stream') \subseteq Elems(Stream) /\ Unacked' = Unacked /\ Upcoming' = Upcoming
    BY <2>1, Received
  <2> QED BY <2>1, <2>2
<1>7. CASE Ack
  <2>1. UNCHANGED <<pub, ev, quiet, onlines>>
    BY <1>7 DEF Ack
  <2> QED BY <1>7, <2>1, AckEffect
<1>8. CASE TryPublish \/ QueueOffline \/ QueueDisconnect \/ QueueOnline
  <2>0. ev' = ev /\ UNCHANGED network
    BY <1>8, AppendEffect
  <2>1. CASE UNCHANGED <<queue, quiet>> /\ (TryPublish \/ QueueOnline)
    <3>1. Stream' = Stream /\ Unacked' = Unacked /\ Upcoming' = Upcoming /\ pub' = pub
      BY <2>0, <2>1, StillEffect DEF TryPublish, QueueOnline
    <3>2. quiet => onlines' = 0
      BY <2>1 DEF TryPublish, QueueOnline
    <3> QED BY <2>0, <2>1, <3>1, <3>2
  <2>2. CASE TryPublish /\ queue' = Append(queue, BatchRequest(taken + 1)) /\ taken + 1 \in Batches
    <3> DEFINE r == BatchRequest(taken + 1)
    <3>1. r \in Requests /\ r # Offline /\ r # Disconnect
      BY <2>2, RequestFacts
    <3>2. /\ Elems(Stream') = Elems(Stream) \cup {r} /\ Elems(Unacked') = Elems(Unacked) \cup {r}
          /\ Elems(Upcoming') = Elems(Upcoming) \cup {r}
      BY <2>0, <2>2, <3>1, Queued
    <3>3. UNCHANGED <<pub, quiet, onlines>>
      BY <2>2 DEF TryPublish
    <3> QED BY <2>0, <3>1, <3>2, <3>3
  <2>3. CASE QueueOffline
    <3>1. pub = "offline" /\ pub' = "disconnect" /\ quiet' = (onlines = 0) /\ onlines' = onlines
          /\ queue' = Append(queue, Offline)
      BY <2>3 DEF QueueOffline
    <3>2. Elems(Upcoming') = Elems(Upcoming) \cup {Offline}
      BY <2>0, <3>1, Queued, RequestFacts
    <3>3. quiet' => onlines' = 0
      BY <3>1, Zenon
    <3> QED BY <2>0, <3>1, <3>2, <3>3, RequestFacts
  <2>4. CASE QueueDisconnect
    <3>1. pub' = "await" /\ UNCHANGED <<quiet, onlines>>
      BY <2>4 DEF QueueDisconnect
    <3> QED BY <3>1
  <2>5. CASE QueueOnline /\ queue' = Append(queue, Online) /\ onlines # 0
    <3>1. /\ Elems(Stream') = Elems(Stream) \cup {Online} /\ Elems(Unacked') = Elems(Unacked) \cup {Online}
          /\ Elems(Upcoming') = Elems(Upcoming) \cup {Online}
      BY <2>0, <2>5, Queued, RequestFacts
    <3>2. UNCHANGED <<pub, quiet>> /\ ~quiet
      BY <2>5 DEF QueueOnline
    <3> QED BY <2>0, <3>1, <3>2, RequestFacts
  <2> QED BY <1>8, AppendEffect, <2>1, <2>2, <2>3, <2>4, <2>5
<1> QED BY <1>1, <1>2, <1>3, <1>4, <1>5, <1>6, <1>7, <1>8 DEF Next


\* While run_publisher has not queued the DISCONNECT none is on its way.
LEMMA NoFarewellYet ==
  ASSUME TypeOK, ConnectionInv, FarewellInv, pub \in {"recv", "offline", "disconnect"}
  PROVE  Disconnect \notin Elems(Stream) /\ Disconnect \notin Elems(Unacked)
<1>1. Disconnect \notin Elems(Upcoming) /\ Disconnect \notin Elems(wire)
  BY DEF FarewellInv, ConnectionInv
<1>2. Disconnect \notin Elems(inflight)
  BY RequestFacts DEF TypeOK, Elems
<1> QED BY <1>1, <1>2, StreamFacts

\* A request is queued behind all others without a breach of their order.
LEMMA OrderedQueued ==
  ASSUME TypeOK, ConnectionInv, FarewellInv, OrderInv, NEW r \in Requests,
         r = Online \/ pub \in {"recv", "offline", "disconnect"},
         r.kind = "batch" => r.batch = taken + 1 /\ r.batch \in accepted',
         accepted \subseteq accepted',
         queue' = Append(queue, r), UNCHANGED <<network, losses>>
  PROVE  /\ Known(Stream)' /\ Known(Unacked)' /\ KnownSet(forgotten)'
         /\ ~jumbled' => /\ Ordered(Stream') /\ Ordered(Unacked')
                         /\ Fresh(Stream)' /\ Fresh(Unacked)'
<1>1. r = Online \/ (Disconnect \notin Elems(Stream) /\ Disconnect \notin Elems(Unacked))
  BY NoFarewellYet
<1>2. accepted \subseteq 1 .. taken /\ taken \in Nat
  BY DEF OrderInv, TypeOK
<1>3. ASSUME NEW S, KnownSet(S), r.kind = "batch", NEW e \in S, e.kind = "batch"
      PROVE  e.batch < r.batch /\ e.batch \in Nat
  <2>1. e.batch \in accepted
    BY <1>3 DEF KnownSet
  <2>2. r.batch = taken + 1
    BY <1>3
  <2> DEFINE b == e.batch
  <2>3. b \in 1 .. taken
    BY <1>2, <2>1
  <2> HIDE DEF b
  <2>4. b < taken + 1 /\ b \in Nat
    BY <1>2, <2>3
  <2> QED BY <2>2, <2>4, Zenon DEF b
<1>4. Known(Stream) /\ Known(Unacked) /\ KnownSet(forgotten)
  BY DEF OrderInv
<1>5. Stream \in Seq(Requests) /\ Unacked \in Seq(Requests)
  BY StreamFacts
<1>6. /\ Stream' = Append(Stream, r) /\ Unacked' = Append(Unacked, r)
      /\ Elems(Stream') = Elems(Stream) \cup {r} /\ Elems(Unacked') = Elems(Unacked) \cup {r}
      /\ forgotten' = forgotten /\ jumbled' = jumbled
  BY Queued DEF losses
<1>7. Known(Stream)' /\ Known(Unacked)' /\ KnownSet(forgotten)'
  BY <1>4, <1>6 DEF Known, KnownSet
<1>8. ASSUME ~jumbled'
      PROVE  Ordered(Stream') /\ Ordered(Unacked') /\ Fresh(Stream)' /\ Fresh(Unacked)'
  <2>1. Ordered(Stream) /\ Ordered(Unacked) /\ Fresh(Stream) /\ Fresh(Unacked)
    BY <1>6, <1>8 DEF OrderInv
  <2>2. Ordered(Append(Stream, r)) /\ Ordered(Append(Unacked, r))
    BY <1>1, <1>3, <1>4, <1>5, <2>1, OrderedAppend DEF Known
  <2>3. r.kind = "batch" => r \notin forgotten
    <3>1. SUFFICES ASSUME r.kind = "batch", r \in forgotten PROVE FALSE
      OBVIOUS
    <3>2. r.batch < r.batch /\ r.batch \in Nat
      BY <1>3, <1>4, <3>1
    <3> QED BY <3>2
  <2>4. Fresh(Stream)' /\ Fresh(Unacked)'
    BY <1>6, <2>1, <2>3 DEF Fresh
  <2> QED BY <1>6, <2>2, <2>4
<1> QED BY <1>7, <1>8

\* The batches keep their order, and all come from the queue.
LEMMA OrderStep ==
  ASSUME TypeOK, ConnectionInv, FarewellInv, OrderInv, WindowInv, [Next]_vars
  PROVE  OrderInv'
<1>1. /\ accepted \subseteq 1 .. taken /\ Elems(delivered) \subseteq accepted
      /\ Known(Stream) /\ Known(Unacked) /\ KnownSet(forgotten) /\ taken \in Nat
      /\ ~jumbled => /\ Ordered(Stream) /\ Ordered(Unacked)
                     /\ Fresh(Stream) /\ Fresh(Unacked)
  BY DEF OrderInv, TypeOK
<1>2. ASSUME UNCHANGED <<accepted, taken, delivered, losses>>,
             Elems(Stream') \subseteq Elems(Stream), Elems(Unacked') \subseteq Elems(Unacked),
             Ordered(Stream) => Ordered(Stream'), Ordered(Unacked) => Ordered(Unacked')
      PROVE  OrderInv'
  <2>1. Known(Stream)' /\ Known(Unacked)' /\ KnownSet(forgotten)'
    BY <1>1, <1>2 DEF Known, KnownSet, losses
  <2>2. Fresh(Stream) /\ Fresh(Unacked) => Fresh(Stream)' /\ Fresh(Unacked)'
    BY <1>2 DEF Fresh, losses
  <2> QED BY <1>1, <1>2, <2>1, <2>2 DEF OrderInv, losses
<1>3. CASE InputClosed \/ PublisherReturns \/ ConnectFails \/ PublishWill \/ Ended \/ UNCHANGED vars
  <2>1. UNCHANGED <<queue, network, accepted, taken, delivered, losses>>
    BY <1>3 DEF InputClosed, PublisherReturns, ConnectFails, PublishWill, Ended, vars, brokerState
  <2>2. Stream' = Stream /\ Unacked' = Unacked
    BY <2>1, StillEffect
  <2> QED BY <1>2, <2>1, <2>2
<1>4. CASE \E s \in BOOLEAN : ConnAck(s)
  <2>1. PICK s \in BOOLEAN : ConnAck(s)
    BY <1>4
  <2>2. /\ Elems(Stream') \subseteq Elems(Stream) /\ Elems(Unacked') \subseteq Elems(Unacked)
        /\ Ordered(Stream) => Ordered(Stream') /\ Ordered(Unacked')
        /\ Ordered(Stream) /\ Fresh(Stream) => Fresh(Stream)' /\ Fresh(Unacked)'
        /\ forgotten' \subseteq forgotten \cup Elems(Stream)
        /\ UNCHANGED <<taken, delivered, accepted, jumbled>>
    BY <2>1, AnswerEffect
  <2>3. Known(Stream)' /\ Known(Unacked)' /\ KnownSet(forgotten)'
    BY <1>1, <2>2 DEF Known, KnownSet
  <2> QED BY <1>1, <2>2, <2>3 DEF OrderInv
<1>5. CASE ConnectionLost
  <2>1. UNCHANGED <<accepted, taken, delivered, forgotten>>
    BY <1>5 DEF ConnectionLost
  <2>2. /\ Elems(Stream') = Elems(Unacked) /\ Elems(Unacked') = Elems(Unacked)
        /\ ~jumbled' => ~jumbled /\ Stream' = Unacked /\ Unacked' = Unacked
    BY <1>5, LossEffect
  <2>3. Known(Stream)' /\ Known(Unacked)' /\ KnownSet(forgotten)'
    BY <1>1, <2>1, <2>2 DEF Known, KnownSet
  <2>4. Fresh(Unacked) => Fresh(Stream)' /\ Fresh(Unacked)'
    BY <2>1, <2>2 DEF Fresh
  <2> QED BY <1>1, <2>1, <2>2, <2>3, <2>4 DEF OrderInv
<1>6. CASE LostAtStop
  <2>1. UNCHANGED <<accepted, taken, delivered, losses>>
    BY <1>6 DEF LostAtStop
  <2> QED BY <1>2, <1>6, <2>1, StopEffect
<1>7. CASE SendNext \/ SendDisconnect
  <2>1. UNCHANGED <<accepted, taken, delivered, losses>>
    BY <1>7 DEF SendNext, SendDisconnect, brokerState
  <2> QED BY <1>2, <1>7, <2>1, SendEffect
<1>8. CASE Deliver
  <2>1. UNCHANGED <<accepted, taken, queue, pending, inflight, losses>> /\ wire # <<>> /\ wire' = Tail(wire)
        /\ (delivered' = delivered
            \/ (Head(wire).kind = "batch" /\ delivered' = Append(delivered, Head(wire).batch)))
    BY <1>8 DEF Deliver
  <2>2. /\ Stream # <<>> /\ Stream' = Tail(Stream) /\ Unacked' = Unacked /\ Head(wire) \in Requests
        /\ Elems(Stream) = {Head(wire)} \cup Elems(Stream')
    BY <2>1, Received
  <2>3. /\ Known(Stream)' /\ Known(Unacked)' /\ KnownSet(forgotten)'
        /\ Fresh(Stream) /\ Fresh(Unacked) => Fresh(Stream)' /\ Fresh(Unacked)'
    BY <1>1, <2>1, <2>2 DEF Known, KnownSet, Fresh, losses
  <2>4. Ordered(Stream) => Ordered(Stream')
    BY <2>2, StreamFacts, OrderedTail
  <2>5. Head(wire).kind = "batch" => Head(wire).batch \in accepted /\ Head(wire).batch \in Batches
    BY <1>1, <2>2, RequestFacts DEF Known, KnownSet
  <2>6. Elems(delivered') \subseteq accepted
    <3>1. delivered \in Seq(Batches)
      BY DEF TypeOK
    <3>2. CASE delivered' = delivered
      BY <1>1, <3>2
    <3>3. CASE Head(wire).kind = "batch" /\ delivered' = Append(delivered, Head(wire).batch)
      BY <1>1, <2>5, <3>1, <3>3, ElemsAppend
    <3> QED BY <2>1, <3>2, <3>3
  <2> QED BY <1>1, <2>1, <2>2, <2>3, <2>4, <2>6 DEF OrderInv, losses
<1>9. CASE Ack
  <2>1. UNCHANGED <<accepted, taken, delivered, losses>>
    BY <1>9 DEF Ack, brokerState
  <2> QED BY <1>2, <1>9, <2>1, AckEffect
<1>10. CASE TryPublish \/ QueueOffline \/ QueueDisconnect \/ QueueOnline
  <2>0. UNCHANGED <<network, delivered, losses>>
    BY <1>10, AppendEffect DEF brokerState
  <2>1. taken' \in {taken, taken + 1} /\ (~TryPublish => taken' = taken)
    BY <1>10, Zenon DEF TryPublish, QueueOffline, QueueDisconnect, QueueOnline
  <2>2. CASE UNCHANGED <<queue, accepted>>
    <3>1. Stream' = Stream /\ Unacked' = Unacked
      BY <2>0, <2>2, StillEffect
    <3>2. /\ Known(Stream)' /\ Known(Unacked)' /\ KnownSet(forgotten)'
          /\ Fresh(Stream) /\ Fresh(Unacked) => Fresh(Stream)' /\ Fresh(Unacked)'
      BY <1>1, <2>0, <2>2, <3>1 DEF Known, KnownSet, Fresh, losses
    <3>3. accepted' \subseteq 1 .. taken'
      BY <1>1, <2>1, <2>2
    <3> QED BY <1>1, <2>0, <2>2, <3>1, <3>2, <3>3 DEF OrderInv, losses
  <2>3. CASE /\ TryPublish /\ queue' = Append(queue, BatchRequest(taken + 1))
             /\ taken + 1 \in Batches /\ accepted' = accepted \cup {taken + 1}
    <3> DEFINE r == BatchRequest(taken + 1)
    <3>1. r \in Requests /\ r.batch = taken + 1 /\ pub = "recv" /\ taken' = taken + 1
      BY <2>3, RequestFacts DEF TryPublish
    <3>2. accepted \subseteq accepted' /\ taken + 1 \in accepted'
      BY <2>3
    <3>3. /\ Known(Stream)' /\ Known(Unacked)' /\ KnownSet(forgotten)'
          /\ ~jumbled' => /\ Ordered(Stream') /\ Ordered(Unacked')
                          /\ Fresh(Stream)' /\ Fresh(Unacked)'
      BY <2>0, <2>3, <3>1, <3>2, OrderedQueued
    <3>4. accepted' \subseteq 1 .. taken'
      BY <1>1, <2>3, <3>1
    <3>5. Elems(delivered') \subseteq accepted'
      BY <1>1, <2>0, <3>2
    <3> QED BY <3>3, <3>4, <3>5 DEF OrderInv
  <2>4. CASE \E r \in {Online, Offline, Disconnect} :
                /\ queue' = Append(queue, r) /\ accepted' = accepted /\ ~TryPublish
                /\ r = Online \/ pub \in {"recv", "offline", "disconnect"}
    <3>1. PICK r \in {Online, Offline, Disconnect} :
                /\ queue' = Append(queue, r) /\ accepted' = accepted /\ ~TryPublish
                /\ r = Online \/ pub \in {"recv", "offline", "disconnect"}
      BY <2>4
    <3>2. r \in Requests /\ r.kind # "batch"
      BY RequestFacts
    <3>3. /\ Known(Stream)' /\ Known(Unacked)' /\ KnownSet(forgotten)'
          /\ ~jumbled' => /\ Ordered(Stream') /\ Ordered(Unacked')
                          /\ Fresh(Stream)' /\ Fresh(Unacked)'
      BY <2>0, <3>1, <3>2, OrderedQueued
    <3> QED BY <1>1, <2>0, <2>1, <3>1, <3>3 DEF OrderInv
  <2>5. /\ TryPublish => pub = "recv"
        /\ QueueOffline => ~TryPublish /\ pub = "offline"
        /\ QueueDisconnect => ~TryPublish /\ pub = "disconnect"
    BY DEF TryPublish, QueueOffline, QueueDisconnect
  <2>6. QueueOnline => ~TryPublish
    <3>1. onlines \in Nat
      BY DEF TypeOK
    <3> QED BY <3>1 DEF QueueOnline, TryPublish
  <2> QED BY <1>10, AppendEffect, <2>2, <2>3, <2>4, <2>5, <2>6
<1> QED BY <1>3, <1>4, <1>5, <1>6, <1>7, <1>8, <1>9, <1>10 DEF Next


-----------------------------------------------------------------------------
\* A publish put on the wire is the youngest in flight.
LEMMA WindowSend ==
  ASSUME TypeOK, WindowInv, ev = "up", NEW r \in Requests, Send(r), qos' = qos
  PROVE  \E c \in [0 .. Len(wire') -> Nat] : Matches(c)'
<1>1. PICK c \in [0 .. Len(wire) -> Nat] : Matches(c)
  BY DEF WindowInv
<1> DEFINE n == Len(wire)
           k == Len(inflight)
<1>2. n \in Nat /\ k \in Nat /\ acks \in Nat /\ acks' = acks
      /\ wire \in Seq(Requests) /\ inflight \in Seq(Requests)
  BY StreamFacts DEF TypeOK, Send
<1>3. /\ c[0] = acks /\ c[n] = k /\ \A i, j \in 0 .. n : i < j => c[i] <= c[j]
      /\ \A i \in 1 .. n : /\ Kept(wire[i]) => c[i] = c[i - 1] + 1 /\ wire[i] = inflight[c[i]]
                           /\ ~Kept(wire[i]) => c[i] = c[i - 1]
      /\ \A i \in 0 .. n : c[i] \in Nat
  BY <1>1 DEF Matches
<1>4. wire' = Append(wire, r) /\ inflight' = IF Kept(r) THEN Append(inflight, r) ELSE inflight
  BY DEF Send
<1>5. /\ Len(wire') = n + 1 /\ wire'[n + 1] = r /\ \A i \in 1 .. n : wire'[i] = wire[i]
  BY <1>2, <1>4
<1>6. /\ Kept(r) => Len(inflight') = k + 1 /\ inflight'[k + 1] = r
      /\ ~Kept(r) => Len(inflight') = k
      /\ \A i \in 1 .. k : inflight'[i] = inflight[i]
  <2>1. CASE Kept(r)
    BY <1>2, <1>4, <2>1
  <2>2. CASE ~Kept(r)
    BY <1>4, <2>2
  <2> QED BY <2>1, <2>2
<1> HIDE DEF n, k
<1>7. PICK d \in [0 .. n + 1 -> Nat] : /\ d[n + 1] = Len(inflight') /\ d[0] = acks
                                       /\ \A i \in 0 .. n : d[i] = c[i]
  <2> DEFINE e == [i \in 0 .. n + 1 |-> IF i <= n THEN c[i] ELSE Len(inflight')]
  <2>1. /\ e \in [0 .. n + 1 -> Nat] /\ e[n + 1] = Len(inflight') /\ e[0] = acks
        /\ \A i \in 0 .. n : e[i] = c[i]
    BY <1>2, <1>3, <1>6
  <2> HIDE DEF e
  <2> QED BY <2>1
<1>8. ASSUME NEW i \in 0 .. n + 1, NEW j \in 0 .. n + 1, i < j
      PROVE  d[i] <= d[j]
  <2>1. i \in 0 .. n /\ d[i] = c[i]
    BY <1>2, <1>7, <1>8
  <2>2. CASE j = n + 1
    <3>1. c[i] <= k
      <4>1. i = n \/ i < n
        BY <1>2, <2>1
      <4>2. n \in 0 .. n
        BY <1>2
      <4> QED BY <1>2, <1>3, <2>1, <4>1, <4>2
    <3>2. Len(inflight') \in {k, k + 1}
      BY <1>6
    <3>3. c[i] \in Nat
      BY <1>3, <2>1
    <3> QED BY <1>2, <1>7, <2>1, <2>2, <3>1, <3>2, <3>3
  <2>3. CASE j # n + 1
    <3>1. j \in 0 .. n /\ d[j] = c[j]
      BY <1>2, <1>7, <2>3
    <3> QED BY <1>3, <1>8, <2>1, <3>1
  <2> QED BY <2>2, <2>3
<1>9. ASSUME NEW i \in 1 .. n + 1
      PROVE  /\ Kept(wire'[i]) => d[i] = d[i - 1] + 1 /\ wire'[i] = inflight'[d[i]]
             /\ ~Kept(wire'[i]) => d[i] = d[i - 1]
  <2>1. i - 1 \in 0 .. n /\ d[i - 1] = c[i - 1]
    BY <1>2, <1>7
  <2>2. CASE i = n + 1
    <3>1. wire'[i] = r /\ c[i - 1] = k /\ d[i] = Len(inflight')
      BY <1>2, <1>3, <1>5, <1>7, <2>2
    <3> QED BY <1>6, <2>1, <3>1
  <2>3. CASE i # n + 1
    <3>1. i \in 1 .. n /\ d[i] = c[i] /\ wire'[i] = wire[i]
      BY <1>2, <1>5, <1>7, <2>3
    <3>2. Kept(wire[i]) => c[i] \in 1 .. k
      <4> SUFFICES ASSUME Kept(wire[i]) PROVE c[i] \in 1 .. k
        OBVIOUS
      <4>1. c[i] = c[i - 1] + 1 /\ c[i - 1] \in Nat /\ c[i] \in Nat
        BY <1>3, <2>1, <3>1
      <4>2. c[i] <= k
        <5>1. i = n \/ i < n
          BY <1>2, <3>1
        <5>2. n \in 0 .. n /\ i \in 0 .. n
          BY <1>2, <3>1
        <5> QED BY <1>2, <1>3, <5>1, <5>2
      <4> QED BY <1>2, <4>1, <4>2
    <3> QED BY <1>3, <1>6, <2>1, <3>1, <3>2
  <2> QED BY <2>2, <2>3
<1>10. Matches(d)'
  BY <1>2, <1>5, <1>7, <1>8, <1>9 DEF Matches, Kept
<1> QED BY <1>5, <1>7, <1>10


\* A publish that reaches the broker is acknowledged if it is kept for that.
LEMMA WindowDeliver ==
  ASSUME TypeOK, ConnectionInv, WindowInv, ev = "up", Deliver
  PROVE  \E c \in [0 .. Len(wire') -> Nat] : Matches(c)'
<1>1. PICK c \in [0 .. Len(wire) -> Nat] : Matches(c)
  BY DEF WindowInv
<1> DEFINE n == Len(wire)
<1>2. /\ wire # <<>> /\ wire' = Tail(wire) /\ inflight' = inflight /\ qos' = qos
      /\ acks' = IF Head(wire) # Disconnect /\ Kept(Head(wire)) THEN acks + 1 ELSE acks
  BY DEF Deliver
<1>3. n \in Nat \ {0} /\ wire \in Seq(Requests) /\ acks \in Nat
  BY <1>2, StreamFacts DEF TypeOK
<1>4. Head(wire) = wire[1] /\ Len(wire') = n - 1 /\ \A i \in 1 .. n - 1 : wire'[i] = wire[i + 1]
  BY <1>2, <1>3
<1>5. Head(wire) # Disconnect
  <2>1. Head(wire) \in Elems(wire)
    BY <1>2, <1>3, ElemsHeadTail
  <2> QED BY <2>1 DEF ConnectionInv
<1>6. /\ c[0] = acks /\ c[n] = Len(inflight) /\ \A i, j \in 0 .. n : i < j => c[i] <= c[j]
      /\ \A i \in 1 .. n : /\ Kept(wire[i]) => c[i] = c[i - 1] + 1 /\ wire[i] = inflight[c[i]]
                           /\ ~Kept(wire[i]) => c[i] = c[i - 1]
      /\ \A i \in 0 .. n : c[i] \in Nat
  BY <1>1 DEF Matches
<1> HIDE DEF n
<1>7. acks' = c[1]
  <2>1. 1 \in 1 .. n /\ 1 - 1 = 0
    BY <1>3
  <2>2. Kept(wire[1]) => c[1] = acks + 1
    BY <1>6, <2>1
  <2>3. ~Kept(wire[1]) => c[1] = acks
    BY <1>6, <2>1
  <2> QED BY <1>2, <1>4, <1>5, <2>2, <2>3
<1>8. PICK d \in [0 .. n - 1 -> Nat] : \A i \in 0 .. n - 1 : d[i] = c[i + 1]
  <2> DEFINE e == [i \in 0 .. n - 1 |-> c[i + 1]]
  <2>1. e \in [0 .. n - 1 -> Nat] /\ \A i \in 0 .. n - 1 : e[i] = c[i + 1]
    BY <1>3, <1>6
  <2> HIDE DEF e
  <2> QED BY <2>1
<1>9. d[0] = acks' /\ d[n - 1] = Len(inflight)
  <2>1. 0 \in 0 .. n - 1 /\ n - 1 \in 0 .. n - 1 /\ 0 + 1 = 1 /\ (n - 1) + 1 = n
    BY <1>3
  <2>2. d[0] = c[0 + 1] /\ d[n - 1] = c[(n - 1) + 1]
    BY <1>8, <2>1
  <2> QED BY <1>6, <1>7, <2>1, <2>2
<1>10. ASSUME NEW i \in 0 .. n - 1, NEW j \in 0 .. n - 1, i < j PROVE d[i] <= d[j]
  <2>1. i + 1 \in 0 .. n /\ j + 1 \in 0 .. n /\ i + 1 < j + 1
    BY <1>3, <1>10
  <2>2. c[i + 1] <= c[j + 1]
    BY <1>6, <2>1
  <2> QED BY <1>8, <2>2
<1>11. ASSUME NEW i \in 1 .. n - 1
       PROVE  /\ Kept(wire'[i]) => d[i] = d[i - 1] + 1 /\ wire'[i] = inflight[d[i]]
              /\ ~Kept(wire'[i]) => d[i] = d[i - 1]
  <2>0. /\ i + 1 \in 1 .. n /\ (i + 1) - 1 = i /\ i \in 0 .. n - 1 /\ i - 1 \in 0 .. n - 1
        /\ (i - 1) + 1 = i
    BY <1>3
  <2>1. d[i] = c[i + 1] /\ d[i - 1] = c[(i - 1) + 1] /\ wire'[i] = wire[i + 1]
    BY <1>4, <1>8, <2>0
  <2> QED BY <1>6, <2>0, <2>1
<1>12. Matches(d)'
  BY <1>2, <1>4, <1>9, <1>10, <1>11 DEF Matches, Kept
<1> QED BY <1>4, <1>8, <1>12

\* An acknowledgement that arrives is that of the oldest in flight.
LEMMA WindowAck ==
  ASSUME TypeOK, WindowInv, Ack
  PROVE  \E c \in [0 .. Len(wire') -> Nat] : Matches(c)'
<1>1. /\ ev = "up" /\ acks > 0 /\ acks' = acks - 1 /\ inflight' = Tail(inflight)
      /\ wire' = wire /\ qos' = qos
  BY DEF Ack
<1>2. PICK c \in [0 .. Len(wire) -> Nat] : Matches(c)
  BY <1>1 DEF WindowInv
<1> DEFINE n == Len(wire)
           k == Len(inflight)
<1>3. n \in Nat /\ acks \in Nat \ {0} /\ inflight \in Seq(Requests) /\ acks <= k
  BY <1>1, StreamFacts, AcksInFlight DEF TypeOK
<1>4. /\ c[0] = acks /\ c[n] = k /\ \A i, j \in 0 .. n : i < j => c[i] <= c[j]
      /\ \A i \in 1 .. n : /\ Kept(wire[i]) => c[i] = c[i - 1] + 1 /\ wire[i] = inflight[c[i]]
                           /\ ~Kept(wire[i]) => c[i] = c[i - 1]
      /\ \A i \in 0 .. n : c[i] \in Nat
  BY <1>2 DEF Matches
<1>5. k \in Nat /\ Len(inflight') = k - 1 /\ \A i \in 1 .. k - 1 : inflight'[i] = inflight[i + 1]
  BY <1>1, <1>3
<1> HIDE DEF n, k
<1>6. ASSUME NEW i \in 0 .. n PROVE acks <= c[i] /\ c[i] <= k /\ c[i] \in Nat
  <2>1. (i = 0 \/ 0 < i) /\ (i = n \/ i < n) /\ 0 \in 0 .. n /\ n \in 0 .. n
    BY <1>3
  <2>2. acks <= c[i]
    BY <1>3, <1>4, <2>1
  <2>3. c[i] <= k
    BY <1>4, <1>5, <2>1
  <2> QED BY <1>4, <2>2, <2>3
<1>7. PICK d \in [0 .. n -> Nat] : \A i \in 0 .. n : d[i] = c[i] - 1
  <2> DEFINE e == [i \in 0 .. n |-> c[i] - 1]
  <2>1. \A i \in 0 .. n : c[i] - 1 \in Nat
    BY <1>3, <1>6
  <2>2. e \in [0 .. n -> Nat] /\ \A i \in 0 .. n : e[i] = c[i] - 1
    BY <2>1
  <2> HIDE DEF e
  <2> QED BY <2>2
<1>8. d[0] = acks' /\ d[n] = Len(inflight')
  <2>1. 0 \in 0 .. n /\ n \in 0 .. n
    BY <1>3
  <2>2. d[0] = c[0] - 1 /\ d[n] = c[n] - 1
    BY <1>7, <2>1
  <2> QED BY <1>1, <1>4, <1>5, <2>2
<1>9. \A i, j \in 0 .. n : i < j => d[i] <= d[j]
  BY <1>4, <1>7
<1>10. ASSUME NEW i \in 1 .. n
       PROVE  /\ Kept(wire[i]) => d[i] = d[i - 1] + 1 /\ wire[i] = inflight'[d[i]]
              /\ ~Kept(wire[i]) => d[i] = d[i - 1]
  <2>0. i \in 0 .. n /\ i - 1 \in 0 .. n
    BY <1>3
  <2>1. /\ d[i] = c[i] - 1 /\ d[i - 1] = c[i - 1] - 1
        /\ c[i] \in Nat /\ c[i - 1] \in Nat /\ acks <= c[i - 1] /\ c[i] <= k
    BY <1>6, <1>7, <2>0
  <2>2. ASSUME Kept(wire[i]) PROVE d[i] = d[i - 1] + 1 /\ wire[i] = inflight'[d[i]]
    <3>1. c[i] = c[i - 1] + 1 /\ wire[i] = inflight[c[i]]
      BY <1>4, <2>2
    <3>2. d[i] \in 1 .. k - 1 /\ d[i] + 1 = c[i] /\ d[i] = d[i - 1] + 1
      <4> DEFINE a == c[i]
                 b == c[i - 1]
      <4>1. a = b + 1 /\ d[i] = a - 1 /\ d[i - 1] = b - 1 /\ b \in Nat /\ acks <= b /\ a <= k
        BY <2>1, <3>1
      <4> HIDE DEF a, b
      <4>2. a - 1 \in 1 .. k - 1 /\ (a - 1) + 1 = a /\ a - 1 = (b - 1) + 1
        BY <1>3, <1>5, <4>1
      <4> QED BY <4>1, <4>2 DEF a
    <3> QED BY <1>5, <3>1, <3>2
  <2>3. ~Kept(wire[i]) => d[i] = d[i - 1]
    BY <1>4, <2>1
  <2> QED BY <2>2, <2>3
<1>11. Matches(d)'
  BY <1>1, <1>8, <1>9, <1>10 DEF Matches, Kept, n
<1> QED BY <1>1, <1>7, <1>11 DEF n

\* What waits for an acknowledgement stays accounted for.
LEMMA WindowStep ==
  ASSUME TypeOK, ConnectionInv, WindowInv, [Next]_vars
  PROVE  WindowInv'
<1> SUFFICES ASSUME ev' = "up" PROVE \E c \in [0 .. Len(wire') -> Nat] : Matches(c)'
  BY DEF WindowInv
<1>1. CASE \/ TryPublish \/ InputClosed \/ QueueOffline \/ QueueDisconnect \/ PublisherReturns
           \/ QueueOnline \/ ConnectFails \/ PublishWill \/ Ended \/ UNCHANGED vars
  <2>1. UNCHANGED <<ev, wire, inflight, acks, qos>>
    BY <1>1 DEF TryPublish, InputClosed, QueueOffline, QueueDisconnect, PublisherReturns,
                QueueOnline, ConnectFails, PublishWill, Ended, vars, network
  <2>2. PICK c \in [0 .. Len(wire) -> Nat] : Matches(c)
    BY <2>1 DEF WindowInv
  <2>3. Matches(c)'
    BY <2>1, <2>2 DEF Matches, Kept
  <2> QED BY <2>1, <2>2, <2>3
<1>2. CASE \E s \in BOOLEAN : ConnAck(s)
  <2>1. wire' = <<>> /\ inflight' = <<>> /\ acks' = 0
    BY <1>2 DEF ConnAck, ConnectionInv
  <2> DEFINE c == [i \in 0 .. 0 |-> 0]
  <2>2. c \in [0 .. 0 -> Nat] /\ c[0] = 0
    OBVIOUS
  <2>3. Len(wire') = 0 /\ Len(inflight') = 0
    BY <2>1
  <2> HIDE DEF c
  <2>4. PICK d \in [0 .. 0 -> Nat] : d[0] = 0
    BY <2>2
  <2>5. Matches(d)'
    BY <2>1, <2>3, <2>4 DEF Matches
  <2> QED BY <2>3, <2>4, <2>5
<1>3. CASE ConnectionLost \/ LostAtStop \/ SendDisconnect
  BY <1>3 DEF ConnectionLost, LostAtStop, SendDisconnect
<1>4. CASE SendNext
  <2>1. Head(Upcoming) \in Requests /\ Send(Head(Upcoming)) /\ ev = "up" /\ qos' = qos
    BY <1>4, Taken DEF SendNext
  <2> QED BY <2>1, WindowSend
<1>5. CASE Deliver
  <2>1. ev = "up"
    BY <1>5 DEF Deliver
  <2> QED BY <1>5, <2>1, WindowDeliver
<1>6. CASE Ack
  BY <1>6, WindowAck
<1> QED BY <1>1, <1>2, <1>3, <1>4, <1>5, <1>6 DEF Next


-----------------------------------------------------------------------------
\* What comes after the first request of an ordered sequence.
LEMMA HeadFirst ==
  ASSUME NEW s \in Seq(Requests), s # <<>>, Ordered(s), NEW r \in Elems(Tail(s))
  PROVE  /\ Head(s) = Disconnect => r = Online
         /\ Head(s).kind = "batch" /\ r.kind = "batch" => Head(s).batch < r.batch
<1>1. /\ Len(s) \in Nat \ {0} /\ DOMAIN s = 1 .. Len(s) /\ DOMAIN Tail(s) = 1 .. Len(s) - 1
      /\ Head(s) = s[1] /\ \A i \in 1 .. Len(s) - 1 : Tail(s)[i] = s[i + 1]
  OBVIOUS
<1>2. PICK i \in 1 .. Len(s) - 1 : r = Tail(s)[i]
  BY <1>1 DEF Elems
<1>3. 1 \in DOMAIN s /\ i + 1 \in DOMAIN s /\ 1 < i + 1 /\ r = s[i + 1]
  BY <1>1, <1>2
<1> QED BY <1>1, <1>3 DEF Ordered

\* A packet on the wire that is kept is also in flight.
LEMMA KeptInFlight ==
  ASSUME TypeOK, WindowInv, ev = "up", NEW r \in Elems(wire), Kept(r)
  PROVE  r \in Elems(inflight)
<1>1. PICK c \in [0 .. Len(wire) -> Nat] : Matches(c)
  BY DEF WindowInv
<1> DEFINE n == Len(wire)
<1>2. n \in Nat /\ Len(inflight) \in Nat /\ DOMAIN wire = 1 .. n /\ DOMAIN inflight = 1 .. Len(inflight)
  BY DEF TypeOK
<1>3. PICK i \in 1 .. n : r = wire[i]
  BY <1>2 DEF Elems
<1>4. /\ c[n] = Len(inflight) /\ \A j, k \in 0 .. n : j < k => c[j] <= c[k]
      /\ c[i] = c[i - 1] + 1 /\ r = inflight[c[i]]
      /\ \A j \in 0 .. n : c[j] \in Nat
  BY <1>1, <1>3 DEF Matches
<1> HIDE DEF n
<1>5. i \in 0 .. n /\ i - 1 \in 0 .. n /\ n \in 0 .. n /\ (i = n \/ i < n)
  BY <1>2, <1>3
<1>6. c[i] <= Len(inflight) /\ c[i] \in Nat /\ c[i - 1] \in Nat
  BY <1>2, <1>4, <1>5
<1>7. c[i] \in 1 .. Len(inflight)
  BY <1>2, <1>4, <1>6
<1> QED BY <1>2, <1>4, <1>7 DEF Elems

\* What a delivery does to the history of the broker.
LEMMA Recorded ==
  ASSUME TypeOK, Deliver
  PROVE  /\ Elems(delivered) \subseteq Elems(delivered')
         /\ \/ delivered' = delivered
            \/ /\ Head(wire).kind = "batch" /\ Head(wire).batch \in Batches
               /\ delivered' = Append(delivered, Head(wire).batch)
               /\ Elems(delivered') = Elems(delivered) \cup {Head(wire).batch}
               /\ qos = 2 => Head(wire).batch \notin Elems(delivered)
         /\ Head(wire).kind = "batch" => Head(wire).batch \in Elems(delivered')
<1> DEFINE r == Head(wire)
           known == qos = 2 /\ \E i \in DOMAIN delivered : delivered[i] = r.batch
<1>1. wire # <<>>
      /\ delivered' = IF r.kind = "batch" /\ ~known THEN Append(delivered, r.batch) ELSE delivered
  BY DEF Deliver
<1>2. delivered \in Seq(Batches) /\ r \in Requests
  BY <1>1, StreamFacts, HeadTailProperties DEF TypeOK
<1>3. r.kind = "batch" => r.batch \in Batches
  BY <1>2, RequestFacts
<1>4. known <=> qos = 2 /\ r.batch \in Elems(delivered)
  BY DEF Elems
<1> HIDE DEF known, r
<1>5. CASE r.kind = "batch" /\ ~known
  <2>1. delivered' = Append(delivered, r.batch)
    BY <1>1, <1>5
  <2>2. Elems(delivered') = Elems(delivered) \cup {r.batch}
    BY <1>2, <1>3, <1>5, <2>1, ElemsAppend
  <2> QED BY <1>3, <1>4, <1>5, <2>1, <2>2 DEF r
<1>6. CASE ~(r.kind = "batch" /\ ~known)
  <2>1. delivered' = delivered
    BY <1>1, <1>6
  <2>2. r.kind = "batch" => r.batch \in Elems(delivered)
    BY <1>4, <1>6
  <2> QED BY <2>1, <2>2 DEF r
<1> QED BY <1>5, <1>6

\* Nothing is missing in the stream as long as it can be delivered.
LEMMA NothingMissingStep ==
  ASSUME TypeOK, ConnectionInv, FarewellInv, OrderInv, WindowInv, NothingMissing, [Next]_vars
  PROVE  NothingMissing'
<1> SUFFICES ASSUME ev' # "stopped" \/ wire' # <<>>
             PROVE  /\ pub' \notin {"recv", "offline"} =>
                            parted' \/ Offline \in forgotten' \/ Offline \in Elems(Stream')
                    /\ InOneSession' => \A b \in accepted' : \/ b \in Elems(delivered')
                                                             \/ BatchRequest(b) \in forgotten'
                                                             \/ BatchRequest(b) \in Elems(Stream')
  BY DEF NothingMissing
<1>0. ev # "stopped" \/ wire # <<>> =>
        /\ pub \notin {"recv", "offline"} =>
                parted \/ Offline \in forgotten \/ Offline \in Elems(Stream)
        /\ InOneSession => \A b \in accepted : \/ b \in Elems(delivered)
                                               \/ BatchRequest(b) \in forgotten
                                               \/ BatchRequest(b) \in Elems(Stream)
  BY DEF NothingMissing
<1>1. CASE InputClosed \/ PublisherReturns \/ ConnectFails \/ PublishWill \/ Ended \/ UNCHANGED vars
  <2>1. UNCHANGED <<qos, ev, connects, queue, network, delivered, accepted, parted, wire, forgotten>>
    BY <1>1 DEF InputClosed, PublisherReturns, ConnectFails, PublishWill, Ended, vars, brokerState,
                network, losses
  <2>2. Stream' = Stream /\ (InOneSession' <=> InOneSession)
    BY <2>1, StillEffect DEF InOneSession
  <2>3. pub' \notin {"recv", "offline"} => pub \notin {"recv", "offline"}
    BY <1>1 DEF InputClosed, PublisherReturns, ConnectFails, PublishWill, Ended, vars
  <2> QED BY <1>0, <2>1, <2>2, <2>3
<1>2. CASE \E s \in BOOLEAN : ConnAck(s)
  <2>1. PICK s \in BOOLEAN : ConnAck(s)
    BY <1>2
  <2>2. ev = "down" /\ connects' = connects + 1
    BY <2>1 DEF ConnAck
  <2>3. /\ Elems(Stream) \subseteq Elems(Stream') \cup forgotten' /\ forgotten \subseteq forgotten'
        /\ UNCHANGED <<qos, pub, delivered, parted, accepted>>
    BY <2>1, AnswerEffect
  <2>4. InOneSession' => InOneSession
    <3>1. connects \in Nat
      BY PublisherAssumption DEF TypeOK
    <3> QED BY <2>2, <2>3, <3>1 DEF InOneSession
  <2> QED BY <1>0, <2>2, <2>3, <2>4
<1>3. CASE ConnectionLost
  <2>1. /\ ev = "up" /\ ev' = "down" /\ connects >= 1 /\ connects' = connects
        /\ UNCHANGED <<qos, pub, delivered, accepted, parted, forgotten>>
    BY <1>3 DEF ConnectionLost, ConnectionInv
  <2>2. ASSUME NEW r \in Elems(Stream), Kept(r) PROVE r \in Elems(Stream')
    <3>1. Elems(Stream') = Elems(Unacked)
      BY <1>3, LossEffect
    <3> QED BY <2>1, <2>2, <3>1, StreamFacts, KeptInFlight
  <2>3. Kept(Offline)
    BY RequestFacts DEF Kept
  <2>4. InOneSession' => qos # 0 /\ InOneSession
    <3>1. connects \in Nat
      BY PublisherAssumption DEF TypeOK
    <3> QED BY <2>1, <3>1 DEF InOneSession
  <2>5. qos # 0 => \A r : Kept(r)
    BY DEF Kept
  <2> QED BY <1>0, <2>1, <2>2, <2>3, <2>4, <2>5
<1>4. CASE LostAtStop
  BY <1>4 DEF LostAtStop
<1>5. CASE SendNext \/ SendDisconnect
  <2>1. /\ ev = "up" /\ ev' # "down" /\ Stream' = Stream
        /\ UNCHANGED <<qos, pub, connects, accepted, delivered, parted, forgotten>>
    BY <1>5, SendEffect DEF brokerState, losses
  <2>2. InOneSession' => InOneSession
    BY <2>1 DEF InOneSession
  <2> QED BY <1>0, <2>1, <2>2
<1>6. CASE Deliver
  <2>1. /\ wire # <<>> /\ wire' = Tail(wire)
        /\ UNCHANGED <<qos, pub, queue, ev, connects, pending, inflight, accepted, forgotten>>
    BY <1>6 DEF Deliver, losses
  <2>2. Elems(Stream) = {Head(wire)} \cup Elems(Stream')
    BY <2>1, Received
  <2>3. pub' \notin {"recv", "offline"} =>
            parted' \/ Offline \in forgotten' \/ Offline \in Elems(Stream')
    <3>1. parted \/ Head(wire) = Offline => parted'
      BY <1>6, Zenon DEF Deliver
    <3> QED BY <1>0, <2>1, <2>2, <3>1
  <2>4. ASSUME InOneSession', NEW b \in accepted'
        PROVE  \/ b \in Elems(delivered')
               \/ BatchRequest(b) \in forgotten' \/ BatchRequest(b) \in Elems(Stream')
    <3>1. b \in Elems(delivered) \/ BatchRequest(b) \in forgotten \/ BatchRequest(b) \in Elems(Stream)
      BY <1>0, <2>1, <2>4 DEF InOneSession
    <3>2. b \in Batches
      BY <2>1, <2>4 DEF TypeOK
    <3>3. BatchRequest(b) = Head(wire) => b \in Elems(delivered')
      BY <1>6, <3>2, Recorded, RequestFacts
    <3>4. Elems(delivered) \subseteq Elems(delivered')
      BY <1>6, Recorded
    <3> QED BY <2>1, <2>2, <3>1, <3>3, <3>4
  <2> QED BY <2>3, <2>4
<1>7. CASE Ack
  <2>1. UNCHANGED <<qos, pub, ev, connects, wire, delivered, accepted, parted, forgotten>>
    BY <1>7 DEF Ack, brokerState, losses
  <2>2. Stream' = Stream /\ (InOneSession' <=> InOneSession)
    BY <1>7, <2>1, AckEffect DEF InOneSession
  <2> QED BY <1>0, <2>1, <2>2
<1>8. CASE TryPublish \/ QueueOffline \/ QueueDisconnect \/ QueueOnline
  <2>1. UNCHANGED <<qos, ev, connects, network, wire, delivered, parted, forgotten>>
    BY <1>8, AppendEffect DEF brokerState, network, losses
  <2>2. InOneSession' <=> InOneSession
    BY <2>1 DEF InOneSession
  <2>3. /\ TryPublish \/ QueueOnline => pub' = pub
        /\ QueueDisconnect => pub = "disconnect"
    BY DEF TryPublish, QueueOnline, QueueDisconnect
  <2>4. CASE UNCHANGED <<queue, accepted>> /\ (TryPublish \/ QueueOnline)
    <3>1. Stream' = Stream
      BY <2>1, <2>4, StillEffect
    <3> QED BY <1>0, <2>1, <2>2, <2>3, <2>4, <3>1
  <2>5. CASE /\ TryPublish /\ queue' = Append(queue, BatchRequest(taken + 1))
             /\ taken + 1 \in Batches /\ accepted' = accepted \cup {taken + 1}
    <3>1. BatchRequest(taken + 1) \in Requests
      BY <2>5, RequestFacts
    <3>2. Elems(Stream') = Elems(Stream) \cup {BatchRequest(taken + 1)}
      BY <2>1, <2>5, <3>1, Queued
    <3> QED BY <1>0, <2>1, <2>2, <2>3, <2>5, <3>2
  <2>6. CASE \E r \in {Online, Offline, Disconnect} :
                /\ queue' = Append(queue, r) /\ accepted' = accepted
                /\ r = Offline \/ QueueDisconnect \/ QueueOnline
    <3>1. PICK r \in {Online, Offline, Disconnect} :
                /\ queue' = Append(queue, r) /\ accepted' = accepted
                /\ r = Offline \/ QueueDisconnect \/ QueueOnline
      BY <2>6
    <3>2. r \in Requests
      BY RequestFacts
    <3>3. Elems(Stream') = Elems(Stream) \cup {r}
      BY <2>1, <3>1, <3>2, Queued
    <3> QED BY <1>0, <2>1, <2>2, <2>3, <3>1, <3>3
  <2> QED BY <1>8, AppendEffect, <2>4, <2>5, <2>6
<1> QED BY <1>1, <1>2, <1>3, <1>4, <1>5, <1>6, <1>7, <1>8 DEF Next


\* At QoS 0 no batch is sent again.
LEMMA OnceStep ==
  ASSUME TypeOK, ConnectionInv, OrderInv, WindowInv, OnceAtQosZero, [Next]_vars
  PROVE  OnceAtQosZero'
<1>0. qos' = qos
  BY DEF Next, TryPublish, InputClosed, QueueOffline, QueueDisconnect, PublisherReturns, QueueOnline,
         ConnAck, ConnectFails, ConnectionLost, LostAtStop, SendNext, SendDisconnect,
         Deliver, Ack, PublishWill, Ended, vars
<1> SUFFICES ASSUME qos = 0
             PROVE  /\ \A r \in Elems(inflight') : r.kind # "batch"
                    /\ ~jumbled' => \A b \in Elems(delivered') : \A r \in Elems(Stream') :
                                        r.kind = "batch" => b < r.batch
  BY <1>0 DEF OnceAtQosZero
<1>1. /\ \A r \in Elems(inflight) : r.kind # "batch"
      /\ ~jumbled => \A b \in Elems(delivered) : \A r \in Elems(Stream) :
                        r.kind = "batch" => b < r.batch
  BY DEF OnceAtQosZero
<1>2. CASE InputClosed \/ PublisherReturns \/ ConnectFails \/ PublishWill \/ Ended \/ UNCHANGED vars
  <2>1. UNCHANGED <<queue, network, inflight, delivered, jumbled>>
    BY <1>2 DEF InputClosed, PublisherReturns, ConnectFails, PublishWill, Ended, vars,
                brokerState, network, losses
  <2> QED BY <1>1, <2>1, StillEffect
<1>3. CASE \E s \in BOOLEAN : ConnAck(s)
  <2>1. PICK s \in BOOLEAN : ConnAck(s)
    BY <1>3
  <2>2. Elems(Stream') \subseteq Elems(Stream) /\ UNCHANGED <<inflight, delivered, jumbled>>
    BY <2>1, AnswerEffect DEF ConnAck
  <2> QED BY <1>1, <2>2
<1>4. CASE ConnectionLost
  <2>1. inflight' = <<>> /\ delivered' = delivered
    BY <1>4 DEF ConnectionLost
  <2>2. Elems(inflight') = {}
    BY <2>1 DEF Elems
  <2>3. Elems(Stream') = Elems(inflight) \cup Elems(Upcoming) /\ (~jumbled' => ~jumbled)
    BY <1>4, LossEffect, StreamFacts
  <2>4. Elems(Upcoming) \subseteq Elems(Stream)
    BY StreamFacts
  <2> QED BY <1>1, <2>1, <2>2, <2>3, <2>4
<1>5. CASE LostAtStop
  <2>1. UNCHANGED <<inflight, delivered, jumbled>>
    BY <1>5 DEF LostAtStop, losses
  <2> QED BY <1>1, <1>5, <2>1, StopEffect
<1>6. CASE SendNext \/ SendDisconnect
  <2>1. Stream' = Stream /\ UNCHANGED <<delivered, jumbled>>
    BY <1>6, SendEffect DEF brokerState, losses
  <2>2. ASSUME NEW r \in Elems(inflight') PROVE r.kind # "batch"
    <3>1. CASE inflight' = inflight
      BY <1>1, <2>2, <3>1
    <3>2. CASE inflight' # inflight
      <4> DEFINE e == Head(Upcoming)
      <4>1. Send(e) /\ e \in Requests
        BY <1>6, <3>2, Taken DEF SendNext, SendDisconnect
      <4>2. Kept(e) /\ inflight' = Append(inflight, e)
        BY <3>2, <4>1 DEF Send
      <4> HIDE DEF e
      <4>3. Elems(inflight') = Elems(inflight) \cup {e}
        BY <4>1, <4>2, StreamFacts, ElemsAppend
      <4>4. e.kind # "batch"
        BY <4>2 DEF Kept
      <4> QED BY <1>1, <2>2, <4>3, <4>4
    <3> QED BY <3>1, <3>2
  <2> QED BY <1>1, <2>1, <2>2
<1>7. CASE Deliver
  <2>1. wire # <<>> /\ wire' = Tail(wire) /\ UNCHANGED <<queue, pending, inflight, jumbled>>
    BY <1>7 DEF Deliver, losses
  <2>2. /\ Stream # <<>> /\ Stream' = Tail(Stream) /\ Head(wire) = Head(Stream)
        /\ Elems(Stream) = {Head(wire)} \cup Elems(Stream')
    BY <2>1, Received
  <2>3. ASSUME ~jumbled, NEW b \in Elems(delivered'), NEW r \in Elems(Stream'), r.kind = "batch"
        PROVE  b < r.batch
    <3>1. b \in Elems(delivered) \/ (Head(wire).kind = "batch" /\ b = Head(wire).batch)
      BY <1>7, <2>3, Recorded
    <3>2. Head(wire).kind = "batch" => Head(wire).batch < r.batch
      <4>1. Stream \in Seq(Requests) /\ Ordered(Stream)
        BY <2>3, StreamFacts DEF OrderInv
      <4> QED BY <2>2, <2>3, <4>1, HeadFirst
    <3> QED BY <1>1, <2>2, <2>3, <3>1, <3>2
  <2> QED BY <1>1, <2>1, <2>3
<1>8. CASE Ack
  <2>1. UNCHANGED <<delivered, jumbled>>
    BY <1>8 DEF Ack, brokerState, losses
  <2>2. Elems(inflight') \subseteq Elems(inflight) /\ Stream' = Stream
    BY <1>8, AckEffect
  <2> QED BY <1>1, <2>1, <2>2
<1>9. CASE TryPublish \/ QueueOffline \/ QueueDisconnect \/ QueueOnline
  <2>1. UNCHANGED <<network, inflight, delivered, jumbled>>
    BY <1>9, AppendEffect DEF brokerState, network, losses
  <2>2. CASE UNCHANGED queue
    BY <1>1, <2>1, <2>2, StillEffect
  <2>3. CASE queue' = Append(queue, BatchRequest(taken + 1)) /\ taken + 1 \in Batches
    <3> DEFINE r == BatchRequest(taken + 1)
    <3>1. r \in Requests /\ r.batch = taken + 1
      BY <2>3, RequestFacts
    <3>2. Elems(Stream') = Elems(Stream) \cup {r}
      BY <2>1, <2>3, <3>1, Queued
    <3>3. \A b \in Elems(delivered) : b < taken + 1
      <4>1. Elems(delivered) \subseteq 1 .. taken
        BY DEF OrderInv
      <4>2. taken \in Nat
        BY DEF TypeOK
      <4> QED BY <4>1, <4>2
    <3>4. \A b \in Elems(delivered) : b < r.batch
      BY <3>1, <3>3, Zenon
    <3> HIDE DEF r
    <3> QED BY <1>1, <2>1, <3>2, <3>4
  <2>4. CASE \E r \in {Online, Offline, Disconnect} : queue' = Append(queue, r)
    <3>1. PICK r \in {Online, Offline, Disconnect} : queue' = Append(queue, r)
      BY <2>4
    <3>2. r \in Requests /\ r.kind # "batch"
      BY RequestFacts
    <3>3. Elems(Stream') = Elems(Stream) \cup {r}
      BY <2>1, <3>1, <3>2, Queued
    <3> QED BY <1>1, <2>1, <3>2, <3>3
  <2> QED BY <1>9, AppendEffect, <2>2, <2>3, <2>4
<1> QED BY <1>2, <1>3, <1>4, <1>5, <1>6, <1>7, <1>8, <1>9 DEF Next

-----------------------------------------------------------------------------
\* The two halves of BatchesInOrder.
NoGap == qos # 0 =>
    \A i \in DOMAIN delivered : \A b \in accepted :
        b < delivered[i] => BatchRequest(b) \in forgotten \/ \E j \in 1 .. i : delivered[j] = b
NoneTwice == qos # 1 => \A i, j \in DOMAIN delivered : i < j => delivered[i] < delivered[j]

\* An arriving batch finds every earlier one there, or dropped, ...
LEMMA EarlierArrived ==
  ASSUME TypeOK, OrderInv, NothingMissing, Deliver, ~jumbled, qos # 0, Head(wire).kind = "batch",
         NEW b \in accepted, b < Head(wire).batch
  PROVE  BatchRequest(b) \in forgotten \/ b \in Elems(delivered)
<1>1. wire # <<>> /\ wire' = Tail(wire) /\ UNCHANGED <<queue, pending, inflight>>
  BY DEF Deliver
<1>2. /\ Stream # <<>> /\ Stream' = Tail(Stream) /\ Head(wire) = Head(Stream) /\ Head(wire) \in Requests
      /\ Elems(Stream) = {Head(wire)} \cup Elems(Tail(Stream))
  BY <1>1, Received
<1>3. \/ b \in Elems(delivered) \/ BatchRequest(b) \in forgotten
      \/ BatchRequest(b) \in Elems(Stream)
  BY <1>1 DEF NothingMissing, InOneSession
<1>4. b \in Batches /\ b \in Nat /\ BatchRequest(b).kind = "batch" /\ BatchRequest(b).batch = b
  <2>1. b \in Batches
    BY DEF TypeOK
  <2> QED BY <2>1, RequestFacts DEF Batches
<1>5. Head(wire).batch \in Nat
  BY <1>2, RequestFacts DEF Batches
<1> DEFINE d == Head(wire).batch
<1>6. d \in Nat /\ b < d /\ b \in Nat
  BY <1>4, <1>5
<1>7. Stream \in Seq(Requests) /\ Ordered(Stream)
  BY StreamFacts DEF OrderInv
<1>8. BatchRequest(b) \in Elems(Tail(Stream)) => d < b
  BY <1>2, <1>4, <1>7, HeadFirst
<1>9. BatchRequest(b) = Head(wire) => d = b
  BY <1>4
<1> HIDE DEF d
<1>10. ~(d < b) /\ d # b
  BY <1>6
<1> QED BY <1>2, <1>3, <1>8, <1>9, <1>10

\* ... and none that is later, if none is sent twice.
LEMMA NoneLater ==
  ASSUME TypeOK, OrderInv, OnceAtQosZero, NoGap, Deliver, ~jumbled, qos # 1, Head(wire).kind = "batch",
         Head(wire).batch \in Batches, qos = 2 => Head(wire).batch \notin Elems(delivered),
         NEW i \in DOMAIN delivered
  PROVE  delivered[i] < Head(wire).batch
<1> DEFINE d == Head(wire).batch
<1>1. wire # <<>> /\ wire' = Tail(wire) /\ UNCHANGED <<queue, pending, inflight>>
  BY DEF Deliver
<1>2. Head(wire) \in Elems(Stream) /\ Head(wire) \in Requests
  BY <1>1, Received
<1>3. delivered[i] \in Elems(delivered)
  BY DEF Elems
<1>4. CASE qos = 0
  BY <1>2, <1>3, <1>4 DEF OnceAtQosZero
<1>5. CASE qos = 2
  <2>1. d \in accepted
    BY <1>2 DEF OrderInv, Known, KnownSet
  <2>6. BatchRequest(d) \notin forgotten
    BY <1>2, RequestFacts DEF OrderInv, Fresh
  <2>2. d # delivered[i] /\ d \notin Elems(delivered)
    BY <1>3, <1>5
  <2>3. ~(d < delivered[i])
    <3>1. SUFFICES ASSUME d < delivered[i] PROVE FALSE
      OBVIOUS
    <3>2. \E j \in 1 .. i : delivered[j] = d
      BY <1>5, <2>1, <2>6, <3>1 DEF NoGap
    <3>3. 1 .. i \subseteq DOMAIN delivered
      BY DEF TypeOK
    <3> QED BY <2>2, <3>2, <3>3 DEF Elems
  <2>4. d \in Nat /\ delivered[i] \in Nat
    <3>1. Batches \subseteq Nat
      BY DEF Batches
    <3>2. delivered[i] \in Batches
      BY DEF TypeOK
    <3> QED BY <3>1, <3>2
  <2> HIDE DEF d
  <2>5. delivered[i] < d
    BY <2>2, <2>3, <2>4
  <2> QED BY <2>5 DEF d
<1>6. qos \in 0 .. 2
  BY DEF TypeOK
<1> QED BY <1>4, <1>5, <1>6

\* The batches arrive in the order of their windows.
LEMMA BatchesStep ==
  ASSUME TypeOK, OrderInv, NothingMissing, OnceAtQosZero, BatchesInOrder, [Next]_vars
  PROVE  BatchesInOrder'
<1> SUFFICES ASSUME ~jumbled' PROVE NoGap' /\ NoneTwice'
  BY DEF BatchesInOrder, NoGap, NoneTwice
<1>5. ~jumbled
  <2>1. CASE ConnectionLost
    BY <2>1, LossEffect
  <2>2. CASE ~ConnectionLost
    BY <2>2 DEF Next, TryPublish, InputClosed, QueueOffline, QueueDisconnect, PublisherReturns,
          QueueOnline, ConnAck, ConnectFails, LostAtStop, SendNext, SendDisconnect, Deliver, Ack,
          PublishWill, Ended, vars, losses
  <2> QED BY <2>1, <2>2
<1>0. NoGap /\ NoneTwice
  BY <1>5 DEF BatchesInOrder, NoGap, NoneTwice
<1>1. delivered \in Seq(Batches) /\ DOMAIN delivered = 1 .. Len(delivered) /\ Len(delivered) \in Nat
      /\ Elems(delivered) \subseteq accepted /\ accepted \subseteq 1 .. taken /\ taken \in Nat
  BY DEF TypeOK, OrderInv
<1>2. CASE \/ InputClosed \/ QueueOffline \/ QueueDisconnect \/ PublisherReturns \/ QueueOnline
           \/ (\E s \in BOOLEAN : ConnAck(s)) \/ ConnectFails \/ ConnectionLost \/ LostAtStop
           \/ SendNext \/ SendDisconnect \/ Ack \/ PublishWill \/ Ended \/ UNCHANGED vars
  <2>1. UNCHANGED <<qos, delivered, accepted>>
    BY <1>2 DEF InputClosed, QueueOffline, QueueDisconnect, PublisherReturns, QueueOnline, ConnAck,
                ConnectFails, ConnectionLost, LostAtStop, SendNext, SendDisconnect,
                Ack, PublishWill, Ended, vars, brokerState
  <2>2. forgotten \subseteq forgotten'
    BY <1>2 DEF InputClosed, QueueOffline, QueueDisconnect, PublisherReturns, QueueOnline, ConnAck,
                ConnectFails, ConnectionLost, LostAtStop, SendNext, SendDisconnect,
                Ack, PublishWill, Ended, vars, losses
  <2>3. NoGap'
    BY <1>0, <2>1, <2>2 DEF NoGap
  <2>4. NoneTwice'
    BY <1>0, <2>1 DEF NoneTwice
  <2> QED BY <2>3, <2>4
<1>3. CASE TryPublish
  <2>1. /\ UNCHANGED <<qos, delivered, forgotten>>
        /\ accepted' \subseteq accepted \cup {taken + 1}
    BY <1>3 DEF TryPublish, brokerState, losses
  <2>2. ASSUME NEW i \in DOMAIN delivered PROVE ~(taken + 1 < delivered[i])
    <3>1. delivered[i] \in 1 .. taken
      BY <1>1 DEF Elems
    <3> QED BY <1>1, <3>1
  <2>3. NoGap'
    BY <1>0, <2>1, <2>2 DEF NoGap
  <2>4. NoneTwice'
    BY <1>0, <2>1 DEF NoneTwice
  <2> QED BY <2>3, <2>4
<1>4. CASE Deliver
  <2>1. qos' = qos /\ accepted' = accepted /\ forgotten' = forgotten
    BY <1>4 DEF Deliver, losses
  <2>2. CASE delivered' = delivered
    BY <1>0, <2>1, <2>2 DEF NoGap, NoneTwice
  <2>3. CASE /\ Head(wire).kind = "batch" /\ Head(wire).batch \in Batches
             /\ delivered' = Append(delivered, Head(wire).batch)
             /\ qos = 2 => Head(wire).batch \notin Elems(delivered)
    <3> DEFINE n == Len(delivered)
               d == Head(wire).batch
    <3>1. /\ DOMAIN delivered' = 1 .. n + 1 /\ delivered'[n + 1] = d
          /\ \A i \in 1 .. n : delivered'[i] = delivered[i]
      BY <1>1, <2>3
    <3>2. qos # 0 => \A b \in accepted :
              b < d => BatchRequest(b) \in forgotten \/ b \in Elems(delivered)
      BY <1>4, <1>5, <2>3, EarlierArrived
    <3>3. qos # 1 => \A i \in 1 .. n : delivered[i] < d
      BY <1>0, <1>1, <1>4, <1>5, <2>3, NoneLater
    <3> HIDE DEF d
    <3>4. ASSUME qos # 0, NEW i \in 1 .. n + 1, NEW b \in accepted, b < delivered'[i],
                 BatchRequest(b) \notin forgotten
          PROVE  \E j \in 1 .. i : delivered'[j] = b
      <4>1. CASE i = n + 1
        <5>1. PICK j \in 1 .. n : delivered[j] = b
          BY <1>1, <3>1, <3>2, <3>4, <4>1 DEF Elems
        <5> QED BY <1>1, <3>1, <4>1, <5>1
      <4>2. CASE i # n + 1
        <5>1. i \in 1 .. n /\ delivered'[i] = delivered[i]
          BY <1>1, <3>1, <4>2
        <5>2. PICK j \in 1 .. i : delivered[j] = b
          BY <1>0, <1>1, <3>4, <5>1 DEF NoGap
        <5> QED BY <1>1, <3>1, <5>1, <5>2
      <4> QED BY <4>1, <4>2
    <3>5. ASSUME qos # 1, NEW i \in 1 .. n + 1, NEW j \in 1 .. n + 1, i < j
          PROVE  delivered'[i] < delivered'[j]
      <4>1. i \in 1 .. n /\ delivered'[i] = delivered[i]
        BY <1>1, <3>1, <3>5
      <4>2. CASE j = n + 1
        BY <3>1, <3>3, <3>5, <4>1, <4>2
      <4>3. CASE j # n + 1
        <5>1. j \in 1 .. n /\ delivered'[j] = delivered[j]
          BY <1>1, <3>1, <4>3
        <5> QED BY <1>0, <1>1, <3>5, <4>1, <5>1 DEF NoneTwice
      <4> QED BY <4>2, <4>3
    <3>6. NoGap' /\ NoneTwice'
      BY <2>1, <3>1, <3>4, <3>5 DEF NoGap, NoneTwice
    <3> QED BY <3>6
  <2> QED BY <1>4, <2>2, <2>3, Recorded
<1> QED BY <1>2, <1>3, <1>4 DEF Next

-----------------------------------------------------------------------------
\* With the DISCONNECT everything has arrived, or was dropped, that run_publisher queued.
LEMMA LastDelivery ==
  ASSUME TypeOK, ConnectionInv, FarewellInv, OrderInv, NothingMissing, QuietInv,
         Deliver, Head(wire) = Disconnect
  PROVE  /\ clean' /\ ~will'
         /\ UNCHANGED <<accepted, delivered, retained, quiet, connects, qos, forgotten, jumbled>>
         /\ quiet => retained = "offline"
         /\ ~jumbled =>
                /\ parted' \/ Offline \in forgotten
                /\ qos # 0 \/ connects = 1 =>
                        \A b \in accepted : BatchRequest(b) \in forgotten \/ b \in Elems(delivered)
<1>1. /\ wire # <<>> /\ wire' = Tail(wire)
      /\ UNCHANGED <<queue, pending, inflight, accepted, quiet, connects, qos, forgotten, jumbled>>
  BY DEF Deliver, losses
<1>2. /\ Stream # <<>> /\ Head(wire) = Head(Stream) /\ Stream' = Tail(Stream)
      /\ Elems(Stream) = {Head(wire)} \cup Elems(Stream')
  BY <1>1, Received
<1>3. Stream \in Seq(Requests)
  BY StreamFacts
<1>4. ~jumbled => \A r \in Elems(Stream) : r = Disconnect \/ r = Online
  BY <1>2, <1>3, HeadFirst DEF OrderInv
<1>5. ev = "stopped" /\ ~will' /\ clean' /\ parted' = parted
  BY Delivery
<1>6. UNCHANGED <<delivered, retained>>
  BY RequestFacts DEF Deliver
<1>7. pub \notin {"recv", "offline"} /\ (~jumbled => Offline \notin Elems(Stream))
  BY <1>4, <1>5, RequestFacts DEF FarewellInv
<1>8. ~jumbled => parted' \/ Offline \in forgotten
  BY <1>1, <1>5, <1>7 DEF NothingMissing
<1>9. quiet => retained = "offline"
  <2> SUFFICES ASSUME quiet PROVE retained = "offline"
    OBVIOUS
  <2>1. 1 \in DOMAIN Stream /\ Stream[1] = Disconnect /\ \A j \in DOMAIN Stream : j # 1 => 1 < j
    BY <1>2, <1>3
  <2>2. \A j \in DOMAIN Stream : Stream[j] # Offline
    BY <1>1, <2>1, RequestFacts DEF QuietInv
  <2>3. Offline \notin Elems(Stream)
    BY <2>2 DEF Elems
  <2> QED BY <1>1, <2>3 DEF QuietInv
<1>10. ASSUME ~jumbled, qos # 0 \/ connects = 1, NEW b \in accepted
       PROVE  BatchRequest(b) \in forgotten \/ b \in Elems(delivered)
  <2>1. \/ b \in Elems(delivered) \/ BatchRequest(b) \in forgotten
        \/ BatchRequest(b) \in Elems(Stream)
    BY <1>1, <1>5, <1>10 DEF NothingMissing, InOneSession
  <2>2. BatchRequest(b) # Disconnect /\ BatchRequest(b) # Online
    BY RequestFacts DEF TypeOK
  <2> QED BY <1>4, <1>10, <2>1, <2>2
<1> QED BY <1>1, <1>5, <1>6, <1>8, <1>9, <1>10

\* After the DISCONNECT has arrived nothing changes that a clean stop promises.
LEMMA AfterClean ==
  ASSUME TypeOK, ConnectionInv, FarewellInv, clean, [Next]_vars
  PROVE  /\ clean' /\ ~will' /\ parted' = parted
         /\ UNCHANGED <<accepted, delivered, quiet, connects, qos, retained, forgotten, jumbled>>
<1>1. ev = "stopped" /\ wire = <<>> /\ ~will /\ pub \notin {"recv", "offline", "disconnect"}
  BY DEF ConnectionInv, FarewellInv, TypeOK
<1>2. CASE TryPublish \/ InputClosed \/ QueueOffline \/ QueueDisconnect
  BY <1>1, <1>2 DEF TryPublish, InputClosed, QueueOffline, QueueDisconnect
<1>3. CASE \/ (\E s \in BOOLEAN : ConnAck(s)) \/ ConnectFails \/ ConnectionLost \/ LostAtStop
           \/ SendNext \/ SendDisconnect \/ Deliver \/ Ack \/ PublishWill
  BY <1>1, <1>3 DEF ConnAck, ConnectFails, ConnectionLost, LostAtStop, SendNext,
                    SendDisconnect, Deliver, Ack, PublishWill
<1>4. CASE PublisherReturns \/ QueueOnline \/ Ended \/ UNCHANGED vars
  <2>1. UNCHANGED <<brokerState, accepted, quiet, connects, qos, losses>>
    BY <1>4 DEF PublisherReturns, QueueOnline, Ended, vars
  <2>2. UNCHANGED <<will, retained, delivered, clean, parted, forgotten, jumbled>>
    BY <2>1 DEF brokerState, losses
  <2> QED BY <1>1, <2>1, <2>2
<1> QED BY <1>2, <1>3, <1>4 DEF Next

\* The DISCONNECT arrives by a delivery, and no other way.
LEMMA CleanBy ==
  ASSUME TypeOK, ConnectionInv, [Next]_vars, ~clean, clean'
  PROVE  Deliver /\ Head(wire) = Disconnect
<1>1. CASE Deliver
  BY <1>1, Delivery
<1>2. CASE ~Deliver
  <2>1. clean' = clean
    BY <1>2 DEF Next, TryPublish, InputClosed, QueueOffline, QueueDisconnect, PublisherReturns,
          QueueOnline, ConnAck, ConnectFails, ConnectionLost, LostAtStop, SendNext,
          SendDisconnect, Ack, PublishWill, Ended, vars, brokerState
  <2> QED BY <2>1
<1> QED BY <1>1, <1>2

\* A clean shutdown leaves nothing behind.
LEMMA NothingLeftStep ==
  ASSUME TypeOK, ConnectionInv, FarewellInv, OrderInv, NothingMissing, QuietInv,
         NothingLeftBehind, [Next]_vars
  PROVE  NothingLeftBehind'
<1> SUFFICES ASSUME clean', ~jumbled'
             PROVE  /\ parted' \/ Offline \in forgotten'
                    /\ qos' # 0 \/ connects' = 1 =>
                        \A b \in accepted' :
                            BatchRequest(b) \in forgotten' \/ b \in Elems(delivered')
  BY DEF NothingLeftBehind, Elems
<1>1. CASE clean
  <2>1. UNCHANGED <<parted, accepted, delivered, connects, qos, forgotten, jumbled>>
    BY <1>1, AfterClean
  <2>2. /\ parted \/ Offline \in forgotten
        /\ qos # 0 \/ connects = 1 =>
              \A b \in accepted : BatchRequest(b) \in forgotten \/ b \in Elems(delivered)
    BY <1>1, <2>1 DEF NothingLeftBehind, Elems
  <2> QED BY <2>1, <2>2
<1>2. CASE ~clean
  <2>1. Deliver /\ Head(wire) = Disconnect
    BY <1>2, CleanBy
  <2> QED BY <2>1, LastDelivery
<1> QED BY <1>1, <1>2

\* After a quiet shutdown no "online" follows the "offline", and this no DISCONNECT.
LEMMA QuietStep ==
  ASSUME TypeOK, ConnectionInv, FarewellInv, WindowInv, QuietInv, [Next]_vars
  PROVE  QuietInv'
<1> SUFFICES ASSUME quiet', ev' = "up" \/ wire' # <<>>
             PROVE  /\ \A i, j \in DOMAIN Stream' : i < j =>
                            /\ Stream'[i] = Offline => Stream'[j] # Online
                            /\ Stream'[i] = Disconnect => Stream'[j] # Offline
                    /\ Offline \notin Elems(Stream') =>
                            retained' = "offline" /\ Online \notin Elems(Stream')
  BY DEF QuietInv
<1>1. quiet /\ (ev = "up" \/ wire # <<>>) =>
        /\ \A i, j \in DOMAIN Stream : i < j =>
                /\ Stream[i] = Offline => Stream[j] # Online
                /\ Stream[i] = Disconnect => Stream[j] # Offline
        /\ Offline \notin Elems(Stream) => retained = "offline" /\ Online \notin Elems(Stream)
  BY DEF QuietInv
<1>2. quiet => pub \notin {"recv", "offline"} /\ onlines = 0
  BY DEF FarewellInv
<1>3. Stream \in Seq(Requests) /\ Len(Stream) \in Nat /\ DOMAIN Stream = 1 .. Len(Stream)
  BY StreamFacts
<1>4. CASE PublisherReturns \/ ConnectFails \/ Ended \/ UNCHANGED vars
  <2>1. UNCHANGED <<quiet, ev, wire, retained, queue, network>>
    BY <1>4 DEF PublisherReturns, ConnectFails, Ended, vars, network, brokerState
  <2> QED BY <1>1, <2>1, StillEffect
<1>5. CASE InputClosed \/ TryPublish
  BY <1>2, <1>5 DEF InputClosed, TryPublish
<1>6. CASE \E s \in BOOLEAN : ConnAck(s)
  BY <1>6 DEF ConnAck
<1>7. CASE ConnectionLost \/ LostAtStop
  BY <1>7 DEF ConnectionLost, LostAtStop
<1>8. CASE PublishWill
  <2>1. lost /\ UNCHANGED <<ev, wire>>
    BY <1>8 DEF PublishWill, network
  <2> QED BY <2>1 DEF ConnectionInv, TypeOK
<1>9. CASE SendNext \/ SendDisconnect
  <2>1. ev = "up" /\ Stream' = Stream /\ UNCHANGED <<quiet, retained>>
    BY <1>9, SendEffect DEF brokerState
  <2> QED BY <1>1, <2>1
<1>10. CASE Ack
  <2>1. ev = "up" /\ Stream' = Stream /\ UNCHANGED <<quiet, retained>>
    BY <1>10, AckEffect DEF Ack, brokerState
  <2> QED BY <1>1, <2>1
<1>11. CASE Deliver
  <2>1. /\ wire # <<>> /\ wire' = Tail(wire) /\ UNCHANGED <<queue, pending, inflight, quiet>>
        /\ retained' = IF Head(wire) \in {Online, Offline} THEN Head(wire).kind ELSE retained
    BY <1>11 DEF Deliver
  <2>2. /\ Stream # <<>> /\ Head(wire) = Head(Stream) /\ Stream' = Tail(Stream)
        /\ Elems(Stream) = {Head(wire)} \cup Elems(Stream')
    BY <2>1, Received
  <2>3. /\ \A i, j \in DOMAIN Stream : i < j =>
                /\ Stream[i] = Offline => Stream[j] # Online
                /\ Stream[i] = Disconnect => Stream[j] # Offline
        /\ Offline \notin Elems(Stream) => retained = "offline" /\ Online \notin Elems(Stream)
    BY <1>1, <2>1
  <2>4. /\ DOMAIN Stream' = 1 .. Len(Stream) - 1 /\ Head(Stream) = Stream[1]
        /\ \A i \in DOMAIN Stream' : Stream'[i] = Stream[i + 1]
    BY <1>3, <2>2
  <2>5. ASSUME NEW i \in DOMAIN Stream', NEW j \in DOMAIN Stream', i < j
        PROVE  /\ Stream'[i] = Offline => Stream'[j] # Online
               /\ Stream'[i] = Disconnect => Stream'[j] # Offline
    <3>1. i + 1 \in DOMAIN Stream /\ j + 1 \in DOMAIN Stream /\ i + 1 < j + 1
      BY <1>3, <2>4, <2>5
    <3> QED BY <2>3, <2>4, <2>5, <3>1
  <2>6. ASSUME Offline \notin Elems(Stream')
        PROVE  retained' = "offline" /\ Online \notin Elems(Stream')
    <3>1. CASE Head(wire) = Offline
      <4>1. retained' = "offline"
        BY <2>1, <3>1, RequestFacts
      <4>2. ASSUME NEW j \in DOMAIN Stream' PROVE Stream'[j] # Online
        <5>1. 1 \in DOMAIN Stream /\ j + 1 \in DOMAIN Stream /\ 1 < j + 1
          BY <1>3, <2>4
        <5> QED BY <2>2, <2>3, <2>4, <3>1, <5>1
      <4> QED BY <4>1, <4>2 DEF Elems
    <3>2. CASE Head(wire) # Offline
      <4>1. retained = "offline" /\ Online \notin Elems(Stream) /\ Head(wire) # Online
        BY <2>2, <2>3, <2>6, <3>2
      <4> QED BY <2>1, <2>2, <3>2, <4>1
    <3> QED BY <3>1, <3>2
  <2> QED BY <2>5, <2>6
<1>12. CASE QueueOffline
  <2>1. queue' = Append(queue, Offline) /\ pub = "offline" /\ UNCHANGED network
    BY <1>12 DEF QueueOffline
  <2>2. Stream' = Append(Stream, Offline) /\ Elems(Stream') = Elems(Stream) \cup {Offline}
    BY <2>1, Queued, RequestFacts
  <2>3. \A i \in DOMAIN Stream : Stream[i] # Offline /\ Stream[i] # Disconnect
    BY <2>1, NoFarewellYet DEF FarewellInv, Elems
  <2>4. DOMAIN Stream' = 1 .. Len(Stream) + 1 /\ \A i \in DOMAIN Stream : Stream'[i] = Stream[i]
    BY <1>3, <2>2
  <2> QED BY <1>3, <2>2, <2>3, <2>4
<1>13. CASE QueueDisconnect
  <2>1. queue' = Append(queue, Disconnect) /\ UNCHANGED <<network, ev, wire, quiet, retained>>
    BY <1>13 DEF QueueDisconnect, network, brokerState
  <2>2. /\ Stream' = Append(Stream, Disconnect) /\ Elems(Stream') = Elems(Stream) \cup {Disconnect}
    BY <2>1, Queued, RequestFacts
  <2>3. /\ DOMAIN Stream' = 1 .. Len(Stream) + 1 /\ \A i \in DOMAIN Stream : Stream'[i] = Stream[i]
        /\ Stream'[Len(Stream) + 1] = Disconnect
    BY <1>3, <2>2, RequestFacts
  <2>4. ASSUME NEW i \in DOMAIN Stream', NEW j \in DOMAIN Stream', i < j
        PROVE  /\ Stream'[i] = Offline => Stream'[j] # Online
               /\ Stream'[i] = Disconnect => Stream'[j] # Offline
    <3>1. i \in DOMAIN Stream /\ (j \in DOMAIN Stream \/ j = Len(Stream) + 1)
      BY <1>3, <2>3, <2>4
    <3> QED BY <1>1, <2>1, <2>3, <2>4, <3>1, RequestFacts
  <2> QED BY <1>1, <2>1, <2>2, <2>4, RequestFacts
<1>14. CASE QueueOnline
  <2>1. quiet' = quiet /\ onlines > 0
    BY <1>14 DEF QueueOnline
  <2> QED BY <1>2, <2>1
<1> QED BY <1>4, <1>5, <1>6, <1>7, <1>8, <1>9, <1>10, <1>11, <1>12, <1>13, <1>14 DEF Next

\* What the broker retains does not mislead.
LEMMA RetainedStep ==
  ASSUME TypeOK, ConnectionInv, FarewellInv, OrderInv, NothingMissing, QuietInv, RetainedIsTrue,
         [Next]_vars
  PROVE  RetainedIsTrue'
<1>1. OfflineAfterQuietStop /\ OnlineIsGuarded
  BY DEF RetainedIsTrue
<1>2. OfflineAfterQuietStop'
  <2>1. CASE clean
    BY <1>1, <2>1, AfterClean DEF OfflineAfterQuietStop
  <2>2. CASE ~clean /\ clean'
    BY <2>2, CleanBy, LastDelivery DEF OfflineAfterQuietStop
  <2>3. CASE ~clean'
    BY <2>3 DEF OfflineAfterQuietStop
  <2> QED BY <2>1, <2>2, <2>3
<1>3. OnlineIsGuarded'
  <2>1. CASE \/ TryPublish \/ InputClosed \/ QueueOffline \/ QueueDisconnect \/ PublisherReturns
             \/ QueueOnline \/ ConnectFails \/ ConnectionLost \/ LostAtStop \/ SendNext
             \/ SendDisconnect \/ Ack \/ Ended \/ UNCHANGED vars
    <3>1. UNCHANGED <<retained, connects, will, clean>>
      BY <2>1 DEF TryPublish, InputClosed, QueueOffline, QueueDisconnect, PublisherReturns,
            QueueOnline, ConnectFails, ConnectionLost, LostAtStop, SendNext,
            SendDisconnect, Ack, Ended, vars, brokerState
    <3> QED BY <1>1, <3>1 DEF OnlineIsGuarded
  <2>2. CASE \E s \in BOOLEAN : ConnAck(s)
    BY <2>2 DEF ConnAck, OnlineIsGuarded
  <2>3. CASE Deliver
    BY <2>3, Delivery DEF OnlineIsGuarded
  <2>4. CASE PublishWill
    BY <2>4 DEF PublishWill, OnlineIsGuarded
  <2> QED BY <2>1, <2>2, <2>3, <2>4 DEF Next
<1> QED BY <1>2, <1>3 DEF RetainedIsTrue

-----------------------------------------------------------------------------
\* The invariant holds when the publisher starts, ...
LEMMA InitInv == Init => IInv
<1> SUFFICES ASSUME Init PROVE IInv
  OBVIOUS
<1> USE DEF Init
<1>1. Elems(<<>>) = {}
  BY DEF Elems
<1>2. TypeOK
  <2>1. FlagsOK
    BY Zenon DEF FlagsOK
  <2>2. TasksOK
    BY PublisherAssumption DEF TasksOK
  <2>3. QueuesOK
    BY PublisherAssumption DEF QueuesOK
  <2> QED BY <2>1, <2>2, <2>3, TypeParts
<1>3. Upcoming = <<>> /\ Stream = <<>> /\ Unacked = <<>>
  BY DEF Upcoming, Stream, Unacked
<1>4. DOMAIN Stream = {} /\ Elems(Stream) = {} /\ Elems(Unacked) = {} /\ DOMAIN Unacked = {}
      /\ DOMAIN delivered = {} /\ Elems(delivered) = {}
  BY <1>1, <1>3
<1>5. ConnectionInv
  BY <1>1 DEF ConnectionInv
<1>6. FarewellInv
  BY <1>1, <1>3, <1>4 DEF FarewellInv
<1>7. OrderInv
  BY <1>4 DEF OrderInv, Ordered, Known, KnownSet, Fresh
<1>8. WindowInv
  BY DEF WindowInv
<1>9. NothingMissing
  BY <1>4 DEF NothingMissing
<1>10. OnceAtQosZero
  BY <1>1, <1>4 DEF OnceAtQosZero
<1>11. QuietInv
  BY DEF QuietInv
<1>12. BatchesInOrder
  BY <1>4 DEF BatchesInOrder
<1>13. NothingLeftBehind
  BY DEF NothingLeftBehind
<1>14. RetainedIsTrue
  BY DEF RetainedIsTrue, OfflineAfterQuietStop, OnlineIsGuarded
<1> QED BY <1>2, <1>5, <1>6, <1>7, <1>8, <1>9, <1>10, <1>11, <1>12, <1>13, <1>14 DEF IInv

\* ... and every step keeps it.
LEMMA NextInv == IInv /\ [Next]_vars => IInv'
<1> SUFFICES ASSUME IInv, [Next]_vars PROVE IInv'
  OBVIOUS
<1>1. /\ TypeOK /\ ConnectionInv /\ FarewellInv /\ OrderInv /\ WindowInv
      /\ NothingMissing /\ OnceAtQosZero /\ QuietInv
      /\ BatchesInOrder /\ NothingLeftBehind /\ RetainedIsTrue
  BY DEF IInv
<1>3. TypeOK'
  BY <1>1, TypeStep
<1>4. ConnectionInv'
  BY <1>1, ConnectionStep
<1>5. FarewellInv' /\ WindowInv' /\ OrderInv'
  BY <1>1, FarewellStep, WindowStep, OrderStep
<1>6. NothingMissing' /\ OnceAtQosZero' /\ QuietInv'
  BY <1>1, NothingMissingStep, OnceStep, QuietStep
<1>7. BatchesInOrder' /\ NothingLeftBehind' /\ RetainedIsTrue'
  BY <1>1, BatchesStep, NothingLeftStep, RetainedStep
<1> QED BY <1>3, <1>4, <1>5, <1>6, <1>7 DEF IInv

\* The invariant always holds.
LEMMA Invariant == Spec => []IInv
<1>1. Init => IInv
  BY InitInv
<1>2. IInv /\ [Next]_vars => IInv'
  BY NextInv
<1> QED BY <1>1, <1>2, PTL DEF Spec

\* The variables of the publisher, the eventloop and the broker keep their types; no
\* queue exceeds QUEUE_CAPACITY, no window the limit of the eventloop.
THEOREM TypeCorrect == Spec => []TypeOK
<1>1. IInv => TypeOK
  BY DEF IInv
<1> QED BY <1>1, Invariant, PTL

\* The batches of mqtt.rs reach the broker in the order of their windows, across any number
\* of reconnects of which none comes in the middle of a resend or with more to resend than
\* the window holds: at QoS 1 and 2 without a gap but for batches dropped with the session,
\* and at QoS 0 and 2 without a repeat.
THEOREM InOrder == Spec => []BatchesInOrder
<1>1. IInv => BatchesInOrder
  BY DEF IInv
<1> QED BY <1>1, Invariant, PTL

\* When the broker has the DISCONNECT of run_publisher, and no connection was lost in the
\* middle of a resend or with more to resend than the window holds, it has every batch that
\* was queued, and the "offline", except what a new session made the client drop (at QoS 0
\* the batches only of a single connection).
THEOREM CleanStopIsComplete == Spec => []NothingLeftBehind
<1>1. IInv => NothingLeftBehind
  BY DEF IInv
<1> QED BY <1>1, Invariant, PTL

\* The status that the broker retains does not mislead: "offline" after a clean stop that
\* no announcement disturbs, and no "online" without a will or a stop to replace it.
THEOREM RetainedStatusIsTrue == Spec => []RetainedIsTrue
<1>1. IInv => RetainedIsTrue
  BY DEF IInv
<1> QED BY <1>1, Invariant, PTL
=============================================================================

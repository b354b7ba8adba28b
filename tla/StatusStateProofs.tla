-------------------------- MODULE StatusStateProofs --------------------------
(***************************************************************************)
(* Proofs about StatusState, for any set of connections, any number of     *)
(* devices and any capacity of the channel: the status writer catches up   *)
(* with the gateway exactly, and apply tells the changes that the status   *)
(* file shows.                                                             *)
(***************************************************************************)
EXTENDS StatusState, FiniteSetTheorems, WellFoundedInduction, TLAPS

States == [mqtt : BOOLEAN, up : [Conns -> BOOLEAN], health : [Conns -> [Devs -> Healths]]]

\* v leads from state s through the events es.
Path(v, s, es) ==
    /\ v \in [0 .. Len(es) -> States]
    /\ v[0] = s
    /\ \A i \in 1 .. Len(es) : v[i] = Apply(v[i - 1], es[i])

\* The events still queued lead to what the gateway's tasks last knew.
PathInv == faithful => \E v \in [0 .. Len(chan) -> States] :
                            Path(v, st, chan) /\ v[Len(chan)] = Actual

IInv == TypeOK /\ PathInv

-----------------------------------------------------------------------------
\* A device's results are told apart from those it has not had.
LEMMA ResultFacts ==
  /\ "ok" \in Results /\ Reasons \subseteq Results /\ Results \subseteq Healths /\ "unknown" \in Healths
  /\ "ok" \notin Reasons /\ "unknown" \notin Reasons /\ "ok" # "unknown"
  /\ \A r \in Results : r = "ok" \/ r \in Reasons
BY StatusAssumption DEF Results, Healths

\* The events, by their kinds.
LEMMA EventFacts ==
  ASSUME NEW e \in StatusEvent
  PROVE  \/ e.kind = "MqttConnected" \/ e.kind = "MqttDisconnected"
         \/ e.kind = "ConnectionUp" /\ e.conn \in Conns
         \/ e.kind = "ConnectionDown" /\ e.conn \in Conns
         \/ e.kind = "Device" /\ e.conn \in Conns /\ e.device \in Devs /\ e.result \in Results
<1>1. CASE \E k \in ConnKinds, c \in Conns : e = ConnEvent(k, c)
  BY <1>1 DEF ConnEvent, ConnKinds
<1>2. CASE \E r \in Results, c \in Conns, d \in Devs : e = DeviceEvent(r, c, d)
  BY <1>2 DEF DeviceEvent
<1>3. CASE \E k \in MqttKinds : e = MqttEvent(k)
  BY <1>3 DEF MqttEvent, MqttKinds
<1> QED BY <1>1, <1>2, <1>3 DEF StatusEvent

\* Every event is one of StatusEvent, and its fields are what they were made of.
LEMMA MadeEvents ==
  /\ \A k \in ConnKinds, c \in Conns :
        ConnEvent(k, c) \in StatusEvent /\ ConnEvent(k, c).kind = k /\ ConnEvent(k, c).conn = c
  /\ \A r \in Results, c \in Conns, d \in Devs :
        /\ DeviceEvent(r, c, d) \in StatusEvent /\ DeviceEvent(r, c, d).kind = "Device"
        /\ DeviceEvent(r, c, d).conn = c /\ DeviceEvent(r, c, d).device = d
        /\ DeviceEvent(r, c, d).result = r
  /\ \A k \in MqttKinds : MqttEvent(k) \in StatusEvent /\ MqttEvent(k).kind = k
<1>1. /\ \A k, c : ConnEvent(k, c).kind = k /\ ConnEvent(k, c).conn = c
      /\ \A r, c, d : /\ DeviceEvent(r, c, d).kind = "Device" /\ DeviceEvent(r, c, d).conn = c
                      /\ DeviceEvent(r, c, d).device = d /\ DeviceEvent(r, c, d).result = r
      /\ \A k : MqttEvent(k).kind = k
  BY DEF ConnEvent, DeviceEvent, MqttEvent
<1>2. /\ \A k \in ConnKinds, c \in Conns : ConnEvent(k, c) \in StatusEvent
      /\ \A r \in Results, c \in Conns, d \in Devs : DeviceEvent(r, c, d) \in StatusEvent
      /\ \A k \in MqttKinds : MqttEvent(k) \in StatusEvent
  BY DEF StatusEvent
<1> QED BY <1>1, <1>2

\* What each kind of event does to the state.
LEMMA ApplyFacts ==
  ASSUME NEW s \in States, NEW e \in StatusEvent
  PROVE  /\ e.kind = "MqttConnected" => Apply(s, e) = [s EXCEPT !.mqtt = TRUE]
         /\ e.kind = "MqttDisconnected" => Apply(s, e) = [s EXCEPT !.mqtt = FALSE]
         /\ e.kind = "ConnectionUp" =>
                Apply(s, e) = IF s.up[e.conn] THEN s
                              ELSE [s EXCEPT !.up[e.conn] = TRUE,
                                             !.health[e.conn] = [d \in Devs |-> "unknown"]]
         /\ e.kind = "ConnectionDown" => Apply(s, e) = [s EXCEPT !.up[e.conn] = FALSE]
         /\ e.kind = "Device" =>
                Apply(s, e) = [s EXCEPT !.up[e.conn] = TRUE, !.health[e.conn][e.device] = e.result]
<1>1. CASE e.kind = "MqttConnected"
  BY <1>1 DEF Apply, MqttKinds
<1>2. CASE e.kind = "MqttDisconnected"
  BY <1>2 DEF Apply, MqttKinds
<1>3. CASE e.kind = "ConnectionUp"
  BY <1>3 DEF Apply, MqttKinds
<1>4. CASE e.kind = "ConnectionDown"
  BY <1>4 DEF Apply, MqttKinds
<1>5. CASE e.kind = "Device"
  BY <1>5 DEF Apply, MqttKinds
<1> QED BY <1>1, <1>2, <1>3, <1>4, <1>5, EventFacts

\* The state keeps its type.
LEMMA ApplyType ==
  ASSUME NEW s \in States, NEW e \in StatusEvent
  PROVE  Apply(s, e) \in States
<1>0. /\ \A m \in BOOLEAN : [s EXCEPT !.mqtt = m] \in States
      /\ \A u \in [Conns -> BOOLEAN], h \in [Conns -> [Devs -> Healths]] :
            [s EXCEPT !.up = u, !.health = h] \in States /\ [s EXCEPT !.up = u] \in States
  BY DEF States
<1>1. CASE e.kind = "MqttConnected" \/ e.kind = "MqttDisconnected"
  BY <1>0, <1>1, ApplyFacts
<1>2. CASE e.kind = "ConnectionUp" /\ e.conn \in Conns
  <2> DEFINE h == [s.health EXCEPT ![e.conn] = [d \in Devs |-> "unknown"]]
             u == [s.up EXCEPT ![e.conn] = TRUE]
  <2>1. h \in [Conns -> [Devs -> Healths]] /\ u \in [Conns -> BOOLEAN]
    BY <1>2, ResultFacts DEF States
  <2>2. Apply(s, e) = s \/ Apply(s, e) = [s EXCEPT !.up = u, !.health = h]
    BY <1>2, ApplyFacts DEF States
  <2> HIDE DEF h, u
  <2> QED BY <1>0, <2>1, <2>2
<1>3. CASE e.kind = "ConnectionDown" /\ e.conn \in Conns
  <2> DEFINE u == [s.up EXCEPT ![e.conn] = FALSE]
  <2>1. u \in [Conns -> BOOLEAN] /\ s.health \in [Conns -> [Devs -> Healths]]
    BY <1>3 DEF States
  <2>2. Apply(s, e) = [s EXCEPT !.up = u]
    BY <1>3, ApplyFacts DEF States
  <2> HIDE DEF u
  <2> QED BY <1>0, <2>1, <2>2
<1>4. CASE e.kind = "Device" /\ e.conn \in Conns /\ e.device \in Devs /\ e.result \in Results
  <2> DEFINE h == [s.health EXCEPT ![e.conn] = [s.health[e.conn] EXCEPT ![e.device] = e.result]]
             u == [s.up EXCEPT ![e.conn] = TRUE]
  <2>1. h \in [Conns -> [Devs -> Healths]] /\ u \in [Conns -> BOOLEAN]
    BY <1>4, ResultFacts DEF States
  <2>2. Apply(s, e) = [s EXCEPT !.up = u, !.health = h]
    BY <1>4, ApplyFacts DEF States
  <2> HIDE DEF h, u
  <2> QED BY <1>0, <2>1, <2>2
<1> QED BY <1>1, <1>2, <1>3, <1>4, EventFacts


-----------------------------------------------------------------------------
\* What the status file shows of a connection that is up.
Shown(h) == <<Cardinality({d \in Devs : h[d] = "ok"}),
              {<<d, h[d]>> : d \in {x \in Devs : h[x] \in Reasons}}>>

\* A result that is another than the last one shows.
LEMMA NewResultShows ==
  ASSUME NEW h \in [Devs -> Healths], NEW d \in Devs, NEW r \in Results, h[d] # r
  PROVE  Shown([h EXCEPT ![d] = r]) # Shown(h)
<1> DEFINE k == [h EXCEPT ![d] = r]
           Oks(f) == {x \in Devs : f[x] = "ok"}
           Problems(f) == {<<x, f[x]>> : x \in {y \in Devs : f[y] \in Reasons}}
<1>1. k[d] = r /\ \A x \in Devs : x # d => k[x] = h[x]
  OBVIOUS
<1> HIDE DEF k
<1>2. CASE r = "ok"
  <2>1. Oks(k) = Oks(h) \cup {d} /\ d \notin Oks(h)
    BY <1>1, <1>2
  <2>2. IsFiniteSet(Oks(h))
    <3>1. IsFiniteSet(1 .. N)
      BY StatusAssumption, FS_Interval
    <3>2. Oks(h) \in SUBSET Devs /\ Devs = 1 .. N
      BY DEF Devs
    <3> HIDE DEF Oks
    <3> QED BY <3>1, <3>2, FS_Subset
  <2>3. Cardinality(Oks(k)) = Cardinality(Oks(h)) + 1 /\ Cardinality(Oks(h)) \in Nat
    <3> HIDE DEF Oks
    <3>1. Cardinality(Oks(h) \cup {d}) = Cardinality(Oks(h)) + 1
      BY <2>1, <2>2, FS_AddElement
    <3> QED BY <2>1, <2>2, <3>1, FS_CardinalityType
  <2>4. Shown(k)[1] = Cardinality(Oks(k)) /\ Shown(h)[1] = Cardinality(Oks(h))
    BY DEF Shown
  <2> HIDE DEF Oks
  <2>5. Shown(k)[1] # Shown(h)[1]
    BY <2>3, <2>4
  <2> QED BY <2>5 DEF k
<1>3. CASE r \in Reasons
  <2>1. <<d, r>> \in Problems(k)
    BY <1>1, <1>3
  <2>2. <<d, r>> \notin Problems(h)
    OBVIOUS
  <2>3. Shown(k)[2] = Problems(k) /\ Shown(h)[2] = Problems(h)
    BY DEF Shown
  <2> HIDE DEF Problems
  <2>4. Shown(k)[2] # Shown(h)[2]
    BY <2>1, <2>2, <2>3
  <2> QED BY <2>4 DEF k
<1> QED BY <1>2, <1>3, ResultFacts

\* The text shows the broker, and of a connection whether it is up and its devices.
LEMMA RenderFacts ==
  ASSUME NEW s, NEW t
  PROVE  /\ Render(s).mqtt = s.mqtt
         /\ \A c \in Conns : /\ s.up[c] => Render(s).connections[c] = Shown(s.health[c])
                             /\ ~s.up[c] => Render(s).connections[c] = <<>>
         /\ \A h : Shown(h) # <<>>
BY DEF Render, Shown

\* Whether a write is due, by the kind of the event.
LEMMA ChangesFacts ==
  ASSUME NEW s \in States, NEW e \in StatusEvent
  PROVE  /\ e.kind = "MqttConnected" => (Changes(s, e) <=> s.mqtt # TRUE)
         /\ e.kind = "MqttDisconnected" => (Changes(s, e) <=> s.mqtt # FALSE)
         /\ e.kind = "ConnectionUp" => (Changes(s, e) <=> s.up[e.conn] # TRUE)
         /\ e.kind = "ConnectionDown" => (Changes(s, e) <=> s.up[e.conn] # FALSE)
         /\ e.kind = "Device" =>
                (Changes(s, e) <=> ~s.up[e.conn] \/ s.health[e.conn][e.device] # e.result)
<1>1. CASE e.kind = "MqttConnected"
  <2>1. e.kind \in MqttKinds /\ e.kind # "Device" /\ e.kind \notin ConnKinds
    BY <1>1 DEF MqttKinds, ConnKinds
  <2>2. Changes(s, e) = (s.mqtt # (e.kind = "MqttConnected"))
    BY <2>1, Zenon DEF Changes
  <2> QED BY <1>1, <2>2, Zenon
<1>2. CASE e.kind = "MqttDisconnected"
  <2>1. /\ e.kind \in MqttKinds /\ e.kind # "Device" /\ e.kind \notin ConnKinds
        /\ e.kind # "MqttConnected"
    BY <1>2 DEF MqttKinds, ConnKinds
  <2>2. Changes(s, e) = (s.mqtt # (e.kind = "MqttConnected"))
    BY <2>1, Zenon DEF Changes
  <2> QED BY <1>2, <2>1, <2>2, Zenon
<1>3. CASE e.kind = "ConnectionUp"
  BY <1>3 DEF Changes, MqttKinds, ConnKinds
<1>4. CASE e.kind = "ConnectionDown"
  BY <1>4 DEF Changes, MqttKinds, ConnKinds
<1>5. CASE e.kind = "Device"
  BY <1>5 DEF Changes, MqttKinds, ConnKinds
<1> QED BY <1>1, <1>2, <1>3, <1>4, <1>5, EventFacts

\* What an event makes of the fields that it is about.
LEMMA AppliedFields ==
  ASSUME NEW s \in States, NEW e \in StatusEvent
  PROVE  /\ e.kind = "MqttConnected" => Apply(s, e).mqtt = TRUE
         /\ e.kind = "MqttDisconnected" => Apply(s, e).mqtt = FALSE
         /\ e.kind = "ConnectionUp" /\ e.conn \in Conns /\ s.up[e.conn] # TRUE =>
                Apply(s, e).up[e.conn] = TRUE
         /\ e.kind = "ConnectionDown" /\ e.conn \in Conns => Apply(s, e).up[e.conn] = FALSE
         /\ e.kind = "Device" /\ e.conn \in Conns =>
                /\ Apply(s, e).up[e.conn] = TRUE
                /\ Apply(s, e).health[e.conn] = [s.health[e.conn] EXCEPT ![e.device] = e.result]
<1>1. /\ [s EXCEPT !.mqtt = TRUE].mqtt = TRUE /\ [s EXCEPT !.mqtt = FALSE].mqtt = FALSE
      /\ \A c \in Conns : [s EXCEPT !.up[c] = FALSE].up[c] = FALSE
      /\ \A c \in Conns : \A h : [s EXCEPT !.up[c] = TRUE, !.health[c] = h].up[c] = TRUE
      /\ \A c \in Conns : \A d, r :
            /\ [s EXCEPT !.up[c] = TRUE, !.health[c][d] = r].up[c] = TRUE
            /\ [s EXCEPT !.up[c] = TRUE, !.health[c][d] = r].health[c] = [s.health[c] EXCEPT ![d] = r]
  BY DEF States
<1>2. CASE e.kind = "MqttConnected" \/ e.kind = "MqttDisconnected"
  BY <1>1, <1>2, ApplyFacts
<1>3. CASE e.kind = "ConnectionUp"
  BY <1>1, <1>3, ApplyFacts
<1>4. CASE e.kind = "ConnectionDown"
  BY <1>1, <1>4, ApplyFacts
<1>5. CASE e.kind = "Device"
  <2>1. Apply(s, e) = [s EXCEPT !.up[e.conn] = TRUE, !.health[e.conn][e.device] = e.result]
    BY <1>5, ApplyFacts
  <2> DEFINE t == [s EXCEPT !.up[e.conn] = TRUE, !.health[e.conn][e.device] = e.result]
  <2>2. e.conn \in Conns => t.up[e.conn] = TRUE
                            /\ t.health[e.conn] = [s.health[e.conn] EXCEPT ![e.device] = e.result]
    BY <1>1
  <2>3. Apply(s, e) = t
    BY <2>1
  <2> HIDE DEF t
  <2> QED BY <1>5, <2>2, <2>3
<1> QED BY <1>2, <1>3, <1>4, <1>5, EventFacts

\* An event that shows is one of which apply says so, ...
LEMMA ChangeShows ==
  ASSUME NEW s \in States, NEW e \in StatusEvent, Changes(s, e)
  PROVE  Render(Apply(s, e)) # Render(s)
<1> DEFINE t == Apply(s, e)
<1>1. CASE e.kind = "MqttConnected" \/ e.kind = "MqttDisconnected"
  <2>1. t.mqtt # s.mqtt
    BY <1>1, AppliedFields, ChangesFacts, Zenon
  <2> QED BY <2>1, RenderFacts
<1>2. CASE (e.kind = "ConnectionUp" \/ e.kind = "ConnectionDown") /\ e.conn \in Conns
  <2>1. (t.up[e.conn] /\ ~s.up[e.conn]) \/ (~t.up[e.conn] /\ s.up[e.conn])
    <3>1. s.up[e.conn] \in BOOLEAN
      BY <1>2 DEF States
    <3>2. CASE e.kind = "ConnectionUp"
      BY <1>2, <3>1, <3>2, AppliedFields, ChangesFacts, Zenon
    <3>3. CASE e.kind = "ConnectionDown"
      BY <1>2, <3>1, <3>3, AppliedFields, ChangesFacts, Zenon
    <3> QED BY <1>2, <3>2, <3>3
  <2> HIDE DEF t
  <2>2. Render(t).connections[e.conn] # Render(s).connections[e.conn]
    BY <1>2, <2>1, RenderFacts
  <2> QED BY <2>2 DEF t
<1>3. CASE e.kind = "Device" /\ e.conn \in Conns /\ e.device \in Devs /\ e.result \in Results
  <2> DEFINE c == e.conn
  <2>1. /\ t.up[c] /\ t.health[c] = [s.health[c] EXCEPT ![e.device] = e.result]
        /\ s.health[c] \in [Devs -> Healths]
    <3>1. s.health[c] \in [Devs -> Healths]
      BY <1>3 DEF States
    <3> QED BY <1>3, <3>1, AppliedFields, Zenon
  <2>2. ~s.up[c] \/ s.health[c][e.device] # e.result
    BY <1>3, ChangesFacts
  <2> HIDE DEF t
  <2>3. CASE ~s.up[c]
    <3>1. Render(t).connections[c] # Render(s).connections[c]
      BY <1>3, <2>1, <2>3, RenderFacts
    <3> QED BY <3>1 DEF t
  <2>4. CASE s.up[c]
    <3>1. Render(t).connections[c] = Shown(t.health[c]) /\ Render(s).connections[c] = Shown(s.health[c])
      BY <1>3, <2>1, <2>4, RenderFacts
    <3>2. Shown(t.health[c]) # Shown(s.health[c])
      BY <1>3, <2>1, <2>2, <2>4, NewResultShows
    <3> QED BY <3>1, <3>2 DEF t
  <2> QED BY <2>3, <2>4
<1> QED BY <1>1, <1>2, <1>3, EventFacts

\* ... and any other leaves the state as it was.
LEMMA NoChangeKeeps ==
  ASSUME NEW s \in States, NEW e \in StatusEvent, ~Changes(s, e)
  PROVE  Apply(s, e) = s
<1>1. CASE e.kind = "MqttConnected"
  <2>1. Apply(s, e) = [s EXCEPT !.mqtt = TRUE] /\ s.mqtt = TRUE
    BY <1>1, ApplyFacts, ChangesFacts
  <2> QED BY <2>1 DEF States
<1>2. CASE e.kind = "MqttDisconnected"
  <2>1. Apply(s, e) = [s EXCEPT !.mqtt = FALSE] /\ s.mqtt = FALSE
    BY <1>2, ApplyFacts, ChangesFacts
  <2> QED BY <2>1 DEF States
<1>3. CASE e.kind = "ConnectionUp" /\ e.conn \in Conns
  BY <1>3, ApplyFacts, ChangesFacts
<1>4. CASE e.kind = "ConnectionDown" /\ e.conn \in Conns
  <2>1. Apply(s, e) = [s EXCEPT !.up[e.conn] = FALSE] /\ s.up[e.conn] = FALSE
    BY <1>4, ApplyFacts, ChangesFacts
  <2>2. [s.up EXCEPT ![e.conn] = FALSE] = s.up
    BY <1>4, <2>1 DEF States
  <2> QED BY <2>1, <2>2 DEF States
<1>5. CASE e.kind = "Device" /\ e.conn \in Conns /\ e.device \in Devs /\ e.result \in Results
  <2>1. /\ Apply(s, e) = [s EXCEPT !.up[e.conn] = TRUE, !.health[e.conn][e.device] = e.result]
        /\ s.up[e.conn] = TRUE /\ s.health[e.conn][e.device] = e.result
    BY <1>5, ApplyFacts, ChangesFacts DEF States
  <2>2. [s.up EXCEPT ![e.conn] = TRUE] = s.up
    BY <1>5, <2>1 DEF States
  <2>3. [s.health EXCEPT ![e.conn] = [s.health[e.conn] EXCEPT ![e.device] = e.result]] = s.health
    BY <1>5, <2>1 DEF States
  <2>4. [s EXCEPT !.up = s.up, !.health = s.health] = s
    BY DEF States
  <2>5. Apply(s, e) = [s EXCEPT !.up = [s.up EXCEPT ![e.conn] = TRUE],
            !.health = [s.health EXCEPT ![e.conn] = [s.health[e.conn] EXCEPT ![e.device] = e.result]]]
    BY <2>1
  <2> QED BY <2>2, <2>3, <2>4, <2>5
<1> QED BY <1>1, <1>2, <1>3, <1>4, <1>5, EventFacts


-----------------------------------------------------------------------------
\* A set of numbers has a least one.
LEMMA LeastElement ==
  ASSUME NEW T, T \subseteq Nat, T # {}
  PROVE  \E x \in T : \A y \in T : x <= y
<1>1. IsWellFoundedOn(OpToRel(<, Nat), Nat)
  BY NatLessThanWellFounded
<1>2. PICK x \in T : \A y \in T : <<y, x>> \notin OpToRel(<, Nat)
  BY <1>1, WFMin
<1>3. ASSUME NEW y \in T PROVE x <= y
  <2>1. x \in Nat /\ y \in Nat
    OBVIOUS
  <2>2. ~(y < x)
    BY <1>2, <2>1 DEF OpToRel
  <2> QED BY <2>1, <2>2
<1> QED BY <1>3

\* A path through the events ends in the state after them: two functions that obey the same
\* recursion agree, for there is no first place where they differ.
LEMMA AfterPath ==
  ASSUME NEW s, NEW es \in Seq(StatusEvent), NEW v, Path(v, s, es)
  PROVE  AfterAll(s, es) = v[Len(es)]
<1> DEFINE n == Len(es)
           Obeys(g) == g = [i \in 0 .. n |-> IF i = 0 THEN s ELSE Apply(g[i - 1], es[i])]
           after == CHOOSE g : Obeys(g)
<1>1. AfterAll(s, es) = after[n]
  BY DEF AfterAll
<1>2. n \in Nat
  OBVIOUS
<1> HIDE DEF n
<1>3. Obeys(v)
  <2>1. v = [i \in 0 .. n |-> v[i]]
    BY DEF Path, n
  <2>2. ASSUME NEW i \in 0 .. n
        PROVE  v[i] = IF i = 0 THEN s ELSE Apply(v[i - 1], es[i])
    <3>1. CASE i = 0
      BY <3>1 DEF Path
    <3>2. CASE i # 0
      <4>1. i \in 1 .. n
        BY <1>2, <3>2
      <4> QED BY <3>2, <4>1 DEF Path, n
    <3> QED BY <3>1, <3>2
  <2> QED BY <2>1, <2>2
<1>4. Obeys(after)
  BY <1>3
<1> HIDE DEF after
<1>5. /\ v[0] = after[0]
      /\ \A i \in 1 .. n : v[i] = Apply(v[i - 1], es[i]) /\ after[i] = Apply(after[i - 1], es[i])
  <2>1. 0 \in 0 .. n /\ \A i \in 1 .. n : i \in 0 .. n /\ i # 0
    BY <1>2
  <2> QED BY <1>3, <1>4, <2>1
<1> HIDE DEF Obeys
<1>6. ASSUME NEW i \in 0 .. n PROVE v[i] = after[i]
  <2> DEFINE T == {j \in 0 .. n : v[j] # after[j]}
  <2>1. SUFFICES ASSUME T # {} PROVE FALSE
    BY <1>6
  <2>2. PICK j \in T : \A k \in T : j <= k
    <3>1. T \subseteq Nat
      OBVIOUS
    <3> HIDE DEF T
    <3> QED BY <2>1, <3>1, LeastElement
  <2>3. j \in 1 .. n /\ j - 1 \in 0 .. n /\ ~(j <= j - 1)
    BY <1>2, <1>5
  <2>4. v[j - 1] = after[j - 1]
    BY <2>2, <2>3
  <2> QED BY <1>5, <2>3, <2>4
<1> QED BY <1>1, <1>2, <1>6 DEF n

\* One more event at the end of a path, ...
LEMMA PathAppend ==
  ASSUME NEW s, NEW es \in Seq(StatusEvent), NEW e \in StatusEvent,
         NEW v \in [0 .. Len(es) -> States], Path(v, s, es)
  PROVE  \E w \in [0 .. Len(es) + 1 -> States] :
            Path(w, s, Append(es, e)) /\ w[Len(es) + 1] = Apply(v[Len(es)], e)
<1> DEFINE n == Len(es)
           w == [i \in 0 .. n + 1 |-> IF i <= n THEN v[i] ELSE Apply(v[n], e)]
<1>1. n \in Nat /\ v[0] = s /\ \A i \in 1 .. n : v[i] = Apply(v[i - 1], es[i])
  BY DEF Path
<1>2. Len(Append(es, e)) = n + 1 /\ Append(es, e)[n + 1] = e
      /\ \A i \in 1 .. n : Append(es, e)[i] = es[i]
  OBVIOUS
<1>3. \A i \in 0 .. n : v[i] \in States
  OBVIOUS
<1> HIDE DEF n
<1>4. n \in 0 .. n /\ Apply(v[n], e) \in States
  BY <1>1, <1>3, ApplyType
<1>5. w \in [0 .. n + 1 -> States]
  BY <1>1, <1>3, <1>4
<1>6. w[n + 1] = Apply(v[n], e) /\ \A i \in 0 .. n : w[i] = v[i]
  BY <1>1
<1> HIDE DEF w
<1>7. ASSUME NEW i \in 1 .. n + 1 PROVE w[i] = Apply(w[i - 1], Append(es, e)[i])
  <2>1. i - 1 \in 0 .. n
    BY <1>1
  <2>2. CASE i = n + 1
    <3>1. i - 1 = n
      BY <1>1, <2>2
    <3> QED BY <1>2, <1>6, <2>1, <2>2, <3>1
  <2>3. CASE i # n + 1
    <3>1. i \in 1 .. n /\ i \in 0 .. n
      BY <1>1, <2>3
    <3> QED BY <1>1, <1>2, <1>6, <2>1, <3>1
  <2> QED BY <2>2, <2>3
<1>8. w[0] = s
  BY <1>1, <1>6
<1>9. Path(w, s, Append(es, e))
  BY <1>2, <1>5, <1>7, <1>8 DEF Path
<1> QED BY <1>5, <1>6, <1>9 DEF n

\* ... and one less at its beginning.
LEMMA PathTail ==
  ASSUME NEW s, NEW es \in Seq(StatusEvent), es # <<>>,
         NEW v \in [0 .. Len(es) -> States], Path(v, s, es)
  PROVE  \E w \in [0 .. Len(Tail(es)) -> States] :
            Path(w, Apply(s, Head(es)), Tail(es)) /\ w[Len(Tail(es))] = v[Len(es)]
<1> DEFINE n == Len(es)
           w == [i \in 0 .. n - 1 |-> v[i + 1]]
<1>1. n \in Nat \ {0} /\ v[0] = s /\ \A i \in 1 .. n : v[i] = Apply(v[i - 1], es[i])
  BY DEF Path
<1>2. Len(Tail(es)) = n - 1 /\ Head(es) = es[1] /\ \A i \in 1 .. n - 1 : Tail(es)[i] = es[i + 1]
  OBVIOUS
<1>3. \A i \in 0 .. n : v[i] \in States
  OBVIOUS
<1> HIDE DEF n
<1>4. w \in [0 .. n - 1 -> States] /\ \A i \in 0 .. n - 1 : w[i] = v[i + 1]
  BY <1>1, <1>3
<1> HIDE DEF w
<1>5. w[0] = Apply(s, Head(es)) /\ w[n - 1] = v[n]
  <2>1. 0 \in 0 .. n - 1 /\ n - 1 \in 0 .. n - 1 /\ (n - 1) + 1 = n /\ 1 \in 1 .. n /\ 1 - 1 = 0
        /\ 0 + 1 = 1
    BY <1>1
  <2>2. w[0] = v[1] /\ w[n - 1] = v[n]
    BY <1>4, <2>1
  <2> QED BY <1>1, <1>2, <2>1, <2>2
<1>6. ASSUME NEW i \in 1 .. n - 1 PROVE w[i] = Apply(w[i - 1], Tail(es)[i])
  <2>1. /\ i \in 0 .. n - 1 /\ i - 1 \in 0 .. n - 1 /\ (i - 1) + 1 = i /\ i + 1 \in 1 .. n
        /\ (i + 1) - 1 = i
    BY <1>1
  <2>2. w[i] = v[i + 1] /\ w[i - 1] = v[i]
    BY <1>4, <2>1
  <2> QED BY <1>1, <1>2, <2>1, <2>2
<1>7. Path(w, Apply(s, Head(es)), Tail(es))
  BY <1>2, <1>4, <1>5, <1>6 DEF Path
<1> QED BY <1>2, <1>4, <1>5, <1>7 DEF n


-----------------------------------------------------------------------------
\* What the tasks report, by the step, and what they knew of themselves after it.
Reporting(e) == Report(e) /\ e \in StatusEvent /\ Actual' = Apply(Actual, e)

\* A state is its fields.
LEMMA SameState ==
  ASSUME NEW s \in States, NEW t \in States, s.mqtt = t.mqtt, s.up = t.up, s.health = t.health
  PROVE  s = t
BY DEF States

\* What each kind of event makes of a state, by its fields.
LEMMA ApplyTo ==
  ASSUME NEW s \in States, NEW t \in States, NEW e \in StatusEvent
  PROVE  /\ /\ e.kind = "MqttConnected"
            /\ t.mqtt = TRUE /\ t.up = s.up /\ t.health = s.health
            => t = Apply(s, e)
         /\ /\ e.kind = "MqttDisconnected"
            /\ t.mqtt = FALSE /\ t.up = s.up /\ t.health = s.health
            => t = Apply(s, e)
         /\ /\ e.kind = "ConnectionUp" /\ e.conn \in Conns /\ ~s.up[e.conn]
            /\ t.mqtt = s.mqtt /\ t.up = [s.up EXCEPT ![e.conn] = TRUE]
            /\ t.health = [s.health EXCEPT ![e.conn] = [d \in Devs |-> "unknown"]]
            => t = Apply(s, e)
         /\ /\ e.kind = "ConnectionDown" /\ e.conn \in Conns
            /\ t.mqtt = s.mqtt /\ t.up = [s.up EXCEPT ![e.conn] = FALSE] /\ t.health = s.health
            => t = Apply(s, e)
         /\ /\ e.kind = "Device" /\ e.conn \in Conns /\ e.device \in Devs /\ e.result \in Results
            /\ t.mqtt = s.mqtt /\ t.up = [s.up EXCEPT ![e.conn] = TRUE]
            /\ t.health = [s.health EXCEPT ![e.conn] = [s.health[e.conn] EXCEPT ![e.device] = e.result]]
            => t = Apply(s, e)
<1>0. Apply(s, e) \in States
  BY ApplyType
<1>1. ASSUME e.kind = "MqttConnected", t.mqtt = TRUE, t.up = s.up, t.health = s.health
      PROVE  t = Apply(s, e)
  <2>1. [s EXCEPT !.mqtt = TRUE].mqtt = TRUE /\ [s EXCEPT !.mqtt = TRUE].up = s.up
        /\ [s EXCEPT !.mqtt = TRUE].health = s.health
    BY DEF States
  <2> QED BY <1>0, <1>1, <2>1, ApplyFacts, SameState
<1>2. ASSUME e.kind = "MqttDisconnected", t.mqtt = FALSE, t.up = s.up, t.health = s.health
      PROVE  t = Apply(s, e)
  <2>1. [s EXCEPT !.mqtt = FALSE].mqtt = FALSE /\ [s EXCEPT !.mqtt = FALSE].up = s.up
        /\ [s EXCEPT !.mqtt = FALSE].health = s.health
    BY DEF States
  <2> QED BY <1>0, <1>2, <2>1, ApplyFacts, SameState
<1>3. ASSUME e.kind = "ConnectionUp", e.conn \in Conns, ~s.up[e.conn],
             t.mqtt = s.mqtt, t.up = [s.up EXCEPT ![e.conn] = TRUE],
             t.health = [s.health EXCEPT ![e.conn] = [d \in Devs |-> "unknown"]]
      PROVE  t = Apply(s, e)
  <2> DEFINE x == [d \in Devs |-> "unknown"]
             a == Apply(s, e)
  <2>1. a = [s EXCEPT !.up[e.conn] = TRUE, !.health[e.conn] = x]
    BY <1>3, ApplyFacts
  <2>2. t.health = [s.health EXCEPT ![e.conn] = x] /\ a \in States
    BY <1>0, <1>3
  <2> HIDE DEF x, a
  <2>3. a.mqtt = s.mqtt /\ a.up = [s.up EXCEPT ![e.conn] = TRUE]
        /\ a.health = [s.health EXCEPT ![e.conn] = x]
    BY <2>1 DEF States
  <2>4. t = a
    BY <1>3, <2>2, <2>3, SameState
  <2> QED BY <2>4 DEF a
<1>4. ASSUME e.kind = "ConnectionDown", e.conn \in Conns,
             t.mqtt = s.mqtt, t.up = [s.up EXCEPT ![e.conn] = FALSE], t.health = s.health
      PROVE  t = Apply(s, e)
  <2> DEFINE a == Apply(s, e)
  <2>1. a = [s EXCEPT !.up[e.conn] = FALSE] /\ a \in States
    BY <1>0, <1>4, ApplyFacts
  <2> HIDE DEF a
  <2>2. a.mqtt = s.mqtt /\ a.up = [s.up EXCEPT ![e.conn] = FALSE] /\ a.health = s.health
    BY <2>1 DEF States
  <2>3. t.mqtt = a.mqtt /\ t.up = a.up /\ t.health = a.health
    BY <1>4, <2>2, Zenon
  <2>4. t = a
    BY <2>1, <2>3, SameState
  <2> QED BY <2>4 DEF a
<1>5. ASSUME e.kind = "Device", e.conn \in Conns, e.device \in Devs, e.result \in Results,
             t.mqtt = s.mqtt, t.up = [s.up EXCEPT ![e.conn] = TRUE],
             t.health = [s.health EXCEPT ![e.conn] = [s.health[e.conn] EXCEPT ![e.device] = e.result]]
      PROVE  t = Apply(s, e)
  <2> DEFINE a == Apply(s, e)
  <2>1. a = [s EXCEPT !.up[e.conn] = TRUE, !.health[e.conn][e.device] = e.result] /\ a \in States
    BY <1>0, <1>5, ApplyFacts
  <2> HIDE DEF a
  <2>2. /\ a.mqtt = s.mqtt /\ a.up = [s.up EXCEPT ![e.conn] = TRUE]
        /\ a.health = [s.health EXCEPT ![e.conn] = [s.health[e.conn] EXCEPT ![e.device] = e.result]]
    BY <2>1 DEF States
  <2>3. t.mqtt = a.mqtt /\ t.up = a.up /\ t.health = a.health
    BY <1>5, <2>2, Zenon
  <2>4. t = a
    BY <2>1, <2>3, SameState
  <2> QED BY <2>4 DEF a
<1> QED BY <1>1, <1>2, <1>3, <1>4, <1>5

\* The variables keep their types: the tasks, ...
LEMMA ReportersType ==
  ASSUME TypeOK, [Next]_vars
  PROVE  /\ link' \in [Conns -> {"down", "up"}] /\ next' \in [Conns -> Devs]
         /\ latest' \in [Conns -> [Devs -> Healths]] /\ broker' \in BOOLEAN
<1>0. /\ link \in [Conns -> {"down", "up"}] /\ next \in [Conns -> Devs]
      /\ latest \in [Conns -> [Devs -> Healths]] /\ broker \in BOOLEAN /\ 1 \in Devs
  BY StatusAssumption DEF TypeOK, Devs
<1>1. CASE \E c \in Conns : ReportUp(c)
  <2>1. PICK c \in Conns : ReportUp(c)
    BY <1>1
  <2>2. [d \in Devs |-> "unknown"] \in [Devs -> Healths]
    BY ResultFacts
  <2> QED BY <1>0, <2>1, <2>2 DEF ReportUp
<1>2. CASE \E c \in Conns : ReportDown(c) \/ EndSilently(c)
  BY <1>0, <1>2 DEF ReportDown, EndSilently
<1>3. CASE \E c \in Conns, r \in Results : ReportDevice(c, r)
  <2>1. PICK c \in Conns, r \in Results : ReportDevice(c, r)
    BY <1>3
  <2>2. next' \in [Conns -> Devs]
    <3>1. (IF next[c] = N THEN 1 ELSE next[c] + 1) \in Devs
      BY <1>0, StatusAssumption DEF Devs
    <3>2. next' = [next EXCEPT ![c] = IF next[c] = N THEN 1 ELSE next[c] + 1]
      BY <2>1 DEF ReportDevice
    <3> QED BY <1>0, <3>1, <3>2
  <2>3. latest' \in [Conns -> [Devs -> Healths]]
    <3>1. latest' = [latest EXCEPT ![c][next[c]] = r] /\ r \in Healths
      BY <2>1, ResultFacts DEF ReportDevice
    <3> QED BY <1>0, <3>1
  <2> QED BY <1>0, <2>1, <2>2, <2>3 DEF ReportDevice
<1>4. CASE ReportMqttConnected \/ ReportMqttDisconnected
  BY <1>0, <1>4, Zenon DEF ReportMqttConnected, ReportMqttDisconnected
<1>5. CASE Recv \/ UNCHANGED vars
  BY <1>0, <1>5 DEF Recv, vars, reporters
<1> QED BY <1>1, <1>2, <1>3, <1>4, <1>5 DEF Next

\* The state that the tasks know of, by its fields.
LEMMA ActualFields ==
  ASSUME TypeOK, [Next]_vars
  PROVE  /\ Actual \in States /\ Actual' \in States
         /\ Actual.mqtt = broker /\ Actual.up = [c \in Conns |-> link[c] = "up"]
         /\ Actual.health = latest
         /\ Actual'.mqtt = broker' /\ Actual'.up = [c \in Conns |-> link'[c] = "up"]
         /\ Actual'.health = latest'
<1> DEFINE u == [c \in Conns |-> link[c] = "up"]
           v == [c \in Conns |-> link'[c] = "up"]
<1>1. u \in [Conns -> BOOLEAN] /\ v \in [Conns -> BOOLEAN]
  OBVIOUS
<1>2. /\ broker \in BOOLEAN /\ latest \in [Conns -> [Devs -> Healths]]
      /\ broker' \in BOOLEAN /\ latest' \in [Conns -> [Devs -> Healths]]
  BY ReportersType DEF TypeOK
<1>3. /\ Actual = [mqtt |-> broker, up |-> u, health |-> latest]
      /\ Actual' = [mqtt |-> broker', up |-> v, health |-> latest']
  BY DEF Actual, State
<1> DEFINE s == Actual
           t == Actual'
<1>4. s = [mqtt |-> broker, up |-> u, health |-> latest]
      /\ t = [mqtt |-> broker', up |-> v, health |-> latest']
  BY <1>3
<1> HIDE DEF u, v, s, t
<1>5. /\ s \in States /\ s.mqtt = broker /\ s.up = u /\ s.health = latest
      /\ t \in States /\ t.mqtt = broker' /\ t.up = v /\ t.health = latest'
  BY <1>1, <1>2, <1>4 DEF States
<1> QED BY <1>5 DEF s, t, u, v

\* The tasks report what they come to know.
LEMMA ReportsTell ==
  ASSUME TypeOK, Next
  PROVE  \/ \E e \in StatusEvent : Reporting(e)
         \/ \E c \in Conns : EndSilently(c)
         \/ Recv
<1> DEFINE s == Actual
           t == Actual'
           u == [c \in Conns |-> link[c] = "up"]
           v == [c \in Conns |-> link'[c] = "up"]
<1>0. /\ s \in States /\ s.mqtt = broker /\ s.up = u /\ s.health = latest
      /\ t \in States /\ t.mqtt = broker' /\ t.up = v /\ t.health = latest'
  BY ActualFields
<1>00. ASSUME NEW e \in StatusEvent, Report(e), t = Apply(s, e) PROVE \E x \in StatusEvent : Reporting(x)
  BY <1>00 DEF Reporting
<1> HIDE DEF s, t
<1>1. ASSUME NEW c \in Conns, ReportUp(c) PROVE \E e \in StatusEvent : Reporting(e)
  <2>1. PICK e \in StatusEvent : e = ConnEvent("ConnectionUp", c) /\ e.kind = "ConnectionUp" /\ e.conn = c
    BY MadeEvents DEF ConnKinds
  <2>2. Report(e)
    BY <1>1, <2>1 DEF ReportUp
  <2>3. /\ broker' = broker /\ latest' = [latest EXCEPT ![c] = [d \in Devs |-> "unknown"]]
        /\ link[c] = "down" /\ link' = [link EXCEPT ![c] = "up"]
    BY <1>1 DEF ReportUp
  <2>4. v = [u EXCEPT ![c] = TRUE] /\ ~u[c]
    BY <2>3 DEF TypeOK
  <2> HIDE DEF u, v
  <2>5. /\ ~s.up[e.conn] /\ t.mqtt = s.mqtt /\ t.up = [s.up EXCEPT ![e.conn] = TRUE]
        /\ t.health = [s.health EXCEPT ![e.conn] = [d \in Devs |-> "unknown"]]
    BY <1>0, <2>1, <2>3, <2>4, Zenon
  <2>6. /\ s \in States /\ t \in States /\ e.kind = "ConnectionUp" /\ e.conn \in Conns
        /\ ~s.up[e.conn] /\ t.mqtt = s.mqtt /\ t.up = [s.up EXCEPT ![e.conn] = TRUE]
        /\ t.health = [s.health EXCEPT ![e.conn] = [d \in Devs |-> "unknown"]]
        => t = Apply(s, e)
    BY ApplyTo, Zenon
  <2>7. t = Apply(s, e)
    BY <1>0, <2>1, <2>5, <2>6, Zenon
  <2> QED BY <1>00, <2>2, <2>7
<1>2. ASSUME NEW c \in Conns, ReportDown(c) PROVE \E e \in StatusEvent : Reporting(e)
  <2>1. PICK e \in StatusEvent :
            e = ConnEvent("ConnectionDown", c) /\ e.kind = "ConnectionDown" /\ e.conn = c
    BY MadeEvents DEF ConnKinds
  <2>2. Report(e)
    BY <1>2, <2>1 DEF ReportDown
  <2>3. broker' = broker /\ latest' = latest /\ link' = [link EXCEPT ![c] = "down"]
    BY <1>2 DEF ReportDown
  <2>4. v = [u EXCEPT ![c] = FALSE]
    BY <2>3 DEF TypeOK
  <2> HIDE DEF u, v
  <2>5. t.mqtt = s.mqtt /\ t.up = [s.up EXCEPT ![e.conn] = FALSE] /\ t.health = s.health
    BY <1>0, <2>1, <2>3, <2>4, Zenon
  <2>6. t = Apply(s, e)
    BY <1>0, <2>1, <2>5, ApplyTo, Zenon
  <2> QED BY <1>00, <2>2, <2>6
<1>3. ASSUME NEW c \in Conns, NEW r \in Results, ReportDevice(c, r)
      PROVE  \E e \in StatusEvent : Reporting(e)
  <2>0. PICK d \in Devs : d = next[c]
    BY DEF TypeOK
  <2>1. PICK e \in StatusEvent :
            /\ e = DeviceEvent(r, c, d)
            /\ e.kind = "Device" /\ e.conn = c /\ e.device = d /\ e.result = r
    BY MadeEvents
  <2>2. Report(e)
    BY <1>3, <2>0, <2>1 DEF ReportDevice
  <2>3. /\ broker' = broker /\ latest' = [latest EXCEPT ![c] = [latest[c] EXCEPT ![d] = r]]
        /\ link' = link /\ link[c] = "up"
    BY <1>3, <2>0 DEF ReportDevice
  <2>4. v = [u EXCEPT ![c] = TRUE]
    BY <2>3 DEF TypeOK
  <2> HIDE DEF u, v
  <2>5. /\ t.mqtt = s.mqtt /\ t.up = [s.up EXCEPT ![e.conn] = TRUE]
        /\ t.health = [s.health EXCEPT ![e.conn] = [s.health[e.conn] EXCEPT ![e.device] = e.result]]
    BY <1>0, <2>1, <2>3, <2>4, Zenon
  <2>6. /\ s \in States /\ t \in States /\ e.kind = "Device" /\ e.conn \in Conns
        /\ e.device \in Devs /\ e.result \in Results
        /\ t.mqtt = s.mqtt /\ t.up = [s.up EXCEPT ![e.conn] = TRUE]
        /\ t.health = [s.health EXCEPT ![e.conn] = [s.health[e.conn] EXCEPT ![e.device] = e.result]]
        => t = Apply(s, e)
    BY ApplyTo, Zenon
  <2>7. t = Apply(s, e)
    BY <1>0, <2>1, <2>5, <2>6, Zenon
  <2> QED BY <1>00, <2>2, <2>7
<1>4. ASSUME ReportMqttConnected \/ ReportMqttDisconnected
      PROVE  \E e \in StatusEvent : Reporting(e)
  <2>1. PICK k \in MqttKinds : /\ Report(MqttEvent(k)) /\ UNCHANGED <<link, latest>>
                               /\ k = "MqttConnected" => broker' = TRUE
                               /\ k = "MqttDisconnected" => broker' = FALSE
    BY <1>4 DEF ReportMqttConnected, ReportMqttDisconnected, MqttKinds
  <2>2. PICK e \in StatusEvent : e = MqttEvent(k) /\ e.kind = k
    BY MadeEvents
  <2>3. v = u /\ latest' = latest
    BY <2>1
  <2> HIDE DEF u, v
  <2>4. t = Apply(s, e)
    <3>1. CASE k = "MqttConnected"
      BY <1>0, <2>1, <2>2, <2>3, <3>1, ApplyTo
    <3>2. CASE k = "MqttDisconnected"
      BY <1>0, <2>1, <2>2, <2>3, <3>2, ApplyTo
    <3> QED BY <3>1, <3>2 DEF MqttKinds
  <2> QED BY <1>00, <2>1, <2>2, <2>4
<1> QED BY <1>1, <1>2, <1>3, <1>4 DEF Next

\* The channel takes what fits.
LEMMA ChannelStep ==
  ASSUME TypeOK, NEW e \in StatusEvent, Report(e)
  PROVE  /\ chan' \in Seq(StatusEvent) /\ Len(chan') <= ChanCap /\ st' = st /\ faithful' \in BOOLEAN
         /\ faithful' => faithful /\ chan' = Append(chan, e)
<1>1. chan \in Seq(StatusEvent) /\ Len(chan) <= ChanCap /\ faithful \in BOOLEAN /\ ChanCap \in Nat
  BY StatusAssumption DEF TypeOK
<1>2. st' = st
  BY DEF Report
<1>3. CASE Len(chan) < ChanCap
  <2>1. chan' = Append(chan, e) /\ faithful' = faithful
    BY <1>3 DEF Report
  <2> QED BY <1>1, <1>2, <1>3, <2>1
<1>4. CASE ~(Len(chan) < ChanCap)
  <2>1. chan' = chan /\ faithful' = FALSE
    BY <1>4 DEF Report
  <2> QED BY <1>1, <1>2, <2>1
<1> QED BY <1>3, <1>4

\* ... and the channel, the state and the history.
LEMMA TypeStep ==
  ASSUME TypeOK, [Next]_vars
  PROVE  TypeOK'
<1>0. /\ chan \in Seq(StatusEvent) /\ Len(chan) <= ChanCap /\ st \in States /\ faithful \in BOOLEAN
      /\ ChanCap \in Nat
  BY StatusAssumption DEF TypeOK, States
<1>1. /\ chan' \in Seq(StatusEvent) /\ Len(chan') <= ChanCap /\ st' \in States
      /\ faithful' \in BOOLEAN
  <2>1. CASE \E e \in StatusEvent : Reporting(e)
    BY <1>0, <2>1, ChannelStep DEF Reporting
  <2>2. CASE \E c \in Conns : EndSilently(c)
    BY <1>0, <2>2 DEF EndSilently
  <2>3. CASE Recv
    <3>1. /\ chan # <<>> /\ chan' = Tail(chan) /\ st' = Apply(st, Head(chan))
          /\ faithful' = faithful
      BY <2>3 DEF Recv
    <3>2. Head(chan) \in StatusEvent /\ Tail(chan) \in Seq(StatusEvent) /\ Len(Tail(chan)) <= ChanCap
      BY <1>0, <3>1
    <3> QED BY <1>0, <3>1, <3>2, ApplyType
  <2>4. CASE UNCHANGED vars
    BY <1>0, <2>4 DEF vars
  <2> QED BY <2>1, <2>2, <2>3, <2>4, ReportsTell
<1> QED BY <1>1, ReportersType DEF TypeOK, States

\* The events still queued lead to what the tasks know: at every step.
LEMMA PathStep ==
  ASSUME TypeOK, PathInv, [Next]_vars
  PROVE  PathInv'
<1>0. chan \in Seq(StatusEvent) /\ faithful \in BOOLEAN
  BY DEF TypeOK
<1>1. CASE \E e \in StatusEvent : Reporting(e)
  <2>1. PICK e \in StatusEvent : Report(e) /\ Actual' = Apply(Actual, e)
    BY <1>1 DEF Reporting
  <2> SUFFICES ASSUME faithful'
               PROVE  \E v \in [0 .. Len(chan') -> States] : Path(v, st', chan') /\ v[Len(chan')] = Actual'
    BY DEF PathInv, Path
  <2>2. faithful /\ chan' = Append(chan, e) /\ st' = st /\ Len(chan') = Len(chan) + 1
    BY <1>0, <2>1, ChannelStep
  <2>3. PICK v \in [0 .. Len(chan) -> States] : Path(v, st, chan) /\ v[Len(chan)] = Actual
    BY <2>2 DEF PathInv
  <2>4. PICK w \in [0 .. Len(chan) + 1 -> States] :
            Path(w, st, Append(chan, e)) /\ w[Len(chan) + 1] = Apply(v[Len(chan)], e)
    BY <1>0, <2>3, PathAppend
  <2> QED BY <2>1, <2>2, <2>3, <2>4
<1>2. CASE \E c \in Conns : EndSilently(c)
  BY <1>2 DEF EndSilently, PathInv
<1>3. CASE Recv
  <2>1. /\ chan # <<>> /\ chan' = Tail(chan) /\ st' = Apply(st, Head(chan))
        /\ faithful' = faithful /\ UNCHANGED reporters
    BY <1>3 DEF Recv
  <2>2. Actual' = Actual
    BY <2>1 DEF Actual, reporters
  <2> SUFFICES ASSUME faithful'
               PROVE  \E v \in [0 .. Len(chan') -> States] : Path(v, st', chan') /\ v[Len(chan')] = Actual'
    BY DEF PathInv, Path
  <2>3. PICK v \in [0 .. Len(chan) -> States] : Path(v, st, chan) /\ v[Len(chan)] = Actual
    BY <2>1 DEF PathInv
  <2>4. PICK w \in [0 .. Len(Tail(chan)) -> States] :
            Path(w, Apply(st, Head(chan)), Tail(chan)) /\ w[Len(Tail(chan))] = v[Len(chan)]
    BY <1>0, <2>1, <2>3, PathTail
  <2> QED BY <2>1, <2>2, <2>3, <2>4
<1>4. CASE UNCHANGED vars
  BY <1>4 DEF vars, reporters, PathInv, Path, Actual
<1> QED BY <1>1, <1>2, <1>3, <1>4, ReportsTell

-----------------------------------------------------------------------------
\* The invariant holds at the start, ...
LEMMA InitInv == Init => IInv
<1> SUFFICES ASSUME Init PROVE IInv
  OBVIOUS
<1>1. NewState \in States /\ Actual = NewState
  <2>1. [c \in Conns |-> [d \in Devs |-> "unknown"]] \in [Conns -> [Devs -> Healths]]
    BY ResultFacts
  <2>2. [c \in Conns |-> FALSE] \in [Conns -> BOOLEAN]
    OBVIOUS
  <2>3. NewState = [mqtt |-> FALSE, up |-> [c \in Conns |-> FALSE],
                    health |-> [c \in Conns |-> [d \in Devs |-> "unknown"]]]
    BY DEF NewState, State
  <2>4. NewState \in States
    BY <2>1, <2>2, <2>3 DEF States
  <2>5. [c \in Conns |-> link[c] = "up"] = [c \in Conns |-> FALSE]
    BY DEF Init
  <2>6. Actual = NewState
    BY <2>5 DEF Actual, NewState, Init, State
  <2> QED BY <2>4, <2>6
<1>2. TypeOK
  <2>1. [d \in Devs |-> "unknown"] \in [Devs -> Healths] /\ 1 \in Devs
    BY ResultFacts, StatusAssumption DEF Devs
  <2>2. /\ link \in [Conns -> {"down", "up"}] /\ next \in [Conns -> Devs]
        /\ latest \in [Conns -> [Devs -> Healths]]
    BY <2>1 DEF Init
  <2>3. chan \in Seq(StatusEvent) /\ Len(chan) <= ChanCap
    BY StatusAssumption DEF Init
  <2>4. broker \in BOOLEAN /\ faithful \in BOOLEAN /\ st \in States
    BY <1>1 DEF Init
  <2> QED BY <2>2, <2>3, <2>4 DEF TypeOK, States
<1>3. PathInv
  <2> DEFINE v == [i \in 0 .. 0 |-> NewState]
  <2>1. v \in [0 .. 0 -> States] /\ v[0] = NewState
    BY <1>1
  <2>2. Len(chan) = 0 /\ st = NewState
    BY DEF Init
  <2> HIDE DEF v
  <2>3. Path(v, st, chan) /\ v[Len(chan)] = Actual
    BY <1>1, <2>1, <2>2 DEF Path
  <2> QED BY <2>1, <2>2, <2>3 DEF PathInv
<1> QED BY <1>2, <1>3 DEF IInv

\* ... and always.
LEMMA Invariant == Spec => []IInv
<1>1. Init => IInv
  BY InitInv
<1>2. IInv /\ [Next]_vars => IInv'
  BY TypeStep, PathStep DEF IInv
<1> QED BY <1>1, <1>2, PTL DEF Spec

\* The variables keep their types, and the status channel its capacity.
THEOREM TypeCorrect == Spec => []TypeOK
<1>1. IInv => TypeOK
  BY DEF IInv
<1> QED BY <1>1, Invariant, PTL

\* The status writer catches up with the gateway exactly as long as no event was dropped
\* and no task ended silently.
THEOREM WriterCatchesUp == Spec => []CatchesUp
<1>1. IInv => CatchesUp
  BY AfterPath DEF IInv, PathInv, CatchesUp, TypeOK
<1> QED BY <1>1, Invariant, PTL

\* StatusState::apply returns TRUE exactly for the events that change what the status file
\* shows.
THEOREM ApplyTells == Spec => []ApplyTellsChanges
<1>1. IInv => ApplyTellsChanges
  <2> SUFFICES ASSUME IInv, NEW e \in StatusEvent
               PROVE  Changes(st, e) <=> Render(Apply(st, e)) # Render(st)
    BY DEF ApplyTellsChanges
  <2>1. st \in States
    BY DEF IInv, TypeOK, States
  <2> QED BY <2>1, ChangeShows, NoChangeKeeps
<1> QED BY <1>1, Invariant, PTL
=============================================================================

-------------------------- MODULE AggregatorProofs --------------------------
(***************************************************************************)
(* Proofs about Aggregator for every configuration, window, capacity and   *)
(* number of readings: every reading once, windows on the grid and in      *)
(* order, and the refinement of TumblingWindow.                            *)
(***************************************************************************)
EXTENDS Aggregator, TLAPS

\* Appending to a sequence adds one element to its range.
LEMMA RangeAppend ==
    ASSUME NEW T, NEW s \in Seq(T), NEW e \in T
    PROVE  Range(Append(s, e)) = Range(s) \cup {e}
<1>1. Append(s, e) \in Seq(T) /\ Len(Append(s, e)) = Len(s) + 1
  OBVIOUS
<1>2. ASSUME NEW x \in Range(Append(s, e)) PROVE x \in Range(s) \cup {e}
  BY <1>1, <1>2 DEF Range
<1>3. ASSUME NEW x \in Range(s) PROVE x \in Range(Append(s, e))
  BY <1>1, <1>3 DEF Range
<1>4. e \in Range(Append(s, e))
  BY <1>1 DEF Range
<1> QED
  BY <1>2, <1>3, <1>4

\* Head and Tail split the range of a nonempty sequence.
LEMMA RangeHeadTail ==
    ASSUME NEW T, NEW s \in Seq(T), s # <<>>
    PROVE  Range(s) = {Head(s)} \cup Range(Tail(s))
<1>1. Tail(s) \in Seq(T) /\ Len(Tail(s)) = Len(s) - 1 /\ Len(s) \in Nat \ {0}
  OBVIOUS
<1>2. \A i \in 1 .. Len(Tail(s)) : Tail(s)[i] = s[i + 1]
  OBVIOUS
<1>3. ASSUME NEW i \in 1 .. Len(s), i # 1
      PROVE  s[i] = Tail(s)[i - 1] /\ i - 1 \in DOMAIN Tail(s)
  BY <1>1, <1>2, <1>3
<1>4. ASSUME NEW x \in Range(s) PROVE x \in {Head(s)} \cup Range(Tail(s))
  <2>1. PICK i \in 1 .. Len(s) : x = s[i]
    BY <1>4 DEF Range
  <2>2. CASE i = 1
    BY <2>1, <2>2
  <2>3. CASE i # 1
    BY <1>3, <2>1, <2>3 DEF Range
  <2> QED
    BY <2>2, <2>3
<1>5. ASSUME NEW x \in Range(Tail(s)) PROVE x \in Range(s)
  BY <1>1, <1>2, <1>5 DEF Range
<1>6. Head(s) \in Range(s)
  BY <1>1 DEF Range
<1> QED
  BY <1>4, <1>5, <1>6

\* A sequence of batches stays one when the history it refers to grows.
LEMMA SeqMonotone ==
    ASSUME NEW S1, NEW S2, S1 \subseteq S2, NEW s \in Seq(S1)
    PROVE  s \in Seq(S2)
  OBVIOUS

-----------------------------------------------------------------------------
\* What TypeOK needs to be inductive: the positions in the channel are those of
\* accepted readings, and a window does not start before the epoch.
TypeInv == TypeOK /\ QueueIsSuffix /\ windowEnd >= W

\* The task starts well-typed.
LEMMA InitType == Init => TypeInv
  BY ConfigAssumption, TimeAssumption, BoundAssumption
  DEF Init, TypeInv, TypeOK, QueueIsSuffix, Empty, NextBoundary, Secs, Taken, Sample

\* A reading at the head of the channel is an accepted one and so is not yet known
\* to any accumulator.
LEMMA HeadReading ==
    ASSUME TypeInv, readings # <<>>
    PROVE  /\ Head(readings) = Taken + 1
           /\ Head(readings) \in Sample
           /\ accepted[Head(readings)] \in Points
  BY DEF TypeInv, TypeOK, QueueIsSuffix, Taken, Sample

\* Every step keeps the types and the suffix of the accepted readings in the channel.
LEMMA NextType == TypeInv /\ [Next]_vars => TypeInv'
<1> SUFFICES ASSUME TypeInv, [Next]_vars PROVE TypeInv'
  OBVIOUS
<1> USE ConfigAssumption, TimeAssumption, BoundAssumption
        DEF TypeInv, TypeOK, QueueIsSuffix, Taken
<1>1. ASSUME NEW p \in Points, TrySend(p) PROVE TypeInv'
  <2>1. /\ accepted' \in Seq(Points) /\ Len(accepted') = Len(accepted) + 1
        /\ readings' \in Seq(Nat) /\ Len(readings') = Len(readings) + 1
    BY <1>1 DEF TrySend
  <2>2. Sample \subseteq Sample' /\ BatchType \subseteq BatchType'
    BY <2>1 DEF Sample, BatchType
  <2>3. batches' \in Seq(BatchType') /\ delivered' \in Seq(BatchType')
    BY <1>1, <2>2, SeqMonotone DEF TrySend
  <2>4. outbox' \in SUBSET BatchType' /\ agg' \in [Points -> SUBSET Sample']
    BY <1>1, <2>2 DEF TrySend
  <2>5. /\ \A i \in 1 .. Len(readings) : readings'[i] = readings[i]
        /\ readings'[Len(readings) + 1] = Len(accepted) + 1
    BY <1>1 DEF TrySend
  <2>6. ASSUME NEW i \in 1 .. Len(readings') PROVE readings'[i] = Taken' + i
    <3>1. CASE i \in 1 .. Len(readings)
      BY <2>1, <2>5, <3>1
    <3>2. CASE i = Len(readings) + 1
      BY <2>1, <2>5, <3>2
    <3> QED
      BY <2>1, <3>1, <3>2
  <2>7. UNCHANGED <<now, deadline, windowEnd, sending, pc, listening, batches>>
        /\ Len(readings) < ReadingCap
    BY <1>1 DEF TrySend
  <2> QED
    BY <2>1, <2>3, <2>4, <2>6, <2>7
<1>2. ASSUME Record PROVE TypeInv'
  <2>1. /\ readings' \in Seq(Nat) /\ Len(readings') = Len(readings) - 1
        /\ \A i \in 1 .. Len(readings') : readings'[i] = readings[i + 1]
    BY <1>2 DEF Record
  <2>2. agg' \in [Points -> SUBSET Sample]
    BY <1>2, HeadReading DEF Record
  <2> QED
    BY <1>2, <2>1, <2>2 DEF Record, Sample, BatchType
<1>3. ASSUME Flush PROVE TypeInv'
  <2>1. FlushedBatches(agg, windowEnd) \subseteq BatchType
    BY DEF FlushedBatches, Batch, BatchType, Surviving
  <2> QED
    BY <1>3, <2>1 DEF Flush, Reset, Empty, Sample, BatchType
<1>4. ASSUME NEW b \in outbox, SendBatch(b) PROVE TypeInv'
  <2>1. batches' \in Seq(BatchType) /\ Len(batches') = Len(batches) + 1
    BY <1>4 DEF SendBatch
  <2> QED
    BY <1>4, <2>1 DEF SendBatch, Sample, BatchType
<1>5. ASSUME NextWindow PROVE TypeInv'
  <2>1. windowEnd' \in Nat /\ windowEnd' >= W
    BY <1>5 DEF NextWindow, NextEnd
  <2>2. W * S \in Nat
    OBVIOUS
  <2>3. deadline' \in Nat
    <3>1. PICK k \in Nat : k = W * S
      BY <2>2
    <3>2. deadline' = deadline + k
      BY <1>5, <3>1 DEF NextWindow, NextDeadline
    <3> QED
      BY <3>2
  <2> QED
    BY <1>5, <2>1, <2>3 DEF NextWindow, Sample, BatchType
<1>6. ASSUME Receive PROVE TypeInv'
  <2>1. batches' \in Seq(BatchType) /\ Len(batches') = Len(batches) - 1
    BY <1>6 DEF Receive
  <2>2. delivered' \in Seq(BatchType)
    BY <1>6 DEF Receive
  <2> QED
    BY <1>6, <2>1, <2>2 DEF Receive, Sample, BatchType
<1>7. ASSUME CloseReadings \/ Tick \/ RecvClosed \/ SendFailed \/ Hangup
             \/ Stopped \/ UNCHANGED vars
      PROVE  TypeInv'
  <2> USE <1>7 DEF CloseReadings, Tick, RecvClosed, SendFailed, Hangup, Stopped, vars
  <2>1. UNCHANGED <<deadline, windowEnd, readings, agg, outbox, batches, accepted,
                    delivered>>
    OBVIOUS
  <2>2. now' \in Nat
    OBVIOUS
  <2>3. /\ sending' \in BOOLEAN /\ listening' \in BOOLEAN
        /\ pc' \in {"select", "flush", "returned"}
    OBVIOUS
  <2> QED
    BY <2>1, <2>2, <2>3 DEF Sample, BatchType
<1> HIDE DEF TypeInv, TypeOK, QueueIsSuffix, Taken
<1> QED
  BY <1>1, <1>2, <1>3, <1>4, <1>5, <1>6, <1>7 DEF Next

\* The variables keep their types and the channels of lib.rs their capacities.
THEOREM TypeCorrect == Spec => []TypeOK
<1>1. TypeInv => TypeOK
  BY DEF TypeInv
<1> QED
  BY <1>1, InitType, NextType, PTL DEF Spec

-----------------------------------------------------------------------------
\* Between two selects no batch waits to be sent, so a flush overwrites none.
OnceInv == TypeInv /\ EachReadingOnce /\ (pc = "select" => outbox = {})

\* An accumulator and a batch carry only samples the task took from the channel.
LEMMA IdsTaken ==
    ASSUME OnceInv
    PROVE  /\ \A p \in Points : agg[p] \subseteq 1 .. Taken
           /\ \A b \in AllBatches : Ids(b) \subseteq 1 .. Taken
<1>1. \A p \in Points : agg[p] \subseteq Sample
  BY DEF OnceInv, TypeInv, TypeOK
<1>2. \A b \in AllBatches : b \in BatchType
  BY DEF OnceInv, TypeInv, TypeOK, AllBatches, Range
<1>3. \A b \in AllBatches : Ids(b) \subseteq Sample
  BY <1>2 DEF BatchType, Ids
<1>4. Taken \in Nat /\ \A i \in Sample : i <= Taken => i \in 1 .. Taken
  BY DEF OnceInv, TypeInv, TypeOK, QueueIsSuffix, Taken, Sample
<1> QED
  BY <1>1, <1>3, <1>4 DEF OnceInv, EachReadingOnce, NoneLost, Counted, Averaged

\* The batch of a device carries the samples of its points, and the batches of a
\* flush together exactly what the accumulators held.
LEMMA FlushIds ==
    ASSUME NEW a \in [Points -> SUBSET Nat], NEW e
    PROVE  /\ \A d, i : i \in Ids(Batch(a, d, e))
                          <=> \E p \in Points : DeviceOf[p] = d /\ i \in a[p]
           /\ \A i : (\E b \in FlushedBatches(a, e) : i \in Ids(b))
                       <=> \E p \in Points : i \in a[p]
<1>1. ASSUME NEW d, NEW i
      PROVE  i \in Ids(Batch(a, d, e)) <=> \E p \in Points : DeviceOf[p] = d /\ i \in a[p]
  <2>1. Batch(a, d, e).points = {[name |-> p, samples |-> a[p]] : p \in Surviving(a, d)}
    BY DEF Batch
  <2>2. i \in Ids(Batch(a, d, e)) <=> \E x \in Batch(a, d, e).points : i \in x.samples
    BY DEF Ids
  <2>3. ASSUME i \in Ids(Batch(a, d, e)) PROVE \E p \in Surviving(a, d) : i \in a[p]
    <3>1. PICK x \in Batch(a, d, e).points : i \in x.samples
      BY <2>2, <2>3
    <3>2. PICK p \in Surviving(a, d) : x = [name |-> p, samples |-> a[p]]
      BY <2>1, <3>1
    <3> QED
      BY <3>1, <3>2
  <2>4. ASSUME NEW p \in Surviving(a, d), i \in a[p] PROVE i \in Ids(Batch(a, d, e))
    <3>1. [name |-> p, samples |-> a[p]] \in Batch(a, d, e).points
      BY <2>1
    <3> QED
      BY <2>2, <2>4, <3>1
  <2> QED
    BY <2>3, <2>4 DEF Surviving
<1>2. ASSUME NEW b \in FlushedBatches(a, e), NEW i \in Ids(b)
      PROVE  \E p \in Points : i \in a[p]
  BY <1>1, <1>2 DEF FlushedBatches
<1>3. ASSUME NEW p \in Points, NEW i \in a[p]
      PROVE  \E b \in FlushedBatches(a, e) : i \in Ids(b)
  <2>1. DeviceOf[p] \in Devices /\ Surviving(a, DeviceOf[p]) # {}
    BY <1>3, ConfigAssumption DEF Surviving
  <2>2. Batch(a, DeviceOf[p], e) \in FlushedBatches(a, e)
    BY <2>1 DEF FlushedBatches
  <2>3. i \in Ids(Batch(a, DeviceOf[p], e))
    BY <1>1, <1>3
  <2> QED
    BY <2>2, <2>3
<1> QED
  BY <1>1, <1>2, <1>3

\* A step that moves batches along the pipeline without changing which there are.
LEMMA OnceKept ==
    ASSUME EachReadingOnce, UNCHANGED <<accepted, readings, agg>>, AllBatches' = AllBatches
    PROVE  EachReadingOnce'
  BY DEF EachReadingOnce, QueueIsSuffix, OwnSamples, NoneLost, NoneTwice, Taken, Sample,
         Counted, Averaged

\* Before the first reading the partition of the readings is trivial.
LEMMA InitOnce == Init => OnceInv
<1> SUFFICES ASSUME Init PROVE OnceInv
  OBVIOUS
<1>1. TypeInv
  BY InitType
<1>2. AllBatches = {} /\ Taken = 0 /\ \A p \in Points : agg[p] = {}
  BY DEF Init, AllBatches, Range, Taken, Empty
<1>3. OwnSamples /\ NoneLost /\ NoneTwice
  BY <1>2 DEF OwnSamples, NoneLost, NoneTwice, Sample, Counted, Averaged, Init
<1> QED
  BY <1>1, <1>3 DEF OnceInv, EachReadingOnce, TypeInv, Init

\* An accepted reading joins the end of the channel and nothing else.
LEMMA TrySendOnce ==
    ASSUME OnceInv, NEW p \in Points, TrySend(p)
    PROVE  OwnSamples' /\ NoneLost' /\ NoneTwice'
<1>1. AllBatches' = AllBatches /\ agg' = agg
  BY DEF TrySend, AllBatches, Range
<1>2. /\ Taken' = Taken /\ Taken \in Nat /\ Taken <= Len(accepted)
      /\ \A i \in 1 .. Taken : accepted'[i] = accepted[i]
  BY DEF TrySend, Taken, OnceInv, TypeInv, TypeOK, QueueIsSuffix
<1>3. NoneTwice'
  BY <1>1 DEF OnceInv, EachReadingOnce, NoneTwice
<1>5. NoneLost'
  <2>1. Len(accepted') = Len(accepted) + 1 /\ Len(accepted) \in Nat
    BY DEF TrySend, OnceInv, TypeInv, TypeOK
  <2>2. \A i : (Counted(i) <=> Counted(i)') /\ (Averaged(i) <=> Averaged(i)')
    BY <1>1 DEF Counted, Averaged
  <2>3. \A i : Counted(i) \/ Averaged(i) => i \in 1 .. Taken
    BY IdsTaken DEF Counted, Averaged
  <2>4. \A i \in Sample' : i \in Sample \/ (i = Len(accepted) + 1 /\ ~(i <= Taken))
    BY <1>2, <2>1 DEF Sample
  <2>5. ASSUME NEW i \in Sample'
        PROVE  i <= Taken <=> Counted(i) \/ Averaged(i)
    BY <2>3, <2>4 DEF OnceInv, EachReadingOnce, NoneLost
  <2> QED
    BY <1>2, <2>2, <2>5 DEF NoneLost
<1>4. OwnSamples'
  <2>1. ASSUME NEW q \in Points, NEW i \in agg[q] PROVE accepted'[i] = q
    <3>1. i \in 1 .. Taken
      BY <2>1, IdsTaken
    <3> QED
      BY <1>2, <2>1, <3>1 DEF OnceInv, EachReadingOnce, OwnSamples
  <2>2. ASSUME NEW b \in AllBatches, NEW x \in b.points, NEW i \in x.samples
        PROVE  accepted'[i] = x.name
    <3>1. i \in 1 .. Taken
      BY <2>2, IdsTaken DEF Ids
    <3> QED
      BY <1>2, <2>2, <3>1 DEF OnceInv, EachReadingOnce, OwnSamples
  <2> QED
    BY <1>1, <2>1, <2>2 DEF OwnSamples
<1> QED
  BY <1>3, <1>4, <1>5

\* record moves the oldest reading from the channel into its point's accumulator.
LEMMA RecordOnce ==
    ASSUME OnceInv, Record
    PROVE  OwnSamples' /\ NoneLost' /\ NoneTwice'
<1> DEFINE n == Taken + 1
<1>1. Taken \in Nat /\ Taken' = n
  BY DEF Record, Taken, OnceInv, TypeInv, TypeOK, QueueIsSuffix
<1>2. Head(readings) = n /\ accepted[n] \in Points
  BY HeadReading DEF Record, OnceInv
<1>3. /\ AllBatches' = AllBatches /\ accepted' = accepted
      /\ agg' = [agg EXCEPT ![accepted[n]] = @ \cup {n}]
      /\ agg \in [Points -> SUBSET Sample]
  BY <1>2 DEF Record, AllBatches, Range, OnceInv, TypeInv, TypeOK
<1>4. \A p \in Points : agg'[p] = IF p = accepted[n] THEN agg[p] \cup {n} ELSE agg[p]
  BY <1>2, <1>3
<1>5. OwnSamples'
  BY <1>3, <1>4 DEF OnceInv, EachReadingOnce, OwnSamples
<1>6. /\ \A i : Counted(i)' <=> Counted(i) \/ i = n
      /\ \A i : Averaged(i)' <=> Averaged(i)
  BY <1>2, <1>3, <1>4 DEF Counted, Averaged
<1>7. n \in Sample /\ \A i \in Sample : i <= n <=> i <= Taken \/ i = n
  BY <1>1, <1>2, HeadReading DEF Sample, Record, OnceInv
<1>8. NoneLost'
  BY <1>1, <1>3, <1>6, <1>7 DEF OnceInv, EachReadingOnce, NoneLost, Sample
<1>9. \A b \in AllBatches : n \notin Ids(b)
  BY <1>1, IdsTaken
<1>10. NoneTwice'
  BY <1>3, <1>4, <1>9 DEF OnceInv, EachReadingOnce, NoneTwice
<1> QED
  BY <1>5, <1>8, <1>10

\* flush moves every accumulator's readings into batches, each into one.
LEMMA FlushOnce ==
    ASSUME OnceInv, Flush
    PROVE  OwnSamples' /\ NoneLost' /\ NoneTwice'
<1> DEFINE new == FlushedBatches(agg, windowEnd)
<1>1. /\ AllBatches' = AllBatches \cup new /\ accepted' = accepted /\ Taken' = Taken
      /\ \A p \in Points : agg'[p] = {}
  BY DEF Flush, AllBatches, Range, Taken, OnceInv, Reset, Empty
<1>2. agg \in [Points -> SUBSET Nat]
  BY DEF OnceInv, TypeInv, TypeOK, Sample
<1>3. /\ \A d, i : i \in Ids(Batch(agg, d, windowEnd))
                     <=> \E p \in Points : DeviceOf[p] = d /\ i \in agg[p]
      /\ \A i : (\E b \in new : i \in Ids(b)) <=> Counted(i)
  BY <1>2, FlushIds DEF Counted
<1> HIDE DEF new
<1>4. NoneLost'
  <2>1. \A i : Averaged(i)' <=> Averaged(i) \/ Counted(i)
    BY <1>1, <1>3 DEF Averaged
  <2>2. \A i : ~Counted(i)'
    BY <1>1 DEF Counted
  <2> QED
    BY <1>1, <2>1, <2>2 DEF OnceInv, EachReadingOnce, NoneLost, Sample
<1>5. \A b \in new : \A x \in b.points : x.name \in Points /\ x.samples = agg[x.name]
  BY DEF new, FlushedBatches, Batch, Surviving
<1>6. OwnSamples'
  BY <1>1, <1>5 DEF OnceInv, EachReadingOnce, OwnSamples
<1>7. ASSUME NEW b \in new, NEW c \in AllBatches PROVE Ids(b) \cap Ids(c) = {}
  BY <1>5, <1>7 DEF Ids, OnceInv, EachReadingOnce, NoneTwice
<1>8. ASSUME NEW b \in new, NEW c \in new, b # c PROVE Ids(b) \cap Ids(c) = {}
  <2>1. PICK d, e : b = Batch(agg, d, windowEnd) /\ c = Batch(agg, e, windowEnd) /\ d # e
    BY <1>8 DEF new, FlushedBatches
  <2> QED
    BY <1>3, <2>1 DEF OnceInv, EachReadingOnce, OwnSamples
<1>9. NoneTwice'
  BY <1>1, <1>7, <1>8 DEF OnceInv, EachReadingOnce, NoneTwice
<1> QED
  BY <1>4, <1>6, <1>9

\* Sending a batch neither adds nor removes one.
LEMMA SendKeeps ==
    ASSUME OnceInv, NEW b \in outbox, SendBatch(b)
    PROVE  AllBatches' = AllBatches
<1>1. Range(batches') = Range(batches) \cup {b}
  BY RangeAppend DEF SendBatch, OnceInv, TypeInv, TypeOK
<1> QED
  BY <1>1 DEF SendBatch, AllBatches, Range

\* Receiving a batch neither adds nor removes one.
LEMMA ReceiveKeeps ==
    ASSUME OnceInv, Receive
    PROVE  AllBatches' = AllBatches
<1>1. Range(batches) = {Head(batches)} \cup Range(batches')
  BY RangeHeadTail DEF Receive, OnceInv, TypeInv, TypeOK
<1>2. Range(delivered') = Range(delivered) \cup {Head(batches)}
  BY RangeAppend DEF Receive, OnceInv, TypeInv, TypeOK
<1> QED
  BY <1>1, <1>2 DEF Receive, AllBatches

\* Every step keeps each reading in one place.
LEMMA NextOnce == OnceInv /\ [Next]_vars => OnceInv'
<1> SUFFICES ASSUME OnceInv, [Next]_vars PROVE OnceInv'
  OBVIOUS
<1>1. TypeInv'
  BY NextType DEF OnceInv
<1>2. (pc = "select" => outbox = {})'
  BY DEF OnceInv, Next, TrySend, CloseReadings, Tick, Record, RecvClosed, Flush, SendBatch,
         SendFailed, NextWindow, Receive, Hangup, Stopped, vars
<1>3. OwnSamples' /\ NoneLost' /\ NoneTwice'
  <2>1. ASSUME NEW p \in Points, TrySend(p) PROVE OwnSamples' /\ NoneLost' /\ NoneTwice'
    BY <2>1, TrySendOnce
  <2>2. ASSUME Record PROVE OwnSamples' /\ NoneLost' /\ NoneTwice'
    BY <2>2, RecordOnce
  <2>3. ASSUME Flush PROVE OwnSamples' /\ NoneLost' /\ NoneTwice'
    BY <2>3, FlushOnce
  <2>4. ASSUME NEW b \in outbox, SendBatch(b) PROVE OwnSamples' /\ NoneLost' /\ NoneTwice'
    BY <2>4, SendKeeps, OnceKept DEF OnceInv, EachReadingOnce, SendBatch
  <2>5. ASSUME Receive PROVE OwnSamples' /\ NoneLost' /\ NoneTwice'
    BY <2>5, ReceiveKeeps, OnceKept DEF OnceInv, EachReadingOnce, Receive
  <2>6. ASSUME CloseReadings \/ Tick \/ RecvClosed \/ SendFailed \/ NextWindow \/ Hangup
               \/ Stopped \/ UNCHANGED vars
        PROVE  OwnSamples' /\ NoneLost' /\ NoneTwice'
    <3>1. UNCHANGED <<accepted, readings, agg>> /\ AllBatches' = AllBatches
      BY <2>6 DEF CloseReadings, Tick, RecvClosed, SendFailed, NextWindow, Hangup, Stopped,
                  vars, AllBatches, Range
    <3> QED
      BY <3>1, OnceKept DEF OnceInv, EachReadingOnce
  <2> QED
    BY <2>1, <2>2, <2>3, <2>4, <2>5, <2>6 DEF Next
<1> QED
  BY <1>1, <1>2, <1>3 DEF OnceInv, EachReadingOnce, TypeInv

\* No reading the channel accepted is ever lost before the task returns, counted for
\* another point, or averaged twice (record and flush of aggregator.rs).
THEOREM ReadingsOnce == Spec => []EachReadingOnce
<1>1. OnceInv => EachReadingOnce
  BY DEF OnceInv
<1> QED
  BY <1>1, InitOnce, NextOnce, PTL DEF Spec

-----------------------------------------------------------------------------
\* The schedule and the batches it has sealed.
ScheduleInv == OnceInv /\ DriftFree /\ NeverEarly

\* The first deadline is the first boundary, later by the start-up lag.
LEMMA InitSchedule == Init => DriftFree /\ NeverEarly
<1> SUFFICES ASSUME Init PROVE DriftFree /\ NeverEarly
  OBVIOUS
<1>1. PICK t \in StartTicks, lag \in 0 .. MaxLag :
        /\ now = t + lag
        /\ windowEnd = NextBoundary(t)
        /\ deadline = now + (NextBoundary(t) * S - t)
  BY DEF Init
<1>2. NextBoundary(t) * S \in Nat /\ t \in Nat
  BY TimeAssumption DEF NextBoundary, Secs
<1>3. deadline - windowEnd * S = lag
  BY <1>1, <1>2, TimeAssumption
<1>4. DriftFree
  BY <1>3 DEF DriftFree
<1>5. NeverEarly
  BY DEF Init, NeverEarly, AllBatches, Range
<1> QED
  BY <1>4, <1>5

\* One window further the boundary is W * S ticks further.
LEMMA NextBoundaryTicks ==
    ASSUME NEW e \in Nat
    PROVE  (e + W) * S = e * S + W * S /\ e * S \in Nat /\ W * S \in Nat
  BY TimeAssumption

\* Every step keeps deadline and window end in step and seals no window early.
LEMMA NextSchedule == ScheduleInv /\ [Next]_vars => (DriftFree /\ NeverEarly)'
<1> SUFFICES ASSUME ScheduleInv, [Next]_vars PROVE DriftFree' /\ NeverEarly'
  OBVIOUS
<1>1. /\ now \in Nat /\ deadline \in Nat /\ windowEnd \in Nat
      /\ pc = "select" => outbox = {}
  BY DEF ScheduleInv, OnceInv, TypeInv, TypeOK
<1>2. ASSUME Flush PROVE DriftFree' /\ NeverEarly'
  <2>1. AllBatches' = AllBatches \cup FlushedBatches(agg, windowEnd)
    BY <1>1, <1>2 DEF Flush, AllBatches, Range
  <2>2. \A b \in FlushedBatches(agg, windowEnd) : b.end = windowEnd
    BY DEF FlushedBatches, Batch
  <2>3. windowEnd * S <= deadline /\ deadline <= now
    <3>1. PICK k \in Nat : k = windowEnd * S
      BY <1>1, NextBoundaryTicks
    <3> QED
      BY <1>1, <1>2, <3>1 DEF Flush, ScheduleInv, DriftFree
  <2>4. windowEnd * S <= now
    <3>1. PICK k \in Nat : k = windowEnd * S
      BY <1>1, NextBoundaryTicks
    <3> QED
      BY <1>1, <2>3, <3>1
  <2>5. NeverEarly'
    BY <1>2, <2>1, <2>2, <2>4 DEF Flush, ScheduleInv, NeverEarly
  <2> QED
    BY <1>2, <2>5 DEF Flush, ScheduleInv, DriftFree
<1>3. ASSUME NextWindow PROVE DriftFree' /\ NeverEarly'
  <2>1. PICK k \in Nat, w \in Nat :
          k = windowEnd * S /\ w = W * S /\ (windowEnd + W) * S = k + w
    BY <1>1, NextBoundaryTicks
  <2>2. deadline' = deadline + w /\ windowEnd' * S = k + w
    BY <1>3, <2>1 DEF NextWindow, NextDeadline, NextEnd
  <2>3. DriftFree'
    BY <1>1, <2>1, <2>2 DEF ScheduleInv, DriftFree
  <2> QED
    BY <1>3, <2>3 DEF NextWindow, ScheduleInv, NeverEarly, AllBatches, Range
<1>4. ASSUME AllBatches' = AllBatches, UNCHANGED <<deadline, windowEnd>>,
             now' = now \/ now' = now + 1
      PROVE  DriftFree' /\ NeverEarly'
  <2>1. ASSUME NEW b \in AllBatches PROVE b.end * S <= now'
    <3>1. b.end * S \in Nat /\ b.end * S <= now
      <4>1. b.end \in Nat
        <5>1. b \in BatchType
          BY <2>1 DEF ScheduleInv, OnceInv, TypeInv, TypeOK, AllBatches, Range
        <5> QED
          BY <5>1 DEF BatchType
      <4> QED
        BY <2>1, <4>1, NextBoundaryTicks DEF ScheduleInv, NeverEarly
    <3>2. PICK k \in Nat : k = b.end * S
      BY <3>1
    <3> QED
      BY <1>1, <1>4, <3>1, <3>2
  <2> QED
    BY <1>4, <2>1 DEF ScheduleInv, DriftFree, NeverEarly
<1>5. ASSUME NEW b \in outbox, SendBatch(b) PROVE DriftFree' /\ NeverEarly'
  BY <1>4, <1>5, SendKeeps DEF SendBatch, ScheduleInv
<1>6. ASSUME Receive PROVE DriftFree' /\ NeverEarly'
  BY <1>4, <1>6, ReceiveKeeps DEF Receive, ScheduleInv
<1>7. ASSUME (\E p \in Points : TrySend(p)) \/ CloseReadings \/ Tick \/ Record \/ RecvClosed
             \/ SendFailed \/ Hangup \/ Stopped \/ UNCHANGED vars
      PROVE  DriftFree' /\ NeverEarly'
  <2>1. AllBatches' = AllBatches /\ UNCHANGED <<deadline, windowEnd>>
        /\ (now' = now \/ now' = now + 1)
    BY <1>7 DEF TrySend, CloseReadings, Tick, Record, RecvClosed, SendFailed, Hangup,
                Stopped, vars, AllBatches, Range
  <2> QED
    BY <1>4, <2>1
<1> QED
  BY <1>2, <1>3, <1>5, <1>6, <1>7 DEF Next

\* The schedule's invariant holds throughout every behaviour.
LEMMA ScheduleAlways == Spec => []ScheduleInv
<1>1. Init => ScheduleInv
  BY InitOnce, InitSchedule DEF ScheduleInv
<1>2. ScheduleInv /\ [Next]_vars => ScheduleInv'
  BY NextOnce, NextSchedule DEF ScheduleInv
<1> QED
  BY <1>1, <1>2, PTL DEF Spec

\* The first multiple of the window after a time is at most a window away.
LEMMA BoundaryAhead ==
  ASSUME NEW t \in Nat
  PROVE  NextBoundary(t) * S - t \in 1 .. W * S
<1>1. PICK s \in Nat, r \in 0 .. S - 1 : t = s * S + r /\ Secs(t) = s
  BY TimeAssumption DEF Secs
<1>2. PICK k \in Nat, m \in 0 .. W - 1 : s = k * W + m /\ s \div W = k
  BY TimeAssumption
<1>3. NextBoundary(t) = k * W + W
  BY <1>1, <1>2, TimeAssumption DEF NextBoundary
<1>4. PICK d \in 1 .. W : d = W - m /\ NextBoundary(t) = s + d
  BY <1>2, <1>3, TimeAssumption
<1>5. NextBoundary(t) * S = s * S + d * S /\ d * S \in Nat
  BY <1>4, TimeAssumption
<1>6. S <= d * S /\ d * S <= W * S /\ W * S \in Nat
  BY TimeAssumption
<1> QED
  BY <1>1, <1>5, <1>6, TimeAssumption

\* The first flush is due within one window of the start.
LEMMA InitFirstWindow == Init => FirstWindow
<1> SUFFICES ASSUME Init PROVE FirstWindow
  OBVIOUS
<1>1. PICK t \in StartTicks, lag \in 0 .. MaxLag :
        /\ now = t + lag
        /\ deadline = now + (NextBoundary(t) * S - t)
  BY DEF Init
<1>2. t \in Nat /\ now \in Nat
  BY <1>1, TimeAssumption
<1>3. PICK n \in 1 .. W * S : n = NextBoundary(t) * S - t
  BY <1>2, BoundaryAhead
<1>4. deadline - now = n
  BY <1>1, <1>2, <1>3, TimeAssumption
<1> QED
  BY <1>4 DEF FirstWindow

\* The first window ends after the start and at most one window later; from then on the
\* deadline never drifts from the wall-clock boundary, and no window is sealed before its
\* end, however late the timer fires and however long a flush waits for the publisher
\* (next_boundary and run_aggregator).
THEOREM ScheduleKept == Spec => OnSchedule
<1>1. ScheduleInv => NeverEarly /\ DriftFree
  BY DEF ScheduleInv
<1> QED
  BY <1>1, ScheduleAlways, InitFirstWindow, PTL DEF Spec, OnSchedule

-----------------------------------------------------------------------------
\* A multiple of the window.
LEMMA WholeMultiple ==
    ASSUME NEW k \in Nat
    PROVE  k * W \in Nat /\ (k * W) % W = 0
  BY TimeAssumption

\* The next multiple of the window.
LEMMA NextMultiple ==
    ASSUME NEW e \in Nat, e % W = 0
    PROVE  (e + W) % W = 0
<1>1. PICK k \in Nat : e = k * W
  <2>0. W \in Nat \ {0}
    BY TimeAssumption
  <2>1. e = W * (e \div W) + (e % W)
    BY <2>0
  <2>2. PICK q \in Int : q = e \div W /\ e = q * W
    <3>1. e \div W \in Int
      BY <2>0
    <3> QED
      BY <2>0, <2>1, <3>1
  <2>3. q >= 0
    <3>1. CASE q <= -1
      <4>1. q * W <= -W
        BY <2>0, <3>1
      <4> QED
        BY <2>0, <2>2, <4>1
    <3> QED
      BY <3>1
  <2>4. q \in Nat
    BY <2>3
  <2> QED
    BY <2>2, <2>4, Zenon
<1>2. e + W = (k + 1) * W
  BY <1>1, TimeAssumption
<1> QED
  BY <1>2, WholeMultiple

\* The windows that were sealed are those before the open one; between two selects all
\* batches waiting to be sent are of the window that is being closed.
EndsInv ==
    /\ windowEnd % W = 0
    /\ \A b \in AllBatches : b.end <= windowEnd /\ (pc = "select" => b.end < windowEnd)
    /\ \A b \in outbox : b.end = windowEnd

WindowInv == OnceInv /\ EndsInv /\ WindowsInOrder

\* What a flush makes of the accumulators.
LEMMA FlushedAre ==
    ASSUME OnceInv, EndsInv
    PROVE  \A b \in FlushedBatches(agg, windowEnd) :
              /\ b.end = windowEnd /\ b.end = b.start + W /\ b.points # {}
              /\ \A x \in b.points : x.samples # {} /\ DeviceOf[x.name] = b.device
              /\ \A x, y \in b.points : x.name = y.name => x = y
              /\ \A c \in FlushedBatches(agg, windowEnd) : b.device = c.device => b = c
<1>1. ASSUME NEW b \in FlushedBatches(agg, windowEnd)
      PROVE  /\ b.end = windowEnd /\ b.end = b.start + W
             /\ b.points = {[name |-> p, samples |-> agg[p]] : p \in Surviving(agg, b.device)}
             /\ Surviving(agg, b.device) # {}
             /\ b = Batch(agg, b.device, windowEnd)
  <2>1. PICK d \in Devices : Surviving(agg, d) # {} /\ b = Batch(agg, d, windowEnd)
    BY DEF FlushedBatches
  <2>2. windowEnd \in Nat /\ W \in Nat
    BY TimeAssumption DEF OnceInv, TypeInv, TypeOK
  <2>3. /\ b.device = d /\ b.end = windowEnd /\ b.start = windowEnd - W
        /\ b.points = {[name |-> p, samples |-> agg[p]] : p \in Surviving(agg, d)}
    BY <2>1 DEF Batch
  <2> QED
    BY <2>1, <2>2, <2>3
<1>2. ASSUME NEW b \in FlushedBatches(agg, windowEnd), NEW x \in b.points
      PROVE  /\ x.samples = agg[x.name] /\ x = [name |-> x.name, samples |-> agg[x.name]]
             /\ x.samples # {} /\ DeviceOf[x.name] = b.device
  <2>1. PICK p \in Surviving(agg, b.device) : x = [name |-> p, samples |-> agg[p]]
    BY <1>1
  <2> QED
    BY <2>1 DEF Surviving
<1>3. ASSUME NEW b \in FlushedBatches(agg, windowEnd), NEW x \in b.points, NEW y \in b.points,
             x.name = y.name
      PROVE  x = y
  BY <1>2, <1>3
<1>4. ASSUME NEW b \in FlushedBatches(agg, windowEnd), NEW c \in FlushedBatches(agg, windowEnd),
             b.device = c.device
      PROVE  b = c
  BY <1>1, <1>4
<1>5. ASSUME NEW b \in FlushedBatches(agg, windowEnd) PROVE b.points # {}
  <2>1. PICK p \in Surviving(agg, b.device) : TRUE
    BY <1>1
  <2>2. [name |-> p, samples |-> agg[p]] \in b.points
    BY <1>1, <2>1
  <2> QED
    BY <2>2
<1> QED
  BY <1>1, <1>2, <1>3, <1>4, <1>5

\* The windows' ends stay in step with the schedule.
LEMMA NextEnds ==
    ASSUME OnceInv, EndsInv, [Next]_vars
    PROVE  EndsInv'
<1>1. windowEnd \in Nat /\ W \in Nat \ {0} /\ (pc = "select" => outbox = {})
  BY TimeAssumption DEF OnceInv, TypeInv, TypeOK
<1>2. \A b \in AllBatches : b.end \in Nat
  <2>1. \A b \in AllBatches : b \in BatchType
    BY DEF OnceInv, TypeInv, TypeOK, AllBatches, Range
  <2> QED
    BY <2>1 DEF BatchType
<1>3. CASE Flush
  <2>1. AllBatches' = AllBatches \cup FlushedBatches(agg, windowEnd)
    BY <1>1, <1>3 DEF Flush, AllBatches, Range
  <2>2. \A b \in FlushedBatches(agg, windowEnd) : b.end = windowEnd
    BY FlushedAre
  <2> QED
    BY <1>1, <1>3, <2>1, <2>2 DEF Flush, EndsInv
<1>4. CASE NextWindow
  <2>1. AllBatches' = AllBatches /\ windowEnd' = windowEnd + W /\ outbox' = {}
    BY <1>4 DEF NextWindow, NextEnd, AllBatches, Range
  <2>2. windowEnd' % W = 0
    BY <1>1, <2>1, NextMultiple DEF EndsInv
  <2> QED
    BY <1>1, <1>2, <2>1, <2>2 DEF EndsInv
<1>5. CASE \E b \in outbox : SendBatch(b)
  BY <1>5, SendKeeps DEF SendBatch, EndsInv
<1>6. CASE Receive
  BY <1>6, ReceiveKeeps DEF Receive, EndsInv
<1>7. CASE \/ \E p \in Points : TrySend(p)
           \/ CloseReadings \/ Tick \/ Record \/ RecvClosed \/ SendFailed \/ Hangup \/ Stopped
           \/ UNCHANGED vars
  <2>1. AllBatches' = AllBatches /\ UNCHANGED <<windowEnd, outbox>> /\ (pc' = "select" => pc = "select")
    BY <1>7 DEF TrySend, CloseReadings, Tick, Record, RecvClosed, SendFailed, Hangup, Stopped, vars,
                AllBatches, Range
  <2> QED
    BY <2>1 DEF EndsInv
<1> QED
  BY <1>3, <1>4, <1>5, <1>6, <1>7 DEF Next


-----------------------------------------------------------------------------
\* The sealed batches are whole windows: a flush adds whole ones.
LEMMA NextWhole ==
    ASSUME OnceInv, EndsInv, WholeWindows, [Next]_vars
    PROVE  WholeWindows'
<1>1. CASE AllBatches' = AllBatches
  BY <1>1 DEF WholeWindows
<1>2. CASE Flush
  <2>1. AllBatches' = AllBatches \cup FlushedBatches(agg, windowEnd)
    BY <1>2 DEF Flush, AllBatches, Range, OnceInv
  <2>2. \A b \in FlushedBatches(agg, windowEnd) :
            /\ b.end = b.start + W /\ b.end % W = 0
            /\ b.points # {}
            /\ \A x \in b.points : x.samples # {} /\ DeviceOf[x.name] = b.device
            /\ \A x, y \in b.points : x.name = y.name => x = y
    BY FlushedAre DEF EndsInv
  <2> QED
    BY <2>1, <2>2 DEF WholeWindows
<1>3. CASE ~Flush
  <2>1. AllBatches' = AllBatches
    BY <1>3, SendKeeps, ReceiveKeeps
    DEF Next, TrySend, CloseReadings, Tick, Record, RecvClosed, SendFailed, NextWindow, Hangup,
        Stopped, vars, AllBatches, Range
  <2> QED
    BY <1>1, <2>1
<1> QED
  BY <1>2, <1>3

\* The stream of batches grows at its end only.
LEMMA NextStream ==
    ASSUME OnceInv, [Next]_vars
    PROVE  /\ Stream \in Seq(BatchType)
           /\ \A b \in outbox : SendBatch(b) => Stream' = Append(Stream, b)
           /\ Stream' = Stream \/ \E b \in outbox : SendBatch(b)
<1>1. delivered \in Seq(BatchType) /\ batches \in Seq(BatchType) /\ outbox \subseteq BatchType
  BY DEF OnceInv, TypeInv, TypeOK
<1>2. ASSUME NEW b \in outbox, SendBatch(b) PROVE Stream' = Append(Stream, b)
  <2>1. b \in BatchType /\ batches' = Append(batches, b) /\ delivered' = delivered
    BY <1>1, <1>2 DEF SendBatch
  <2>2. delivered \o Append(batches, b) = Append(delivered \o batches, b)
    BY <1>1, <2>1
  <2> QED
    BY <2>1, <2>2 DEF Stream
<1>3. ASSUME Receive PROVE Stream' = Stream
  <2>1. /\ batches # <<>> /\ batches' = Tail(batches)
        /\ delivered' = Append(delivered, Head(batches))
    BY <1>3 DEF Receive
  <2>2. Append(delivered, Head(batches)) \o Tail(batches) = delivered \o batches
    BY <1>1, <2>1
  <2> QED
    BY <1>1, <2>1, <2>2 DEF Stream
<1>4. ASSUME \/ \E p \in Points : TrySend(p)
             \/ CloseReadings \/ Tick \/ Record \/ RecvClosed \/ Flush \/ SendFailed
             \/ NextWindow \/ Hangup \/ Stopped \/ UNCHANGED vars
      PROVE  Stream' = Stream
  <2>1. UNCHANGED <<delivered, batches>>
    BY <1>4 DEF TrySend, CloseReadings, Tick, Record, RecvClosed, Flush, SendFailed, NextWindow,
                Hangup, Stopped, vars
  <2> QED
    BY <1>1, <2>1 DEF Stream
<1>5. Stream \in Seq(BatchType)
  BY <1>1 DEF Stream
<1> QED
  BY <1>2, <1>3, <1>4, <1>5 DEF Next

\* The batches of the stream have been sealed.
LEMMA StreamIsSealed ==
    ASSUME OnceInv
    PROVE  /\ Stream \in Seq(BatchType)
           /\ \A i \in DOMAIN Stream : Stream[i] \in AllBatches /\ Stream[i].end \in Nat
<1>1. delivered \in Seq(BatchType) /\ batches \in Seq(BatchType)
  BY DEF OnceInv, TypeInv, TypeOK
<1>2. Stream \in Seq(BatchType) /\ DOMAIN Stream = 1 .. Len(delivered) + Len(batches)
  BY <1>1 DEF Stream
<1>3. ASSUME NEW i \in DOMAIN Stream PROVE Stream[i] \in AllBatches
  <2>1. CASE i <= Len(delivered)
    BY <1>1, <1>2, <1>3, <2>1 DEF Stream, AllBatches, Range
  <2>2. CASE ~(i <= Len(delivered))
    <3>1. i - Len(delivered) \in DOMAIN batches /\ Stream[i] = batches[i - Len(delivered)]
      BY <1>1, <1>2, <1>3, <2>2 DEF Stream
    <3> QED
      BY <3>1 DEF AllBatches, Range
  <2> QED
    BY <2>1, <2>2
<1>4. \A i \in DOMAIN Stream : Stream[i] \in BatchType
  BY <1>2
<1>5. \A b \in BatchType : b.end \in Nat
  BY DEF BatchType
<1> QED
  BY <1>2, <1>3, <1>4, <1>5


\* The stream keeps the order of the windows, and so do the batches still to be sent.
LEMMA NextOrder ==
    ASSUME OnceInv, EndsInv, SentInOrder, [Next]_vars
    PROVE  SentInOrder'
<1>1. Stream \in Seq(BatchType) /\ \A i \in DOMAIN Stream : Stream[i] \in AllBatches /\ Stream[i].end \in Nat
  BY StreamIsSealed
<1>2. CASE \E b \in outbox : SendBatch(b)
  <2>1. PICK b \in outbox : SendBatch(b) /\ Stream' = Append(Stream, b)
    BY <1>2, NextStream
  <2>2. outbox' = outbox \ {b}
    BY <2>1 DEF SendBatch
  <2>3. b \in BatchType
    BY <2>1 DEF OnceInv, TypeInv, TypeOK
  <2>4. /\ DOMAIN Stream' = 1 .. Len(Stream) + 1 /\ DOMAIN Stream = 1 .. Len(Stream)
        /\ Len(Stream) \in Nat /\ Stream'[Len(Stream) + 1] = b
        /\ \A i \in DOMAIN Stream : Stream'[i] = Stream[i]
    BY <1>1, <2>1, <2>3
  <2>5. ASSUME NEW i \in DOMAIN Stream', NEW j \in DOMAIN Stream', i < j
        PROVE  /\ Stream'[i].end <= Stream'[j].end
               /\ Stream'[i].device = Stream'[j].device => Stream'[i].end < Stream'[j].end
    <3>1. i \in DOMAIN Stream
      BY <2>4, <2>5
    <3>2. CASE j \in DOMAIN Stream
      BY <2>4, <2>5, <3>1, <3>2 DEF SentInOrder
    <3>3. CASE j = Len(Stream) + 1
      BY <2>1, <2>4, <3>1, <3>3 DEF SentInOrder
    <3> QED
      BY <2>4, <2>5, <3>2, <3>3
  <2>6. ASSUME NEW c \in outbox', NEW i \in DOMAIN Stream'
        PROVE  /\ Stream'[i].end <= c.end
               /\ Stream'[i].device = c.device => Stream'[i].end < c.end
    <3>1. c \in outbox /\ c # b
      BY <2>2, <2>6
    <3>2. CASE i \in DOMAIN Stream
      BY <2>4, <3>1, <3>2 DEF SentInOrder
    <3>3. CASE i = Len(Stream) + 1
      <4>1. b.end = windowEnd /\ c.end = windowEnd /\ windowEnd \in Nat
        BY <2>1, <3>1 DEF EndsInv, OnceInv, TypeInv, TypeOK
      <4>2. b.device # c.device
        BY <2>1, <3>1 DEF SentInOrder
      <4> QED
        BY <2>4, <3>3, <4>1, <4>2
    <3> QED
      BY <2>4, <2>6, <3>2, <3>3
  <2>7. \A c, d \in outbox' : c.device = d.device => c = d
    BY <2>2 DEF SentInOrder
  <2> QED
    BY <2>5, <2>6, <2>7 DEF SentInOrder
<1>3. CASE Flush
  <2>1. /\ Stream' = Stream /\ outbox' = FlushedBatches(agg, windowEnd) /\ pc = "select"
    BY <1>3 DEF Flush, Stream
  <2>2. /\ \A b \in outbox' : b.end = windowEnd
        /\ \A b, c \in outbox' : b.device = c.device => b = c
    BY <2>1, FlushedAre
  <2>3. \A i \in DOMAIN Stream : Stream[i].end < windowEnd /\ Stream[i].end <= windowEnd
    BY <1>1, <2>1 DEF EndsInv, OnceInv, TypeInv, TypeOK
  <2>4. ASSUME NEW b \in outbox', NEW i \in DOMAIN Stream
        PROVE  Stream[i].end <= b.end /\ Stream[i].end < b.end
    BY <2>2, <2>3
  <2> QED
    BY <2>1, <2>2, <2>4 DEF SentInOrder
<1>4. CASE ~Flush /\ ~(\E b \in outbox : SendBatch(b))
  <2>1. outbox' = outbox
    BY <1>4 DEF Next, TrySend, CloseReadings, Tick, Record, RecvClosed, SendFailed,
                NextWindow, Receive, Hangup, Stopped, vars
  <2>2. Stream' = Stream
    BY <1>4, NextStream
  <2> QED
    BY <2>1, <2>2 DEF SentInOrder
<1> QED
  BY <1>2, <1>3, <1>4

\* No reading is in a window before that of an older one.
LEMMA NextFollow ==
    ASSUME OnceInv, EndsInv, WindowsFollowReadings, [Next]_vars
    PROVE  WindowsFollowReadings'
<1>1. /\ Taken \in Nat /\ windowEnd \in Nat
      /\ \A p \in Points : agg[p] \subseteq 1 .. Taken
      /\ \A b \in AllBatches : Ids(b) \subseteq 1 .. Taken
  BY IdsTaken DEF OnceInv, TypeInv, TypeOK, QueueIsSuffix, Taken
<1>2. CASE Record
  <2>1. Head(readings) = Taken + 1 /\ accepted[Head(readings)] \in Points
    BY <1>2, HeadReading DEF Record, OnceInv
  <2>2. agg' = [agg EXCEPT ![accepted[Taken + 1]] = @ \cup {Taken + 1}]
    BY <1>2, <2>1 DEF Record
  <2>3. AllBatches' = AllBatches
    BY <1>2 DEF Record, AllBatches, Range
  <2>4. \A p \in Points : agg'[p] \subseteq agg[p] \cup {Taken + 1}
    BY <2>1, <2>2 DEF OnceInv, TypeInv, TypeOK
  <2>5. ASSUME NEW b \in AllBatches, NEW p \in Points, NEW i \in Ids(b), NEW j \in agg'[p]
        PROVE  i < j
    <3>1. CASE j \in agg[p]
      BY <2>5, <3>1 DEF WindowsFollowReadings
    <3>2. CASE j = Taken + 1
      BY <1>1, <2>5, <3>2
    <3> QED
      BY <2>4, <2>5, <3>1, <3>2
  <2> QED
    BY <2>3, <2>5 DEF WindowsFollowReadings
<1>3. CASE Flush
  <2> DEFINE new == FlushedBatches(agg, windowEnd)
  <2>1. AllBatches' = AllBatches \cup new
    BY <1>3 DEF Flush, AllBatches, Range, OnceInv
  <2>2. \A p \in Points : agg'[p] = {}
    BY <1>3 DEF Flush, Reset, Empty
  <2>3. \A b \in new : b.end = windowEnd
    BY FlushedAre
  <2>4. \A b \in new : \A i \in Ids(b) : \E p \in Points : i \in agg[p]
    <3>1. agg \in [Points -> SUBSET Nat]
      BY DEF OnceInv, TypeInv, TypeOK, Sample
    <3> QED
      BY <3>1, FlushIds
  <2>5. \A b \in AllBatches : b.end <= windowEnd
    BY DEF EndsInv
  <2> HIDE DEF new
  <2>6. ASSUME NEW b \in AllBatches', NEW c \in AllBatches', NEW i \in Ids(b), NEW j \in Ids(c), i < j
        PROVE  b.end <= c.end
    <3>1. CASE c \in new
      BY <1>1, <2>1, <2>3, <2>5, <2>6, <3>1
    <3>2. CASE b \in new /\ c \in AllBatches
      <4>1. PICK p \in Points : i \in agg[p]
        BY <2>4, <2>6, <3>2
      <4>2. j < i /\ i \in Nat /\ j \in Nat
        BY <1>1, <2>6, <3>2, <4>1 DEF WindowsFollowReadings
      <4> QED
        BY <2>6, <4>2
    <3>3. CASE b \in AllBatches /\ c \in AllBatches
      BY <2>6, <3>3 DEF WindowsFollowReadings
    <3> QED
      BY <2>1, <2>6, <3>1, <3>2, <3>3
  <2> QED
    BY <2>2, <2>6 DEF WindowsFollowReadings
<1>4. CASE ~Record /\ ~Flush
  <2>1. AllBatches' = AllBatches
    BY <1>4, SendKeeps, ReceiveKeeps
    DEF Next, TrySend, CloseReadings, Tick, RecvClosed, SendFailed, NextWindow, Hangup,
        Stopped, vars, AllBatches, Range
  <2>2. agg' = agg
    BY <1>4 DEF Next, TrySend, CloseReadings, Tick, RecvClosed, SendBatch, SendFailed, NextWindow,
                Receive, Hangup, Stopped, vars
  <2> QED
    BY <2>1, <2>2 DEF WindowsFollowReadings
<1> QED
  BY <1>2, <1>3, <1>4

\* No window is sealed at first.
LEMMA InitWindow == Init => WindowInv
<1> SUFFICES ASSUME Init PROVE WindowInv
  OBVIOUS
<1>1. OnceInv
  BY InitOnce
<1>2. AllBatches = {} /\ outbox = {} /\ Stream = <<>>
  BY DEF Init, AllBatches, Range, Stream
<1>3. windowEnd % W = 0
  <2>1. PICK t \in StartTicks : windowEnd = NextBoundary(t)
    BY DEF Init
  <2>2. PICK k \in Nat : k = Secs(t) \div W + 1
    BY TimeAssumption DEF Secs
  <2>3. windowEnd = k * W
    BY <2>1, <2>2 DEF NextBoundary
  <2> QED
    BY <2>3, WholeMultiple
<1>4. DOMAIN Stream = {}
  BY <1>2
<1> QED
  BY <1>1, <1>2, <1>3, <1>4 DEF WindowInv, EndsInv, WindowsInOrder, WholeWindows, SentInOrder,
                                WindowsFollowReadings

\* Every step keeps the windows whole and in order.
LEMMA WindowAlways == Spec => []WindowInv
<1>1. WindowInv /\ [Next]_vars => WindowInv'
  BY NextOnce, NextEnds, NextWhole, NextOrder, NextFollow DEF WindowInv, WindowsInOrder
<1> QED
  BY <1>1, InitWindow, PTL DEF Spec

\* For every configuration, window length and capacity the publisher receives whole windows,
\* each once and in order, and no reading in a window that precedes that of an older one
\* (flush and the sends of run_aggregator).
THEOREM WindowsKeepOrder == Spec => []WindowsInOrder
<1>1. WindowInv => WindowsInOrder
  BY DEF WindowInv
<1> QED
  BY <1>1, WindowAlways, PTL


-----------------------------------------------------------------------------
\* The end of the window that the abstract stage has open.
Open == IF pc = "flush" \/ outbox # {} THEN windowEnd + W ELSE windowEnd

\* A flush is the abstract stage's sealing of the open window.
LEMMA FlushSeals ==
    ASSUME OnceInv, Flush
    PROVE  Abstract!Seal
<1>1. /\ pc = "select" /\ outbox = {} /\ pc' = "flush" /\ outbox' = FlushedBatches(agg, windowEnd)
      /\ UNCHANGED <<accepted, readings, windowEnd>>
      /\ agg' = [p \in Points |-> {}]
      /\ AllBatches' = AllBatches \cup FlushedBatches(agg, windowEnd)
  BY DEF Flush, OnceInv, Reset, Empty, AllBatches, Range
<1>2. \A d : Abstract!Sampled(d) = Surviving(agg, d)
  BY DEF Abstract!Sampled, Surviving
<1>3. \A d : Abstract!Sealed(d) = Batch(agg, d, windowEnd)
  BY <1>1, <1>2 DEF Abstract!Sealed, Batch
<1>4. {Abstract!Sealed(d) : d \in {e \in Devices : Abstract!Sampled(e) # {}}}
        = FlushedBatches(agg, windowEnd)
  BY <1>2, <1>3 DEF FlushedBatches
<1> QED
  BY <1>1, <1>4 DEF Abstract!Seal, Taken

\* A reading is counted where the abstract stage counts it.
LEMMA RecordCounts ==
    ASSUME OnceInv, Record
    PROVE  Abstract!Count
<1>1. Head(readings) = Taken + 1 /\ readings # <<>> /\ pc = "select"
  BY HeadReading DEF Record, OnceInv
<1>2. Taken' = Taken + 1 /\ Taken < Len(accepted)
  BY <1>1 DEF Record, Taken, OnceInv, TypeInv, TypeOK, QueueIsSuffix
<1>3. /\ agg' = [agg EXCEPT ![accepted[Taken + 1]] = @ \cup {Taken + 1}]
      /\ UNCHANGED <<accepted, pc, outbox, windowEnd>> /\ AllBatches' = AllBatches
  BY <1>1 DEF Record, AllBatches, Range
<1> QED
  BY <1>1, <1>2, <1>3 DEF Abstract!Count

\* Every step of the task and its channels is a step of the abstract stage or hidden from it.
LEMMA StageStep == OnceInv /\ [Next]_vars => [Abstract!Next]_(Abstract!vars)
<1> SUFFICES ASSUME OnceInv, [Next]_vars PROVE [Abstract!Next]_(Abstract!vars)
  OBVIOUS
<1>1. /\ readings \in Seq(Nat) /\ accepted \in Seq(Points) /\ (pc = "select" => outbox = {})
  BY DEF OnceInv, TypeInv, TypeOK
<1>2. ASSUME NEW p \in Points, TrySend(p) PROVE Abstract!Next
  <2>1. Taken' = Taken /\ AllBatches' = AllBatches
    BY <1>1, <1>2 DEF TrySend, Taken, AllBatches, Range
  <2>2. Abstract!Accept(p)
    BY <1>2, <2>1 DEF TrySend, Abstract!Accept
  <2> QED
    BY <2>2 DEF Abstract!Next
<1>3. CASE Record
  BY <1>3, RecordCounts DEF Abstract!Next
<1>4. CASE Flush
  BY <1>4, FlushSeals DEF Abstract!Next
<1>5. CASE RecvClosed \/ SendFailed
  <2>1. /\ UNCHANGED <<accepted, readings, agg, windowEnd, outbox>> /\ AllBatches' = AllBatches
        /\ pc # "returned" /\ pc' = "returned" /\ (pc = "flush" => outbox # {})
    BY <1>5 DEF RecvClosed, SendFailed, AllBatches, Range
  <2>2. Open' = Open
    BY <2>1 DEF Open
  <2>3. Abstract!Stop
    BY <2>1, <2>2 DEF Abstract!Stop, Open, Taken
  <2> QED
    BY <2>3 DEF Abstract!Next
<1>6. CASE (\E b \in outbox : SendBatch(b)) \/ NextWindow
  <2>1. /\ UNCHANGED <<accepted, readings, agg>> /\ AllBatches' = AllBatches
        /\ pc # "returned" /\ pc' # "returned"
    BY <1>6, SendKeeps DEF SendBatch, NextWindow, AllBatches, Range
  <2>2. Open' = Open
    BY <1>6 DEF SendBatch, NextWindow, NextEnd, Open
  <2> QED
    BY <2>1, <2>2 DEF Abstract!vars, Open, Taken
<1>7. CASE CloseReadings \/ Tick \/ Receive \/ Hangup \/ Stopped \/ UNCHANGED vars
  <2>1. UNCHANGED <<accepted, readings, agg, pc, windowEnd, outbox>> /\ AllBatches' = AllBatches
    BY <1>7, ReceiveKeeps
    DEF CloseReadings, Tick, Receive, Hangup, Stopped, vars, AllBatches, Range
  <2> QED
    BY <2>1 DEF Abstract!vars, Taken
<1> QED
  BY <1>2, <1>3, <1>4, <1>5, <1>6, <1>7 DEF Next

\* The aggregator task with its bounded channels, its timer and its waiting sends implements
\* the abstract stage, which counts each reading in the window that is open when it is taken
\* and seals a window once (run_aggregator).
THEOREM StageImplemented == Spec => ImplementsTumblingWindow
<1>1. Init => Abstract!Init
  <2> SUFFICES ASSUME Init PROVE Abstract!Init
    OBVIOUS
  <2>1. windowEnd \in Nat /\ windowEnd % W = 0 /\ windowEnd > 0
    BY InitWindow, TimeAssumption DEF WindowInv, EndsInv, OnceInv, TypeInv, TypeOK
  <2>2. AllBatches = {} /\ Taken = 0
    BY DEF Init, AllBatches, Range, Taken
  <2> QED
    BY <2>1, <2>2 DEF Init, Empty, Abstract!Init
<1>2. Spec => []OnceInv
  BY InitOnce, NextOnce, PTL DEF Spec
<1> QED
  BY <1>1, <1>2, StageStep, PTL DEF Spec, ImplementsTumblingWindow, Abstract!Spec
=============================================================================

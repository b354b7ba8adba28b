---------------------------- MODULE PollerProofs ----------------------------
(***************************************************************************)
(* Proofs about Poller: type correctness, the turn every device gets in    *)
(* every tick, that the connection task implements the reporting protocol  *)
(* ConnectionReports, that the reports tell the reads, and the cap of the  *)
(* retry delays, for any number of devices and blocks and all delays.      *)
(***************************************************************************)
EXTENDS Poller, WellFoundedInduction, TLAPS

\* The devices reported in this tick are the first ones, in configuration order.
InOrder == \A i \in 1 .. Len(reported) : reported[i].device = i

\* While device dev is read, those before it have been reported; between ticks all
\* have been, or nothing was read on this connection; nothing survives a reconnect.
TurnInv ==
    /\ reported \in Seq([device : 1 .. N, ok : BOOLEAN])
    /\ pc = "read" => Len(reported) = dev - 1 /\ InOrder
    /\ pc = "tick" => (reads = <<>> /\ reported = <<>>) \/ (Len(reported) = N /\ InOrder)
    /\ pc = "connect" => reads = <<>> /\ reported = <<>>

IInv == TypeOK /\ TurnInv

-----------------------------------------------------------------------------
\* The smaller of two delays is a delay (Duration::min).
LEMMA LeastIs ==
    ASSUME NEW a \in Nat, NEW b \in Nat
    PROVE  Least(a, b) \in Nat /\ Least(a, b) <= b
BY DEF Least

\* A wait leaves a delay, and the counters stay within their bound.
LEMMA WaitIs ==
    /\ \A d \in Nat : AfterWait(d) \in Nat
    /\ \A n \in 0 .. MaxCount : CountUp(n) \in 0 .. MaxCount
<1>1. ASSUME NEW d \in Nat PROVE AfterWait(d) \in Nat
  BY PollerAssumption DEF AfterWait, Least
<1>2. ASSUME NEW n \in 0 .. MaxCount PROVE CountUp(n) \in 0 .. MaxCount
  BY PollerAssumption DEF CountUp, Least
<1> QED BY <1>1, <1>2

\* Reporting the device being read keeps the turns in order and moves on to the next
\* device, or to the ticker after the last one.
LEMMA ReportTurn ==
    ASSUME IInv, pc = "read", NEW ok \in BOOLEAN, ReportDevice(ok)
    PROVE  /\ TurnInv'
           /\ dev' \in 1 .. N /\ blk' \in 1 .. Blocks[dev']
           /\ event'.device \in 0 .. N /\ pc' \in {"read", "tick"}
<1> USE PollerAssumption DEF IInv, TypeOK, ReportDevice
<1> DEFINE new == [device |-> dev, ok |-> ok]
<1>1. /\ dev \in 1 .. N /\ reported \in Seq([device : 1 .. N, ok : BOOLEAN])
      /\ Len(reported) = dev - 1 /\ InOrder
  BY DEF TurnInv
<1>2. new \in [device : 1 .. N, ok : BOOLEAN]
  BY <1>1
<1>3. /\ reported' = Append(reported, new)
      /\ reported' \in Seq([device : 1 .. N, ok : BOOLEAN])
      /\ Len(reported') = dev
  BY <1>1, <1>2
<1>4. InOrder'
  <2> SUFFICES ASSUME NEW i \in 1 .. Len(reported') PROVE reported'[i].device = i
    BY DEF InOrder
  <2>1. CASE i = dev
    BY <1>1, <1>3, <2>1
  <2>2. CASE i # dev
    <3>1. i \in 1 .. Len(reported)
      BY <1>1, <1>3, <2>2
    <3>2. reported'[i] = reported[i]
      BY <1>1, <1>2, <1>3, <3>1
    <3> QED BY <1>1, <3>1, <3>2 DEF InOrder
  <2> QED BY <2>1, <2>2
<1>5. CASE dev < N
  <2>1. dev' = dev + 1 /\ pc' = "read" /\ blk' = 1
    BY <1>5
  <2> QED BY <1>1, <1>3, <1>4, <1>5, <2>1 DEF TurnInv, Event
<1>6. CASE ~(dev < N)
  <2>1. dev' = 1 /\ pc' = "tick" /\ blk' = 1 /\ dev = N
    BY <1>1, <1>6
  <2> QED BY <1>1, <1>3, <1>4, <2>1 DEF TurnInv, Event
<1> QED BY <1>5, <1>6

\* The invariant holds when the connection task starts.
LEMMA InitInv == Init => IInv
<1> SUFFICES ASSUME Init PROVE IInv
  OBVIOUS
<1>1. open \in BOOLEAN
  BY Zenon DEF Init
<1> QED
  BY <1>1, PollerAssumption DEF Init, IInv, TypeOK, TurnInv, Event

\* Every step keeps the invariant.
LEMMA NextInv == IInv /\ [Next]_vars => IInv'
<1> SUFFICES ASSUME IInv, [Next]_vars PROVE IInv'
  OBVIOUS
<1> USE PollerAssumption
<1>1. CASE Connected \/ ConnectFailed
  <2>1. open' \in BOOLEAN
    BY <1>1, Zenon DEF IInv, TypeOK, Connected, ConnectFailed
  <2>2. event'.device = 0
    BY <1>1 DEF Connected, ConnectFailed, Event
  <2>3. TurnInv'
    BY <1>1 DEF IInv, TurnInv, Connected, ConnectFailed
  <2>4. pc' \in {"tick", "backoff"}
        /\ UNCHANGED <<dev, blk, backoff, respawn, fails, panics>>
    BY <1>1 DEF Connected, ConnectFailed
  <2> QED
    BY <2>1, <2>2, <2>3, <2>4 DEF IInv, TypeOK
<1>2. CASE Reconnect
  BY <1>2, WaitIs DEF IInv, TypeOK, TurnInv, InOrder, Reconnect
<1>3. CASE Respawn
  <2>1. AfterWait(respawn) \in Nat /\ CountUp(panics) \in 0 .. MaxCount
    BY WaitIs DEF IInv, TypeOK
  <2> QED
    BY <1>3, <2>1 DEF IInv, TypeOK, TurnInv, InOrder, Respawn
<1>4. CASE ReadWords
  <2> USE <1>4 DEF ReadWords, ReadDone
  <2>1. CASE blk < Blocks[dev]
    BY <2>1 DEF IInv, TypeOK, TurnInv, InOrder
  <2>2. CASE ~(blk < Blocks[dev])
    <3>1. ReportDevice(TRUE) /\ pc = "read"
      BY <2>2
    <3>2. /\ TurnInv' /\ dev' \in 1 .. N /\ blk' \in 1 .. Blocks[dev']
          /\ event'.device \in 0 .. N /\ pc' \in {"read", "tick"}
      BY <3>1, ReportTurn
    <3> QED
      BY <3>2 DEF IInv, TypeOK
  <2> QED BY <2>1, <2>2
<1>5. ASSUME NEW o \in DeviceErrors, ReadError(o) PROVE IInv'
  <2>1. ReportDevice(FALSE) /\ pc = "read"
    BY <1>5 DEF ReadError, ReadDone
  <2>2. /\ TurnInv' /\ dev' \in 1 .. N /\ blk' \in 1 .. Blocks[dev']
        /\ event'.device \in 0 .. N /\ pc' \in {"read", "tick"}
    BY <2>1, ReportTurn
  <2> QED
    BY <1>5, <2>2 DEF ReadError, IInv, TypeOK
<1>6. CASE ReadClosed \/ ReadFatal \/ ReadPanics
  <2>1. open' \in BOOLEAN
    BY <1>6, Zenon DEF IInv, TypeOK, ReadClosed, ReadFatal, ReadPanics
  <2>2. event'.device \in 0 .. N
    BY <1>6 DEF IInv, TypeOK, Event, ReadClosed, ReadFatal, ReadPanics
  <2>3. pc' \in {"ended", "backoff", "respawn"} /\ UNCHANGED reported
    BY <1>6 DEF ReadClosed, ReadFatal, ReadPanics
  <2>4. TurnInv'
    BY <2>3 DEF IInv, TurnInv
  <2>5. /\ UNCHANGED <<dev, blk, respawn, panics>>
        /\ backoff' \in {backoff, MinDelay} /\ fails' \in {fails, 0}
    BY <1>6 DEF ReadClosed, ReadFatal, ReadPanics
  <2> QED
    BY <2>1, <2>2, <2>3, <2>4, <2>5 DEF IInv, TypeOK
<1>7. CASE Abort \/ CloseReadings \/ Ended \/ UNCHANGED vars
  <2>1. open' \in BOOLEAN
    BY <1>7, Zenon DEF IInv, TypeOK, Abort, CloseReadings, Ended, vars
  <2> QED
    BY <1>7, <2>1 DEF IInv, TypeOK, TurnInv, InOrder, Abort, CloseReadings, Ended, vars
<1>8. CASE Tick
  <2>1. open' \in BOOLEAN
    BY <1>8, Zenon DEF IInv, TypeOK, Tick
  <2> QED
    BY <1>8, <2>1 DEF IInv, TypeOK, TurnInv, InOrder, Tick
<1> QED
  BY <1>1, <1>2, <1>3, <1>4, <1>5, <1>6, <1>7, <1>8 DEF Next

\* The inductive invariant holds throughout every behaviour of the connection.
LEMMA InvAlways == Spec => []IInv
BY InitInv, NextInv, PTL DEF Spec

\* The variables keep their types and the block read is one the device has, for every
\* number of devices and blocks and all delays.
THEOREM TypeCorrect == Spec => []TypeOK
<1>1. IInv => TypeOK
  BY DEF IInv
<1> QED BY <1>1, InvAlways, PTL

\* A tick that does not end the connection reports every device, once and in
\* configuration order, whichever of them fail (run_connection).
THEOREM EveryDevice == Spec => []EveryDeviceEveryTick
<1>1. IInv => EveryDeviceEveryTick
  BY PollerAssumption DEF IInv, TypeOK, TurnInv, InOrder, EveryDeviceEveryTick
<1> QED BY <1>1, InvAlways, PTL

-----------------------------------------------------------------------------
\* Reporting the device being read is the protocol's device report.
LEMMA ReportStep ==
    ASSUME IInv, pc = "read", NEW ok \in BOOLEAN, ReportDevice(ok)
    PROVE  Reports!ReportDevice
<1>1. event' \in Reports!DeviceEvents(dev)
  BY DEF ReportDevice, Event, Reports!DeviceEvents
<1>2. CASE dev < N
  BY <1>1, <1>2, PollerAssumption DEF IInv, TypeOK, ReportDevice, Reports!ReportDevice
<1>3. CASE ~(dev < N)
  BY <1>1, <1>3, PollerAssumption DEF IInv, TypeOK, ReportDevice, Reports!ReportDevice
<1> QED BY <1>2, <1>3

\* Every step of the task is a step of the protocol or invisible to it.
LEMMA ProtocolStep == IInv /\ [Next]_vars => [Reports!Next]_(Reports!vars)
<1> SUFFICES ASSUME IInv, [Next]_vars PROVE [Reports!Next]_(Reports!vars)
  OBVIOUS
<1> USE DEF Reports!Next, Reports!vars
<1>1. CASE Connected
  BY <1>1 DEF Connected, Event, Reports!ReportUp, Reports!Up
<1>2. CASE ConnectFailed
  BY <1>2 DEF ConnectFailed, Event, Reports!ReportDown, Reports!Down
<1>3. CASE ReadFatal
  BY <1>3 DEF ReadFatal, Event, Reports!ReportDown, Reports!Down
<1>4. CASE Reconnect \/ Respawn \/ Tick \/ CloseReadings \/ Ended \/ UNCHANGED vars
  BY <1>4 DEF Reconnect, Respawn, Tick, CloseReadings, Ended, vars
<1>5. CASE ReadClosed \/ ReadPanics \/ Abort
  BY <1>5 DEF ReadClosed, ReadPanics, ReadDone, Abort, Reports!EndSilently
<1>6. CASE ReadWords
  <2>1. CASE blk < Blocks[dev]
    BY <1>6, <2>1 DEF ReadWords, ReadDone
  <2>2. CASE ~(blk < Blocks[dev])
    <3>1. ReportDevice(TRUE) /\ pc = "read"
      BY <1>6, <2>2 DEF ReadWords, ReadDone
    <3> QED BY <3>1, ReportStep
  <2> QED BY <2>1, <2>2
<1>7. ASSUME NEW o \in DeviceErrors, ReadError(o) PROVE Reports!Next
  <2>1. ReportDevice(FALSE) /\ pc = "read"
    BY <1>7 DEF ReadError, ReadDone
  <2> QED BY <2>1, ReportStep
<1> QED
  BY <1>1, <1>2, <1>3, <1>4, <1>5, <1>6, <1>7 DEF Next

\* The connection task implements the reporting protocol the status writer relies on
\* (run_connection, supervise).
THEOREM ProtocolFollowed == Spec => FollowsProtocol
<1>1. Init => Reports!Init
  BY DEF Init, Event, Reports!Init, Reports!NoEvent
<1> QED
  BY <1>1, ProtocolStep, InvAlways, PTL DEF Spec, FollowsProtocol, Reports!Spec

-----------------------------------------------------------------------------
\* The reads of device d in this tick.
Own(d) == {j \in DOMAIN reads : reads[j].device = d}

\* The blocks of device d that were read.
BlocksRead(d) == {reads[j].block : j \in {k \in Own(d) : reads[k].outcome = "words"}}

\* A read of the tick: of which device and block, and what came of it.
ReadType == [device : 1 .. N, block : Nat, outcome : {"words", "fatal", "short"} \cup DeviceErrors]

\* Of a device that was reported the reads tell the result, ...
ReportTrue(r) ==
    IF r.ok THEN BlocksRead(r.device) = 1 .. Blocks[r.device]
    ELSE \E j \in Own(r.device) : /\ reads[j].outcome \in DeviceErrors
                                  /\ \A k \in Own(r.device) : k <= j

\* ... and of the device being read the blocks before the present one have been read.
ReadsInv ==
    /\ reads \in Seq(ReadType)
    /\ \A i \in DOMAIN reported : ReportTrue(reported[i])
    /\ \A j, k \in DOMAIN reads :
          j < k /\ reads[j].device = reads[k].device => reads[j].outcome = "words"
    /\ pc = "read" =>
          /\ \A j \in DOMAIN reads : reads[j].device <= dev
          /\ \A j \in Own(dev) : reads[j].outcome = "words"
          /\ BlocksRead(dev) = 1 .. blk - 1
    /\ pc = "connect" => reads = <<>>

\* The present read joins those of the device being read, and only those.
LEMMA ReadJoins ==
    ASSUME IInv, ReadsInv, NEW o \in {"words", "fatal", "short"} \cup DeviceErrors, ReadDone(o)
    PROVE  /\ reads' \in Seq(ReadType) /\ DOMAIN reads' = 1 .. Len(reads) + 1
           /\ reads'[Len(reads) + 1].outcome = o
           /\ \A d : d # dev => Own(d)' = Own(d) /\ BlocksRead(d)' = BlocksRead(d)
           /\ \A d : d = dev =>
                 /\ Own(d)' = Own(d) \cup {Len(reads) + 1}
                 /\ BlocksRead(d)' = BlocksRead(d) \cup (IF o = "words" THEN {blk} ELSE {})
           /\ \A j \in DOMAIN reads : reads'[j] = reads[j]
           /\ \A j \in DOMAIN reads' : reads'[j].device <= dev
           /\ \A j, k \in DOMAIN reads' :
                 j < k /\ reads'[j].device = reads'[k].device => reads'[j].outcome = "words"
<1> DEFINE n == Len(reads) + 1
           r == [device |-> dev, block |-> blk, outcome |-> o]
<1>1. /\ reads \in Seq(ReadType) /\ reads' = Append(reads, r) /\ pc = "read"
      /\ dev \in 1 .. N /\ blk \in Nat
  BY PollerAssumption DEF ReadDone, ReadsInv, IInv, TypeOK
<1>2. r \in ReadType /\ r.device = dev /\ r.block = blk /\ r.outcome = o
  BY <1>1 DEF ReadType
<1>3. /\ reads' \in Seq(ReadType) /\ DOMAIN reads' = 1 .. n /\ DOMAIN reads = 1 .. Len(reads)
      /\ Len(reads) \in Nat /\ reads'[n] = r
      /\ \A j \in DOMAIN reads : reads'[j] = reads[j]
  BY <1>1, <1>2
<1> HIDE DEF r
<1>4. \A j : j \in DOMAIN reads' <=> j \in DOMAIN reads \/ j = n
  BY <1>3
<1>5. \A d : d # dev => Own(d)' = Own(d)
  BY <1>2, <1>3, <1>4 DEF Own
<1>6. \A d : d = dev => Own(d)' = Own(d) \cup {n}
  BY <1>2, <1>3, <1>4 DEF Own
<1>7. ASSUME NEW d, d # dev PROVE BlocksRead(d)' = BlocksRead(d)
  <2>1. \A j \in Own(d) : reads'[j] = reads[j]
    BY <1>3 DEF Own
  <2> QED BY <1>5, <1>7, <2>1 DEF BlocksRead
<1>8. ASSUME NEW d, d = dev
      PROVE  BlocksRead(d)' = BlocksRead(d) \cup (IF o = "words" THEN {blk} ELSE {})
  <2>1. \A j \in Own(d) : reads'[j] = reads[j]
    BY <1>3 DEF Own
  <2>2. ASSUME NEW b
        PROVE  b \in BlocksRead(d)' <=> b \in BlocksRead(d) \/ (o = "words" /\ b = blk)
    <3>1. b \in BlocksRead(d)
            <=> \E j \in Own(d) : reads[j].outcome = "words" /\ b = reads[j].block
      BY DEF BlocksRead
    <3>2. b \in BlocksRead(d)'
            <=> \E j \in Own(d) \cup {n} : reads'[j].outcome = "words" /\ b = reads'[j].block
      BY <1>6, <1>8 DEF BlocksRead
    <3> QED BY <1>2, <1>3, <2>1, <3>1, <3>2
  <2> QED BY <2>2
<1>9. \A j \in DOMAIN reads' : reads'[j].device <= dev
  BY <1>1, <1>2, <1>3, <1>4 DEF ReadsInv
<1>10. ASSUME NEW j \in DOMAIN reads', NEW k \in DOMAIN reads', j < k,
              reads'[j].device = reads'[k].device
       PROVE  reads'[j].outcome = "words"
  <2>1. j \in DOMAIN reads
    BY <1>3, <1>4, <1>10
  <2>2. CASE k = n
    BY <1>1, <1>2, <1>3, <1>10, <2>1, <2>2 DEF ReadsInv, Own
  <2>3. CASE k \in DOMAIN reads
    BY <1>3, <1>10, <2>1, <2>3 DEF ReadsInv
  <2> QED BY <1>4, <2>2, <2>3
<1> QED BY <1>2, <1>3, <1>5, <1>6, <1>7, <1>8, <1>9, <1>10

\* What was reported before stays true: it is of other devices.
LEMMA ReportsStay ==
    ASSUME IInv, ReadsInv, NEW o \in {"words", "fatal", "short"} \cup DeviceErrors, ReadDone(o),
           NEW i \in DOMAIN reported, NEW r, r = reported[i]
    PROVE  r.device < dev /\ ReportTrue(r)'
<1>1. /\ pc = "read" /\ Len(reported) = dev - 1 /\ InOrder /\ dev \in 1 .. N
      /\ reported \in Seq([device : 1 .. N, ok : BOOLEAN])
  BY DEF ReadDone, IInv, TypeOK, TurnInv
<1>2. r.device < dev /\ r.device # dev
  <2>1. i \in 1 .. dev - 1 /\ reported[i].device = i
    BY <1>1 DEF InOrder
  <2> QED BY <1>1, <2>1
<1>3. Own(r.device)' = Own(r.device) /\ BlocksRead(r.device)' = BlocksRead(r.device)
  BY <1>2, ReadJoins
<1>4. \A j \in Own(r.device) : reads'[j] = reads[j]
  BY ReadJoins DEF Own
<1>5. ReportTrue(r)
  BY DEF ReadsInv
<1>6. ReportTrue(r)'
  <2>1. CASE r.ok
    BY <1>3, <1>5, <2>1 DEF ReportTrue
  <2>2. CASE ~r.ok
    BY <1>3, <1>4, <1>5, <2>2 DEF ReportTrue
  <2> QED BY <2>1, <2>2
<1> QED BY <1>2, <1>6


\* A device is reported when its last block was read or one of them failed, so its report
\* tells its reads.
LEMMA ReportTells ==
    ASSUME IInv, ReadsInv, NEW o \in {"words"} \cup DeviceErrors, ReadDone(o),
           NEW ok \in BOOLEAN, ReportDevice(ok),
           IF ok THEN o = "words" /\ ~(blk < Blocks[dev]) ELSE o \in DeviceErrors
    PROVE  ReadsInv'
<1> DEFINE n == Len(reads) + 1
           new == [device |-> dev, ok |-> ok]
<1>1. /\ pc = "read" /\ dev \in 1 .. N /\ blk \in 1 .. Blocks[dev] /\ Blocks[dev] \in Nat \ {0}
      /\ reported \in Seq([device : 1 .. N, ok : BOOLEAN])
  BY PollerAssumption DEF ReadDone, IInv, TypeOK, TurnInv
<1>2. /\ DOMAIN reads' = 1 .. n /\ Len(reads) \in Nat /\ reads'[n].outcome = o
      /\ Own(dev) \subseteq DOMAIN reads /\ DOMAIN reads = 1 .. Len(reads)
  BY ReadJoins DEF Own, ReadsInv
<1>3. ASSUME NEW r, r = new PROVE ReportTrue(r)'
  <2>1. r.device = dev /\ r.ok = ok
    BY <1>3
  <2>2. /\ Own(r.device)' = Own(dev) \cup {n}
        /\ BlocksRead(r.device)' = BlocksRead(dev) \cup (IF o = "words" THEN {blk} ELSE {})
    BY <2>1, ReadJoins
  <2>3. CASE ok
    <3>1. blk = Blocks[dev] /\ o = "words" /\ BlocksRead(dev) = 1 .. blk - 1
      BY <1>1, <2>3 DEF ReadsInv
    <3>2. BlocksRead(r.device)' = 1 .. Blocks[r.device]
      BY <1>1, <2>1, <2>2, <3>1
    <3> QED BY <2>1, <2>3, <3>2 DEF ReportTrue
  <2>4. CASE ~ok
    <3>1. n \in Own(r.device)' /\ reads'[n].outcome \in DeviceErrors
      BY <1>2, <2>2, <2>4
    <3>2. \A k \in Own(r.device)' : k <= n
      BY <1>2, <2>2
    <3> QED BY <2>1, <2>4, <3>1, <3>2 DEF ReportTrue
  <2> QED BY <2>3, <2>4
<1>4. ASSUME NEW i \in DOMAIN reported', NEW r, r = reported'[i] PROVE ReportTrue(r)'
  <2>1. /\ reported' = Append(reported, new) /\ new \in [device : 1 .. N, ok : BOOLEAN]
    BY <1>1 DEF ReportDevice
  <2>2. CASE i \in DOMAIN reported
    <3>1. r = reported[i]
      BY <1>1, <1>4, <2>1, <2>2
    <3> QED BY <2>2, <3>1, ReportsStay
  <2>3. CASE i \notin DOMAIN reported
    <3>1. r = new
      BY <1>1, <1>4, <2>1, <2>3
    <3> QED BY <1>3, <3>1
  <2> QED BY <2>2, <2>3
<1>5. \A i \in DOMAIN reported' : ReportTrue(reported[i])'
  <2> SUFFICES ASSUME NEW i \in DOMAIN reported' PROVE ReportTrue(reported[i])'
    OBVIOUS
  <2>1. ASSUME NEW r, r = reported'[i] PROVE ReportTrue(r)'
    BY <1>4, <2>1
  <2> QED BY <2>1 DEF ReportTrue, Own, BlocksRead
<1>6. ASSUME pc' = "read"
      PROVE  /\ \A j \in DOMAIN reads' : reads'[j].device <= dev'
             /\ \A j \in DOMAIN reads' : reads'[j].device # dev'
             /\ blk' = 1
  <2>1. dev' = dev + 1 /\ blk' = 1
    BY <1>6 DEF ReportDevice
  <2>2. \A j \in DOMAIN reads' : reads'[j].device <= dev
    BY ReadJoins
  <2>3. ASSUME NEW j \in DOMAIN reads' PROVE reads'[j].device \in 1 .. N
    <3>1. reads' \in Seq(ReadType)
      BY ReadJoins
    <3>2. reads'[j] \in ReadType
      BY <3>1, <2>3
    <3> QED BY <3>2 DEF ReadType
  <2> QED BY <1>1, <2>1, <2>2, <2>3
<1>7. pc' = "read" => /\ \A j \in DOMAIN reads' : reads'[j].device <= dev'
                      /\ (\A j \in Own(dev) : reads[j].outcome = "words")'
                      /\ (BlocksRead(dev) = 1 .. blk - 1)'
  BY <1>6 DEF Own, BlocksRead
<1>8. pc' # "connect"
  BY DEF ReportDevice
<1>9. /\ reads' \in Seq(ReadType)
      /\ \A j, k \in DOMAIN reads' :
            j < k /\ reads'[j].device = reads'[k].device => reads'[j].outcome = "words"
  BY ReadJoins
<1> QED BY <1>5, <1>7, <1>8, <1>9 DEF ReadsInv


\* Every step keeps what the reads of the tick tell.
LEMMA ReadsStep == IInv /\ ReadsInv /\ [Next]_vars => ReadsInv'
<1> SUFFICES ASSUME IInv, ReadsInv, [Next]_vars PROVE ReadsInv'
  OBVIOUS
<1>0. reported \in Seq([device : 1 .. N, ok : BOOLEAN]) /\ reads \in Seq(ReadType)
  BY DEF IInv, TurnInv, ReadsInv
<1>1. ASSUME reads' = <<>>, reported' = <<>>, pc' = "read" => blk' = 1
      PROVE  ReadsInv'
  <2>1. DOMAIN reads' = {} /\ DOMAIN reported' = {}
    BY <1>1
  <2>2. Own(dev)' = {} /\ BlocksRead(dev)' = {}
    BY <2>1 DEF Own, BlocksRead
  <2>3. reads' \in Seq(ReadType)
    BY <1>1
  <2> QED BY <1>1, <2>1, <2>2, <2>3 DEF ReadsInv
<1>2. ASSUME UNCHANGED <<reads, reported>>,
             pc' = "read" => pc = "read" /\ UNCHANGED <<dev, blk>>,
             pc' = "connect" => pc = "connect"
      PROVE  ReadsInv'
  BY <1>2 DEF ReadsInv, ReportTrue, Own, BlocksRead
<1>3. CASE Tick \/ Reconnect \/ Respawn
  BY <1>1, <1>3 DEF Tick, Reconnect, Respawn
<1>4. CASE \/ Connected \/ ConnectFailed \/ Abort \/ CloseReadings \/ Ended \/ UNCHANGED vars
  BY <1>2, <1>4 DEF Connected, ConnectFailed, Abort, CloseReadings, Ended, vars
<1>5. ASSUME NEW o \in {"words", "fatal", "short"}, ReadDone(o), UNCHANGED reported,
             pc' \notin {"read", "connect"}
      PROVE  ReadsInv'
  <2>1. \A i \in DOMAIN reported' : ReportTrue(reported[i])'
    <3>1. ASSUME NEW i \in DOMAIN reported, NEW r, r = reported[i] PROVE ReportTrue(r)'
      BY <1>5, <3>1, ReportsStay
    <3> QED BY <1>5, <3>1 DEF ReportTrue, Own, BlocksRead
  <2>2. /\ reads' \in Seq(ReadType)
        /\ \A j, k \in DOMAIN reads' :
              j < k /\ reads'[j].device = reads'[k].device => reads'[j].outcome = "words"
    BY <1>5, ReadJoins
  <2> QED BY <1>5, <2>1, <2>2 DEF ReadsInv
<1>6. CASE ReadClosed \/ ReadFatal \/ ReadPanics
  BY <1>5, <1>6 DEF ReadClosed, ReadFatal, ReadPanics
<1>7. ASSUME NEW o \in DeviceErrors, ReadError(o) PROVE ReadsInv'
  BY <1>7, ReportTells DEF ReadError
<1>8. CASE ReadWords /\ ~(blk < Blocks[dev])
  BY <1>8, ReportTells DEF ReadWords
<1>9. CASE ReadWords /\ blk < Blocks[dev]
  <2>1. /\ ReadDone("words") /\ blk' = blk + 1 /\ UNCHANGED <<pc, dev, event, reported>>
        /\ pc = "read" /\ blk \in Nat \ {0}
    BY <1>9, PollerAssumption DEF ReadWords, ReadDone, IInv, TypeOK
  <2>2. \A i \in DOMAIN reported' : ReportTrue(reported[i])'
    <3>1. ASSUME NEW i \in DOMAIN reported, NEW r, r = reported[i] PROVE ReportTrue(r)'
      BY <2>1, <3>1, ReportsStay
    <3> QED BY <2>1, <3>1 DEF ReportTrue, Own, BlocksRead
  <2>3. /\ reads' \in Seq(ReadType)
        /\ \A j, k \in DOMAIN reads' :
              j < k /\ reads'[j].device = reads'[k].device => reads'[j].outcome = "words"
        /\ \A j \in DOMAIN reads' : reads'[j].device <= dev
        /\ \A j \in DOMAIN reads : reads'[j] = reads[j]
        /\ reads'[Len(reads) + 1].outcome = "words"
    BY <2>1, ReadJoins
  <2>4. \A d : d = dev => /\ Own(d)' = Own(d) \cup {Len(reads) + 1}
                          /\ BlocksRead(d)' = BlocksRead(d) \cup {blk}
    BY <2>1, ReadJoins
  <2>5. /\ Own(dev)' = Own(dev) \cup {Len(reads) + 1}
        /\ BlocksRead(dev)' = BlocksRead(dev) \cup {blk}
    BY <2>1, <2>4 DEF Own, BlocksRead
  <2>6. \A j \in Own(dev)' : reads'[j].outcome = "words"
    BY <2>1, <2>3, <2>5 DEF ReadsInv, Own
  <2>7. BlocksRead(dev)' = 1 .. blk' - 1
    BY <2>1, <2>5 DEF ReadsInv
  <2> QED BY <2>1, <2>2, <2>3, <2>6, <2>7 DEF ReadsInv
<1> QED
  BY <1>3, <1>4, <1>6, <1>7, <1>8, <1>9 DEF Next

\* A device is reported as ok exactly when all of its blocks were read in this tick, and one
\* that failed is not asked again in the tick, whatever the other devices do
\* (run_connection's loop over the devices and their blocks).
THEOREM ReportsTrue == Spec => []ReportsMatchReads
<1>1. Init => ReadsInv
  BY DEF Init, ReadsInv
<1>2. IInv /\ ReadsInv => ReportsMatchReads
  BY DEF ReadsInv, ReportsMatchReads, ReportTrue, Own, BlocksRead
<1>3. Spec => []ReadsInv
  BY <1>1, ReadsStep, InvAlways, PTL DEF Spec
<1> QED BY <1>2, <1>3, InvAlways, PTL


-----------------------------------------------------------------------------
\* Both backoffs lie between the configured delays, if these are in order.
DelayInv == MinDelay <= MaxDelay =>
    backoff \in MinDelay .. MaxDelay /\ respawn \in MinDelay .. MaxDelay

\* Every step keeps both backoffs between the configured delays.
LEMMA DelayStep == IInv /\ DelayInv /\ [Next]_vars => DelayInv'
<1> SUFFICES ASSUME IInv, DelayInv, [Next]_vars, MinDelay <= MaxDelay
             PROVE  backoff' \in MinDelay .. MaxDelay /\ respawn' \in MinDelay .. MaxDelay
  BY DEF DelayInv
<1> USE PollerAssumption
<1>1. backoff \in MinDelay .. MaxDelay /\ respawn \in MinDelay .. MaxDelay
  BY DEF DelayInv
<1>2. /\ backoff' \in {backoff, AfterWait(backoff), MinDelay}
      /\ respawn' \in {respawn, AfterWait(respawn)}
  BY DEF Next, vars, Connected, ConnectFailed, Reconnect, Tick, ReadWords, ReadClosed, ReadFatal,
         ReadPanics, ReadError, Respawn, Abort, CloseReadings, Ended
<1>3. ASSUME NEW d \in MinDelay .. MaxDelay PROVE AfterWait(d) \in MinDelay .. MaxDelay
  BY DEF AfterWait, Least
<1> QED BY <1>1, <1>2, <1>3

\* A maximum that is no smaller than the minimum caps every retry delay (Backoff::wait); that
\* the hypothesis is needed is what the run of a smaller maximum shows.
THEOREM RetriesCapped == Spec => [](MinDelay <= MaxDelay => RetryWithinMax)
<1>1. Init => DelayInv
  BY PollerAssumption DEF Init, DelayInv
<1>2. IInv /\ DelayInv => (MinDelay <= MaxDelay => RetryWithinMax)
  BY PollerAssumption DEF DelayInv, RetryWithinMax
<1>3. Spec => []DelayInv
  BY <1>1, DelayStep, InvAlways, PTL DEF Spec
<1> QED BY <1>2, <1>3, InvAlways, PTL


-----------------------------------------------------------------------------
\* A set of natural numbers that is not empty has a least element.
LEMMA LeastElement ==
  ASSUME NEW T, T \subseteq Nat, T # {}
  PROVE  \E x \in T : \A y \in T : x <= y
<1>1. IsWellFoundedOn(OpToRel(<, Nat), Nat)
  BY NatLessThanWellFounded
<1>2. PICK x \in T : \A y \in T : <<y, x>> \notin OpToRel(<, Nat)
  BY <1>1, WFMin
<1>3. ASSUME NEW y \in T PROVE x <= y
  <2>1. x \in Nat /\ y \in Nat
    OBVIOUS
  <2>2. ~(y < x)
    BY <1>2, <2>1 DEF OpToRel
  <2> QED BY <2>1, <2>2
<1> QED BY <1>3

\* The powers up to the m-th exist: the least m for which they do not would be one beyond the
\* last for which they do.
LEMMA PowersExist ==
  ASSUME NEW m \in Nat
  PROVE  \E p \in [0 .. m -> Nat] : p = [n \in 0 .. m |-> IF n = 0 THEN 1 ELSE 2 * p[n - 1]]
<1> DEFINE Good(i, p) == p = [n \in 0 .. i |-> IF n = 0 THEN 1 ELSE 2 * p[n - 1]]
           Bad == {i \in Nat : ~ \E p \in [0 .. i -> Nat] : Good(i, p)}
<1> SUFFICES ASSUME Bad # {} PROVE FALSE
  OBVIOUS
<1>1. PICK i \in Bad : \A j \in Bad : i <= j
  <2>1. Bad \subseteq Nat
    OBVIOUS
  <2> HIDE DEF Bad
  <2> QED BY <2>1, LeastElement
<1>2. i # 0
  <2> DEFINE one == [n \in 0 .. 0 |-> 1]
  <2>1. one \in [0 .. 0 -> Nat]
    OBVIOUS
  <2>2. [n \in 0 .. 0 |-> IF n = 0 THEN 1 ELSE 2 * one[n - 1]] = one
    <3>1. \A n \in 0 .. 0 : (IF n = 0 THEN 1 ELSE 2 * one[n - 1]) = one[n]
      OBVIOUS
    <3> QED BY <3>1
  <2>3. \E p \in [0 .. 0 -> Nat] : Good(0, p)
    BY <2>1, <2>2
  <2>4. 0 \notin Bad
    BY <2>3
  <2> QED BY <1>1, <2>4
<1>3. PICK p \in [0 .. i - 1 -> Nat] : Good(i - 1, p)
  <2>1. i - 1 \in Nat /\ i - 1 \notin Bad
    <3>1. i \in Nat
      BY <1>1
    <3> HIDE DEF Bad
    <3> QED BY <1>1, <1>2, <3>1
  <2> HIDE DEF Good
  <2> QED BY <2>1
<1> DEFINE q == [n \in 0 .. i |-> IF n = i THEN 2 * p[i - 1] ELSE p[n]]
<1>4. q \in [0 .. i -> Nat]
  BY <1>2
<1>5. \A n \in 0 .. i : q[n] = IF n = 0 THEN 1 ELSE 2 * q[n - 1]
  BY <1>2, <1>3
<1>6. Good(i, q)
  BY <1>4, <1>5
<1> QED BY <1>4, <1>6

\* Power is the function its definition describes.
LEMMA PowerFacts ==
  /\ Power \in [0 .. MaxCount -> Nat]
  /\ MaxCount \in Nat => Power[0] = 1
  /\ \A n \in 0 .. MaxCount : n > 0 => Power[n] = 2 * Power[n - 1]
<1> DEFINE Good(p) == p = [n \in 0 .. MaxCount |-> IF n = 0 THEN 1 ELSE 2 * p[n - 1]]
<1>1. PICK p \in [0 .. MaxCount -> Nat] : Good(p)
  BY PowersExist, PollerAssumption
<1>2. Good(Power)
  <2>1. Power = CHOOSE f : Good(f)
    BY DEF Power
  <2> HIDE DEF Good
  <2> QED BY <1>1, <2>1
<1>3. \A n \in 0 .. MaxCount : Power[n] = IF n = 0 THEN 1 ELSE 2 * Power[n - 1]
  BY <1>2
<1> HIDE DEF Good
<1> DEFINE Bad == {n \in 0 .. MaxCount : Power[n] \notin Nat}
<1>4. Bad = {}
  <2> SUFFICES ASSUME Bad # {} PROVE FALSE
    OBVIOUS
  <2>1. Bad \subseteq Nat
    BY PollerAssumption
  <2> HIDE DEF Bad
  <2>2. PICK n \in Bad : \A k \in Bad : n <= k
    BY <2>1, LeastElement
  <2> USE DEF Bad
  <2>3. n \in 0 .. MaxCount /\ Power[n] \notin Nat
    BY <2>2
  <2>4. n # 0
    BY <1>3, <2>3
  <2>5. n - 1 \in 0 .. MaxCount /\ n - 1 \notin Bad
    BY <2>2, <2>3, <2>4, PollerAssumption
  <2>6. Power[n] = 2 * Power[n - 1]
    BY <1>3, <2>3, <2>4
  <2> QED BY <2>3, <2>5, <2>6
<1>5. Power \in [0 .. MaxCount -> Nat]
  <2> DEFINE g == [n \in 0 .. MaxCount |-> IF n = 0 THEN 1 ELSE 2 * Power[n - 1]]
  <2>1. Power = g
    BY <1>2 DEF Good
  <2>2. \A n \in 0 .. MaxCount : g[n] \in Nat
    BY <1>4, <2>1
  <2> QED BY <2>1, <2>2
<1> QED BY <1>3, <1>5, PollerAssumption

\* A doubled delay, capped as Backoff::wait caps it, is the next one in the row; the count
\* stops only where the delay has.
LEMMA NextDelay ==
  ASSUME NEW n \in 0 .. MaxCount, MinDelay <= MaxDelay
  PROVE  AfterWait(Delay(n)) = Delay(CountUp(n))
<1> USE PollerAssumption
<1>1. n \in Nat /\ MaxCount \in Nat /\ MinDelay \in Nat /\ MaxDelay \in Nat
  OBVIOUS
<1>2. Power[n] \in Nat /\ Power[MaxCount] \in Nat
  BY <1>1, PowerFacts
<1> DEFINE a == MinDelay * Power[n]
<1>3. a \in Nat
  BY <1>1, <1>2
<1>4. CASE n < MaxCount
  <2>1. CountUp(n) = n + 1 /\ Power[n + 1] = 2 * Power[n]
    BY <1>1, <1>4, PowerFacts DEF CountUp, Least
  <2>2. MinDelay * (2 * Power[n]) = 2 * a
    BY <1>1, <1>2
  <2>3. Delay(CountUp(n)) = Least(2 * a, MaxDelay) /\ Delay(n) = Least(a, MaxDelay)
    BY <2>1, <2>2 DEF Delay
  <2> HIDE DEF a
  <2> QED BY <1>1, <1>3, <2>3 DEF AfterWait, Least
<1>5. CASE n = MaxCount
  <2>1. CountUp(n) = n
    BY <1>1, <1>5 DEF CountUp, Least
  <2>2. CASE MinDelay > 0
    <3>1. Delay(n) = MaxDelay
      BY <1>5, <2>2, CountAssumption
    <3> QED BY <1>1, <2>1, <3>1 DEF AfterWait, Least
  <2>3. CASE MinDelay = 0
    <3>1. Delay(n) = 0
      BY <1>1, <1>2, <2>3 DEF Delay, Least
    <3> QED BY <1>1, <2>1, <3>1 DEF AfterWait, Least
  <2> QED BY <1>1, <2>2, <2>3
<1> QED BY <1>1, <1>4, <1>5

\* Every step either leaves a count and its delay alone, counts a wait and doubles its delay,
\* or starts the series again.
LEMMA GrowthStep == IInv /\ DelaysGrow /\ [Next]_vars => DelaysGrow'
<1> SUFFICES ASSUME IInv, DelaysGrow, [Next]_vars, MinDelay <= MaxDelay
             PROVE  backoff' = Delay(fails') /\ respawn' = Delay(panics')
  BY DEF DelaysGrow
<1>1. backoff = Delay(fails) /\ respawn = Delay(panics)
  BY DEF DelaysGrow
<1>2. fails \in 0 .. MaxCount /\ panics \in 0 .. MaxCount
  BY DEF IInv, TypeOK
<1>3. MinDelay = Delay(0)
  BY PollerAssumption, PowerFacts DEF Delay, Least
<1>4. /\ \/ backoff' = backoff /\ fails' = fails
         \/ backoff' = AfterWait(backoff) /\ fails' = CountUp(fails)
         \/ backoff' = MinDelay /\ fails' = 0
      /\ \/ respawn' = respawn /\ panics' = panics
         \/ respawn' = AfterWait(respawn) /\ panics' = CountUp(panics)
  BY DEF Next, vars, Connected, ConnectFailed, Reconnect, Tick, ReadWords, ReadClosed, ReadFatal,
         ReadPanics, ReadError, Respawn, Abort, CloseReadings, Ended
<1>5. backoff' = Delay(fails')
  BY <1>1, <1>2, <1>3, <1>4, NextDelay
<1>6. respawn' = Delay(panics')
  BY <1>1, <1>2, <1>4, NextDelay
<1> QED BY <1>5, <1>6

\* Whatever mix of failures there is, both delays grow with the waits since the last success
\* as powers of two, up to the maximum (Backoff of poller.rs, the supervisor's respawns).
THEOREM Growth == Spec => []DelaysGrow
<1>1. Init => DelaysGrow
  BY PollerAssumption, PowerFacts DEF Init, DelaysGrow, Delay, Least
<1> QED BY <1>1, GrowthStep, InvAlways, PTL DEF Spec
=============================================================================

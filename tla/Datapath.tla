------------------------------ MODULE Datapath ------------------------------
(***************************************************************************)
(* The values on their way through the gateway, from the registers of a    *)
(* device to the SenML pack: the configuration that passed validation      *)
(* (Config), the connections opened and the blocks read from it (connect   *)
(* and read_block of src/src/modbus/poller.rs), the decoding (Registers),  *)
(* the accumulators of src/src/aggregator.rs and the encoding (Senml).     *)
(*                                                                         *)
(* Aggregator, Poller and Publisher model when these steps happen and      *)
(* what is lost between them; here nothing is lost, and what is modelled   *)
(* is what the steps do to the values.                                     *)
(***************************************************************************)
EXTENDS Config, Registers, Senml, SequencesExt

CONSTANTS
    Samples,                \* for each data type some values a device may hold
    Filler,                 \* what the registers between the points hold
    MaxReads, MaxFlushes    \* bounds of the model

ASSUME RegisterAssumption ==
    /\ Radix \in Nat \ {0, 1} /\ Filler \in 0 .. Radix - 1
    /\ Float32 \in [0 .. Radix * Radix - 1 -> Value]

ASSUME DatapathBounds == MaxReads \in Nat /\ MaxFlushes \in Nat

VARIABLES
    running,    \* run has started its tasks
    connected,  \* the connections that are open
    agg,        \* the accumulator of each point id
    window,     \* the number of the open window
    reads,      \* the blocks read so far
    faults,     \* history: what an accepted configuration must never lead to
    log,        \* history: what the devices held when they were read in this window
    last,       \* history: the same of the window before
    flushed     \* history: the packs of the window before

dataVars == <<running, connected, agg, window, reads, faults, log, last, flushed>>
vars == <<configVars, dataVars>>

-----------------------------------------------------------------------------
(* Devices, as their manuals describe them. *)

\* The numbers of a signed integer with m values.
SignedRange(m) == {n \in -m .. m : -m <= 2 * n /\ 2 * n < m}

\* What the registers of a point can hold.
Holdable(type) ==
    CASE type = "u16" -> {Num(n) : n \in 0 .. Radix - 1}
      [] type = "i16" -> {Num(n) : n \in SignedRange(Radix)}
      [] type = "u32" -> {Num(n) : n \in 0 .. Radix * Radix - 1}
      [] type = "i32" -> {Num(n) : n \in SignedRange(Radix * Radix)}
      [] type = "f32" -> {Float32[n] : n \in 0 .. Radix * Radix - 1}

ASSUME SamplesAssumption == \A t \in DataType : Samples[t] \subseteq Holdable(t)

\* The registers that hold v, the one with the high bits first.
HighFirst(type, v) ==
    LET wide == IF type = "f32" THEN CHOOSE n \in DOMAIN Float32 : Float32[n] = v
                                ELSE v[2] % (Radix * Radix)
    IN IF WordCount(type) = 1 THEN <<v[2] % Radix>> ELSE <<wide \div Radix, wide % Radix>>

Layout(type, v, order) ==
    IF order = "big_endian" THEN HighFirst(type, v) ELSE Reverse(HighFirst(type, v))

Occupants(block, r) == {k \in DOMAIN block.points : r \in Registers(block.points[k])}

\* The reply to the read of a block whose points hold the values held.
Reply(block, held) ==
    [i \in 1 .. block.count |->
        IF Occupants(block, i - 1) = {} THEN Filler
        ELSE LET k == CHOOSE x \in Occupants(block, i - 1) : TRUE
                 p == block.points[k]
             IN Layout(p.type, held[k], block.wordOrder)[i - p.offset]]

-----------------------------------------------------------------------------
Id(dev, p) == <<dev.id, p.name>>

\* The places of the points in the file: connection, device, block and point.
Places(c) ==
    UNION {UNION {UNION {
        {<<i, d, b, k>> : k \in DOMAIN c.connections[i].devices[d].blocks[b].points} :
            b \in DOMAIN c.connections[i].devices[d].blocks} :
            d \in DOMAIN c.connections[i].devices} :
            i \in DOMAIN c.connections}

PointAt(c, x) == c.connections[x[1]].devices[x[2]].blocks[x[3]].points[x[4]]

IdAt(c, x) == Id(c.connections[x[1]].devices[x[2]], PointAt(c, x))

PointIds(c) == {IdAt(c, x) : x \in Places(c)}

\* The order of the file.
Precedes(x, y) == \E n \in 1 .. 4 : x[n] < y[n] /\ \A m \in 1 .. n - 1 : x[m] = y[m]

\* The last point with an id gives its unit: insert replaces.
UnitOf(c, id) ==
    LET same == {x \in Places(c) : IdAt(c, x) = id}
    IN PointAt(c, CHOOSE x \in same : \A y \in same : ~Precedes(x, y)).unit

InitFromConfig(c) ==
    [id \in PointIds(c) |->
        [sum |-> Num(0), count |-> 0, unit |-> UnitOf(c, id)]]

Record(a, id, v) == [a EXCEPT ![id].sum = Plus(@, v), ![id].count = @ + 1]

\* The readings of a block, recorded in the order of its points.
RecordAll(a, dev, block, words) ==
    LET readings == Decode(block, words)
        after[k \in 0 .. Len(readings)] ==
            IF k = 0 THEN a
            ELSE Record(after[k - 1], <<dev.id, readings[k].name>>, readings[k].value)
    IN after[Len(readings)]

Mean(pa) == IF IsNum(pa.sum) THEN <<"num", pa.sum[2], pa.count>> ELSE pa.sum

\* Mutated: points without a sample are kept.
AllPoints(a) == DOMAIN a

Surviving(a) == {id \in DOMAIN a : a[id].count > 0}

SurvivingOf(a, d) == {id \in Surviving(a) : id[1] = d}

\* The batch of device d when the HashMap is iterated in the given order.
BatchOf(a, order, d) ==
    [device |-> d, windowStart |-> window,
     points |-> [i \in DOMAIN order |->
        [name |-> order[i][2], unit |-> a[order[i]].unit, mean |-> Mean(a[order[i]])]]]

ResetAll(a) == [id \in DOMAIN a |-> [a[id] EXCEPT !.sum = Num(0), !.count = 0]]

-----------------------------------------------------------------------------
Init ==
    /\ ConfigInit
    /\ running = FALSE /\ connected = {} /\ agg = <<>> /\ window = 0
    /\ reads = 0 /\ faults = {} /\ log = <<>> /\ last = <<>>
    /\ flushed = {}

LoadConfig == Validate /\ UNCHANGED dataVars

\* main expects log_level to parse, run refuses an unknown QoS, next_boundary divides by
\* the window.
StartFaults(c) ==
    {f \in {"log level", "qos", "window"} :
        \/ f = "log level" /\ ~c.logLevelParses
        \/ f = "qos" /\ c.qos \notin {0, 1, 2}
        \/ f = "window" /\ c.window = 0}

\* main and run: the accumulators are set up from the configuration.
Start ==
    /\ at = "accepted" /\ ~running
    /\ faults' = faults \cup StartFaults(cfg)
    /\ running' = (StartFaults(cfg) = {})
    /\ agg' = InitFromConfig(cfg)
    /\ UNCHANGED <<configVars, connected, window, reads, log, last, flushed>>

\* serial_data_bits and serial_stop_bits convert the settings, and the port is opened
\* exclusively.
Opens(c) ==
    LET t == cfg.connections[c].transport IN
    IsRtu(cfg.connections[c]) =>
        /\ t.dataBits \in {5, 6, 7, 8} /\ t.stopBits \in {1, 2}
        /\ \A x \in connected :
            IsRtu(cfg.connections[x]) => cfg.connections[x].transport.port # t.port

\* The port does not open, or the ticker panics on a period of zero.
ConnectFaults(c) ==
    {f \in {"serial", "interval"} :
        \/ f = "serial" /\ ~Opens(c)
        \/ f = "interval" /\ cfg.connections[c].pollInterval = 0}

Connect(c) ==
    /\ running /\ c \in DOMAIN cfg.connections \ connected
    /\ faults' = faults \cup ConnectFaults(c)
    /\ connected' = IF ConnectFaults(c) = {} THEN connected \cup {c} ELSE connected
    /\ UNCHANGED <<configVars, running, agg, window, reads, log, last, flushed>>

\* decode indexes the reply at every register of a point, and panics past its end.
DecodePanics(block, words) ==
    \E k \in DOMAIN block.points : ~(Registers(block.points[k]) \subseteq 0 .. (Len(words) - 1))

\* What the points of a block mean by the configuration, when they hold the values held.
Meant(dev, block, held) ==
    [k \in DOMAIN block.points |->
        LET p == block.points[k] IN
        [id |-> Id(dev, p),
         value |-> IF p.absolute THEN Magnitude(Times(held[k], p.scale)) ELSE Times(held[k], p.scale)]]

\* The functions that pick a member of each set.
Picks(sets) ==
    {f \in [DOMAIN sets -> UNION {sets[x] : x \in DOMAIN sets}] :
        \A x \in DOMAIN sets : f[x] \in sets[x]}

\* A block is read, decoded and recorded.  A device refuses a request for too many registers,
\* and one for none, which validate lets through.
ReadBlock(c, d, b) ==
    LET dev == cfg.connections[c].devices[d]
        block == dev.blocks[b]
    IN
    /\ reads < MaxReads /\ reads' = reads + 1
    /\ \E held \in Picks([k \in DOMAIN block.points |-> Samples[block.points[k].type]]) :
        LET words == Reply(block, held) IN
        \/ /\ block.count > ReadLimit
           /\ faults' = faults \cup {"request"}
           /\ UNCHANGED <<agg, log>>
        \/ block.count = 0 /\ UNCHANGED <<agg, log, faults>>
        \/ /\ block.count \in 1 .. ReadLimit /\ DecodePanics(block, words)
           /\ faults' = faults \cup {"panic"}
           /\ UNCHANGED <<agg, log>>
        \/ /\ block.count \in 1 .. ReadLimit /\ ~DecodePanics(block, words)
           /\ agg' = RecordAll(agg, dev, block, words)
           /\ log' = log \o Meant(dev, block, held)
           /\ UNCHANGED faults
    /\ UNCHANGED <<configVars, running, connected, window, last, flushed>>

\* The window ends: a batch for each device with a sample, and every pack encoded.
Flush ==
    /\ running /\ window < MaxFlushes
    /\ LET devices == {id[1] : id \in Surviving(agg)} IN
       \E orders \in Picks([d \in devices |-> SetToSeqs(SurvivingOf(agg, d))]) :
       \E packs \in Picks([d \in devices |-> EncodeSenml(BatchOf(agg, orders[d], d))]) :
            flushed' = {[device |-> d, pack |-> packs[d]] : d \in devices}
    /\ agg' = ResetAll(agg)
    /\ window' = window + 1
    /\ last' = log /\ log' = <<>>
    /\ UNCHANGED <<configVars, running, connected, reads, faults>>

Next ==
    \/ LoadConfig \/ Start
    \/ \E c \in DOMAIN cfg.connections :
        \/ Connect(c)
        \/ /\ c \in connected
           /\ \E d \in DOMAIN cfg.connections[c].devices :
                \E b \in DOMAIN cfg.connections[c].devices[d].blocks : ReadBlock(c, d, b)
    \/ Flush

Spec == Init /\ [][Next]_vars

-----------------------------------------------------------------------------
Readings == Seq([id : STRING \X STRING, value : Value])

TypeOK ==
    /\ ConfigTypeOK
    /\ running \in BOOLEAN
    /\ connected \subseteq DOMAIN cfg.connections
    /\ running => agg \in [PointIds(cfg) -> [sum : Value, count : Nat, unit : STRING]]
    /\ window \in 0 .. MaxFlushes /\ reads \in 0 .. MaxReads
    /\ faults \subseteq {"log level", "qos", "window", "serial", "interval", "request", "panic"}
    /\ log \in Readings /\ last \in Readings
    /\ \A f \in flushed : \A i \in DOMAIN f.pack :
        f.pack[i].v[1] = "num" => f.pack[i].v[2] \in Int /\ f.pack[i].v[3] \in Nat \ {0}

\* validate accepts a configuration only if it has no flaw, names a flaw it has otherwise,
\* and neither the start nor any connection, request or reply then meets what validation is
\* there to rule out: a log level or QoS that is none, a window or interval of zero, a serial
\* port that cannot be opened, a request too long, an index out of range.
AcceptedIsSound == VerdictIsRight /\ faults = {}

Of(readings, id) == {i \in DOMAIN readings : readings[i].id = id}

SumOf(readings, id) ==
    LET sum[i \in 0 .. Len(readings)] ==
            IF i = 0 THEN Num(0)
            ELSE IF i \in Of(readings, id) THEN Plus(sum[i - 1], readings[i].value)
            ELSE sum[i - 1]
    IN sum[Len(readings)]

MeanOf(readings, id) ==
    LET sum == SumOf(readings, id)
    IN JsonNumber(IF IsNum(sum) THEN <<"num", sum[2], Cardinality(Of(readings, id))>> ELSE sum)

\* The points of device d that were read in the window before.
IdsRead(d) == {id \in {last[i].id : i \in DOMAIN last} : id[1] = d}

\* What a receiver should learn of device d in that window.
Expected(d) ==
    {[base |-> {<<BaseNamePrefix, d>>}, name |-> id[2], time |-> {window - 1}, unit |-> agg[id].unit,
      value |-> MeanOf(last, id)] : id \in IdsRead(d)}

\* A base unit is that of more than half of the records.
BaseUnitIsMajority(pack) ==
    \A u \in UNION {pack[i].bu : i \in DOMAIN pack} :
        2 * Cardinality({i \in DOMAIN pack : pack[i].u = u}) > Len(pack)

\* From the registers to the receiver: a device that was read in a window gets exactly one
\* pack for it, which resolves to one record per point that was read, with the mean of what
\* the device held, scaled; NaN and infinity stay within their own point.
PackTellsMeans ==
    window > 0 =>
        \A d \in {id[1] : id \in DOMAIN agg} :
            LET packs == {f.pack : f \in {g \in flushed : g.device = d}}
            IN  IF IdsRead(d) = {} THEN packs = {}
                ELSE \E pack \in packs :
                        /\ packs = {pack}
                        /\ Resolve(pack) = Expected(d)
                        /\ Len(pack) = Cardinality(IdsRead(d))
                        /\ BaseUnitIsMajority(pack)
=============================================================================

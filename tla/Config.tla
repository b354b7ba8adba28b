------------------------------- MODULE Config -------------------------------
(***************************************************************************)
(* Loading the configuration (src/src/config/mod.rs) and validating it     *)
(* (validate.rs): a walk over connections, devices and blocks that stops   *)
(* at the first error.  The records are those of schema.rs with the fields *)
(* that the walk, the pollers and the encoder read.                        *)
(*                                                                         *)
(* A file's text is whether it can be read and parsed; log_level is        *)
(* whether it parses, and the CA file what reading it gives.               *)
(***************************************************************************)
EXTENDS Integers, Sequences, FiniteSets

CONSTANT Configs    \* the configurations a file may hold

VARIABLES
    cfg,     \* the parsed Config
    at,      \* "load", "gateway", "connection", "block", "ca", "accepted" or "rejected"
    ci,      \* the connection, the device and the block of the loops
    di,
    bi,
    ports,   \* the keys of serial_ports
    error    \* the error reported, "none" so far

configVars == <<cfg, at, ci, di, bi, ports, error>>

-----------------------------------------------------------------------------
ReadLimit == 125

U8 == {n \in Nat : n < 256}
U16 == {n \in Nat : n < 65536}

DataType == {"u16", "i16", "u32", "i32", "f32"}

WordCount(type) == IF type \in {"u16", "i16"} THEN 1 ELSE 2

Point == [name : STRING, offset : U16, type : DataType, scale : Int,
          absolute : BOOLEAN, unit : STRING]

Block == [count : U16, wordOrder : {"big_endian", "little_endian"}, points : Seq(Point)]

Device == [id : STRING, unitId : U8, blocks : Seq(Block)]

Transport ==
    [kind : {"tcp"}] \cup [kind : {"rtu"}, port : STRING, dataBits : U8, stopBits : U8]

Connection == [transport : Transport, pollInterval : Nat, devices : Seq(Device)]

Config ==
    [window : Nat, logLevelParses : BOOLEAN, qos : U8,
     ca : {"ok", "unreadable", "unparseable", "empty"}, connections : Seq(Connection)]

ASSUME ConfigsAssumption == Configs \subseteq Config

IsRtu(conn) == conn.transport.kind = "rtu"

\* The register after the point's last one; the sum is taken in 32 bits.
End(p) == p.offset + WordCount(p.type)

\* Mutated: the spans are compared in the order of the file.
FileNeighbours(points, i, j) == j = i + 1

\* i comes before j once the spans are sorted by offset; the sort is stable.
Before(points, i, j) ==
    \/ points[i].offset < points[j].offset
    \/ points[i].offset = points[j].offset /\ i < j

\* i and j are next to each other in the sorted spans: a pair of windows(2).
Neighbours(points, i, j) ==
    /\ Before(points, i, j)
    /\ ~ \E k \in DOMAIN points : Before(points, i, k) /\ Before(points, k, j)

-----------------------------------------------------------------------------
GatewayError(c) ==
    IF c.window = 0 THEN "ZeroInterval"
    ELSE IF ~c.logLevelParses THEN "InvalidLogLevel"
    ELSE IF c.qos > 2 THEN "InvalidQos"
    ELSE "none"

RepeatsUnitId(conn) ==
    \E i, j \in DOMAIN conn.devices : i < j /\ conn.devices[i].unitId = conn.devices[j].unitId

SerialError(t, used) ==
    IF t.dataBits \notin 5 .. 8 \/ t.stopBits \notin 1 .. 2 THEN "UnsupportedSerialSetting"
    ELSE IF t.port \in used THEN "DuplicateSerialPort"
    ELSE "none"

ConnectionError(conn, used) ==
    IF conn.pollInterval = 0 THEN "ZeroInterval"
    ELSE IF RepeatsUnitId(conn) THEN "DuplicateUnitId"
    ELSE IF IsRtu(conn) THEN SerialError(conn.transport, used)
    ELSE "none"

BlockError(b) ==
    IF b.count > ReadLimit THEN "BlockTooLarge"
    ELSE IF \E i \in DOMAIN b.points : End(b.points[i]) > b.count THEN "PointOutOfBounds"
    ELSE IF \E i, j \in DOMAIN b.points :
                /\ Neighbours(b.points, i, j)
                /\ b.points[j].offset < End(b.points[i]) THEN "OverlappingPoints"
    ELSE "none"

CaError(c) ==
    CASE c.ca = "unreadable"  -> "CaCertUnreadable"
      [] c.ca = "unparseable" -> "CaCertUnparseable"
      [] c.ca = "empty"       -> "CaCertEmpty"
      [] c.ca = "ok"          -> "none"

-----------------------------------------------------------------------------
ConfigInit ==
    /\ cfg \in Configs
    /\ at = "load" /\ ci = 1 /\ di = 1 /\ bi = 1
    /\ ports = {} /\ error = "none"

Reject(e) ==
    /\ at' = "rejected" /\ error' = e
    /\ UNCHANGED <<cfg, ci, di, bi, ports>>

\* load returns ConfigError::Read or ConfigError::Parse.
LoadFails == at = "load" /\ \E e \in {"Read", "Parse"} : Reject(e)

Load ==
    /\ at = "load"
    /\ at' = "gateway"
    /\ UNCHANGED <<cfg, ci, di, bi, ports, error>>

CheckGateway ==
    /\ at = "gateway"
    /\ \/ GatewayError(cfg) # "none" /\ Reject(GatewayError(cfg))
       \/ /\ GatewayError(cfg) = "none"
          /\ at' = "connection"
          /\ UNCHANGED <<cfg, ci, di, bi, ports, error>>

AddPort(conn, used) == IF IsRtu(conn) THEN used \cup {conn.transport.port} ELSE used

\* The head of the loop's body: interval, unit ids and serial settings.
CheckConnection ==
    /\ at = "connection" /\ ci \in DOMAIN cfg.connections
    /\ LET conn == cfg.connections[ci] IN
        \/ ConnectionError(conn, ports) # "none" /\ Reject(ConnectionError(conn, ports))
        \/ /\ ConnectionError(conn, ports) = "none"
           /\ ports' = AddPort(conn, ports)
           /\ at' = "block" /\ di' = 1 /\ bi' = 1
           /\ UNCHANGED <<cfg, ci, error>>

CheckBlock ==
    /\ at = "block" /\ di \in DOMAIN cfg.connections[ci].devices
    /\ bi \in DOMAIN cfg.connections[ci].devices[di].blocks
    /\ LET b == cfg.connections[ci].devices[di].blocks[bi] IN
        \/ BlockError(b) # "none" /\ Reject(BlockError(b))
        \/ /\ BlockError(b) = "none"
           /\ bi' = bi + 1
           /\ UNCHANGED <<cfg, at, ci, di, ports, error>>

NextDevice ==
    /\ at = "block" /\ di \in DOMAIN cfg.connections[ci].devices
    /\ bi > Len(cfg.connections[ci].devices[di].blocks)
    /\ di' = di + 1 /\ bi' = 1
    /\ UNCHANGED <<cfg, at, ci, ports, error>>

NextConnection ==
    /\ at = "block" /\ di > Len(cfg.connections[ci].devices)
    /\ ci' = ci + 1 /\ at' = "connection"
    /\ UNCHANGED <<cfg, di, bi, ports, error>>

\* The loop over the connections is over.
EndConnections ==
    /\ at = "connection" /\ ci > Len(cfg.connections)
    /\ at' = "ca"
    /\ UNCHANGED <<cfg, ci, di, bi, ports, error>>

CheckCa ==
    /\ at = "ca"
    /\ \/ CaError(cfg) # "none" /\ Reject(CaError(cfg))
       \/ /\ CaError(cfg) = "none"
          /\ at' = "accepted"
          /\ UNCHANGED <<cfg, ci, di, bi, ports, error>>

Validate ==
    \/ LoadFails \/ Load \/ CheckGateway
    \/ CheckConnection \/ CheckBlock \/ NextDevice \/ NextConnection \/ EndConnections
    \/ CheckCa

-----------------------------------------------------------------------------
(* What the verdict is measured by: the flaws of a configuration as a whole. *)

ConnectionsOf(c) == {c.connections[i] : i \in DOMAIN c.connections}
DevicesOf(conn) == {conn.devices[i] : i \in DOMAIN conn.devices}
BlocksOf(dev) == {dev.blocks[i] : i \in DOMAIN dev.blocks}
AllBlocks(c) == UNION {UNION {BlocksOf(dev) : dev \in DevicesOf(conn)} : conn \in ConnectionsOf(c)}

\* The registers of a block that a point occupies, the first one being 0.
Registers(p) == p.offset .. (p.offset + WordCount(p.type) - 1)

Contained(b) == \A i \in DOMAIN b.points : Registers(b.points[i]) \subseteq 0 .. (b.count - 1)

Disjoint(b) ==
    \A i, j \in DOMAIN b.points :
        i # j => Registers(b.points[i]) \cap Registers(b.points[j]) = {}

Flaw(c, e) ==
    CASE e = "ZeroInterval" -> c.window = 0 \/ \E conn \in ConnectionsOf(c) : conn.pollInterval = 0
      [] e = "InvalidLogLevel" -> ~c.logLevelParses
      [] e = "InvalidQos" -> c.qos \notin {0, 1, 2}
      [] e = "DuplicateUnitId" ->
            \E conn \in ConnectionsOf(c) : \E i, j \in DOMAIN conn.devices :
                i # j /\ conn.devices[i].unitId = conn.devices[j].unitId
      [] e = "UnsupportedSerialSetting" ->
            \E conn \in ConnectionsOf(c) :
                /\ IsRtu(conn)
                /\ \/ conn.transport.dataBits \notin {5, 6, 7, 8}
                   \/ conn.transport.stopBits \notin {1, 2}
      [] e = "DuplicateSerialPort" ->
            \E i, j \in DOMAIN c.connections :
                /\ i # j /\ IsRtu(c.connections[i]) /\ IsRtu(c.connections[j])
                /\ c.connections[i].transport.port = c.connections[j].transport.port
      [] e = "BlockTooLarge" -> \E b \in AllBlocks(c) : b.count > ReadLimit
      [] e = "PointOutOfBounds" -> \E b \in AllBlocks(c) : ~Contained(b)
      [] e = "OverlappingPoints" -> \E b \in AllBlocks(c) : ~Disjoint(b)
      [] e \in {"CaCertUnreadable", "CaCertUnparseable", "CaCertEmpty"} -> c.ca # "ok"

ValidationErrors ==
    {"ZeroInterval", "InvalidLogLevel", "InvalidQos", "DuplicateUnitId",
     "UnsupportedSerialSetting", "DuplicateSerialPort", "BlockTooLarge",
     "PointOutOfBounds", "OverlappingPoints", "CaCertUnreadable", "CaCertUnparseable",
     "CaCertEmpty"}

ConfigTypeOK ==
    /\ cfg \in Config
    /\ at \in {"load", "gateway", "connection", "block", "ca", "accepted", "rejected"}
    /\ ci \in 1 .. Len(cfg.connections) + 1
    /\ di \in Nat \ {0} /\ bi \in Nat \ {0}
    /\ at = "block" =>
        /\ ci \in DOMAIN cfg.connections
        /\ di <= Len(cfg.connections[ci].devices) + 1
    /\ ports \subseteq STRING
    /\ error \in ValidationErrors \cup {"none", "Read", "Parse"}

\* The verdict of validate is right: what it accepts has no flaw of any kind, and the
\* error it returns is a flaw the configuration has.
VerdictIsRight ==
    /\ at = "accepted" => \A e \in ValidationErrors : ~Flaw(cfg, e)
    /\ at = "rejected" => error \in {"Read", "Parse"} \/ Flaw(cfg, error)
=============================================================================

--------------------------- MODULE DatapathProofs ---------------------------
(***************************************************************************)
(* Proofs about Config, Registers, Senml and Datapath.  For any set of     *)
(* configurations the walk of validate reaches the right verdict: the      *)
(* comparison of neighbours in the sorted spans stands for that of all     *)
(* pairs.  What it accepts, the pollers can open and read, the decoder     *)
(* does not index past a reply, and its readings are what the device       *)
(* holds.  A pack is resolved to its batch, and its base unit does not     *)
(* depend on the order in which the HashMap of majority_unit is iterated.  *)
(* Over a window the accumulators are the sums and counts of what was      *)
(* read, so that a receiver learns the mean of what each device held.      *)
(***************************************************************************)
EXTENDS Datapath, FiniteSetTheorems, WellFoundedInduction, TLAPS

ConfigSpec == ConfigInit /\ [][Validate]_configVars

\* A set of offsets or of indices has a least element.
LEMMA LeastElement ==
  ASSUME NEW T, T \subseteq Nat, T # {}
  PROVE  \E x \in T : \A y \in T : x <= y
<1>1. IsWellFoundedOn(OpToRel(<, Nat), Nat)
  BY NatLessThanWellFounded
<1>2. PICK x \in T : \A y \in T : <<y, x>> \notin OpToRel(<, Nat)
  BY <1>1, WFMin
<1>3. ASSUME NEW y \in T PROVE x <= y
  <2>1. x \in Nat /\ y \in Nat
    OBVIOUS
  <2>2. ~(y < x)
    BY <1>2, <2>1 DEF OpToRel
  <2> QED BY <2>1, <2>2
<1> QED BY <1>3

\* The points of a block, one by one.
LEMMA PointFacts ==
  ASSUME NEW points \in Seq(Point), NEW k \in DOMAIN points
  PROVE  /\ k \in Nat \ {0} /\ points[k] \in Point
         /\ points[k].offset \in Nat /\ WordCount(points[k].type) \in {1, 2}
         /\ End(points[k]) = points[k].offset + WordCount(points[k].type)
         /\ End(points[k]) \in Nat
<1>1. k \in 1 .. Len(points) /\ Len(points) \in Nat /\ points[k] \in Point
  OBVIOUS
<1>2. points[k].offset \in U16
  BY <1>1 DEF Point
<1>3. WordCount(points[k].type) \in {1, 2}
  BY DEF WordCount
<1>4. points[k].offset \in Nat
  BY <1>2 DEF U16
<1>5. End(points[k]) = points[k].offset + WordCount(points[k].type)
  BY DEF End
<1> QED BY <1>1, <1>3, <1>4, <1>5

\* If no two neighbours of the sorted spans overlap, no two points do.
LEMMA NeighboursSuffice ==
  ASSUME NEW points \in Seq(Point),
         \A i, j \in DOMAIN points :
            Neighbours(points, i, j) => End(points[i]) <= points[j].offset,
         NEW i \in DOMAIN points, NEW j \in DOMAIN points, Before(points, i, j)
  PROVE  End(points[i]) <= points[j].offset
<1> DEFINE After == {k \in DOMAIN points : Before(points, i, k)}
           Offsets == {points[k].offset : k \in After}
<1>1. \A k \in DOMAIN points : k \in Nat /\ points[k].offset \in Nat /\ End(points[k]) \in Nat
  BY PointFacts
<1>2. PICK m \in Offsets : \A o \in Offsets : m <= o
  <2>1. Offsets \subseteq Nat /\ Offsets # {}
    BY <1>1
  <2> HIDE DEF Offsets
  <2> QED BY <2>1, LeastElement
<1> DEFINE First == {k \in After : points[k].offset = m}
<1>3. PICK k \in First : \A l \in First : k <= l
  <2>1. First \subseteq Nat /\ First # {}
    BY <1>1
  <2> HIDE DEF First
  <2> QED BY <2>1, LeastElement
<1>4. ~ \E l \in DOMAIN points : Before(points, i, l) /\ Before(points, l, k)
  <2> SUFFICES ASSUME NEW l \in DOMAIN points, Before(points, i, l), Before(points, l, k)
               PROVE  FALSE
    OBVIOUS
  <2>1. l \in After /\ m <= points[l].offset
    BY <1>2
  <2>2. points[l].offset <= points[k].offset
    <3>1. k \in DOMAIN points /\ points[l].offset \in Nat /\ points[k].offset \in Nat
      BY <1>1
    <3> QED BY <3>1 DEF Before
  <2>3. l \in First
    BY <1>1, <1>3, <2>1, <2>2
  <2> QED BY <1>1, <1>3, <2>3 DEF Before
<1>5. Neighbours(points, i, k)
  BY <1>3, <1>4 DEF Neighbours
<1>6. points[k].offset <= points[j].offset
  BY <1>2, <1>3
<1> QED BY <1>1, <1>5, <1>6

-----------------------------------------------------------------------------
BlockOk(b) == b.count <= ReadLimit /\ Contained(b) /\ Disjoint(b)

\* A block without an error is short enough, and its points lie in it and apart.
LEMMA BlockPasses ==
  ASSUME NEW b \in Block, BlockError(b) = "none"
  PROVE  BlockOk(b)
<1>1. b.points \in Seq(Point) /\ b.count \in Nat
  BY DEF Block, U16
<1>2. /\ b.count <= ReadLimit
      /\ \A i \in DOMAIN b.points : ~(End(b.points[i]) > b.count)
      /\ \A i, j \in DOMAIN b.points :
            Neighbours(b.points, i, j) => ~(b.points[j].offset < End(b.points[i]))
  BY <1>1 DEF BlockError, ReadLimit
<1>3. Contained(b)
  <2> SUFFICES ASSUME NEW i \in DOMAIN b.points, NEW r \in Registers(b.points[i])
               PROVE  r \in 0 .. (b.count - 1)
    BY DEF Contained
  <2> DEFINE p == b.points[i]
  <2>1. /\ p.offset \in Nat /\ WordCount(p.type) \in {1, 2}
        /\ End(p) = p.offset + WordCount(p.type)
    BY <1>1, PointFacts
  <2>2. r \in Int /\ p.offset <= r /\ r <= p.offset + WordCount(p.type) - 1
    BY <2>1 DEF Registers
  <2> QED BY <1>1, <1>2, <2>1, <2>2
<1>4. \A i, j \in DOMAIN b.points :
        Neighbours(b.points, i, j) => End(b.points[i]) <= b.points[j].offset
  BY <1>1, <1>2, PointFacts
<1>5. \A i, j \in DOMAIN b.points :
        Before(b.points, i, j) => Registers(b.points[i]) \cap Registers(b.points[j]) = {}
  <2> SUFFICES ASSUME NEW i \in DOMAIN b.points, NEW j \in DOMAIN b.points,
                      Before(b.points, i, j)
               PROVE  Registers(b.points[i]) \cap Registers(b.points[j]) = {}
    OBVIOUS
  <2>1. End(b.points[i]) <= b.points[j].offset
    BY <1>1, <1>4, NeighboursSuffice
  <2> DEFINE p == b.points[i]
             q == b.points[j]
  <2>2. /\ p.offset \in Nat /\ WordCount(p.type) \in {1, 2}
        /\ q.offset \in Nat /\ WordCount(q.type) \in {1, 2}
        /\ End(p) = p.offset + WordCount(p.type)
    BY <1>1, PointFacts
  <2>3. \A r \in Registers(p), x \in Registers(q) : r < x
    BY <2>1, <2>2 DEF Registers
  <2>4. \A x \in Registers(q) : x \in Int
    BY <2>2 DEF Registers
  <2> QED BY <2>3, <2>4
<1>6. \A i, j \in DOMAIN b.points :
        i # j => Before(b.points, i, j) \/ Before(b.points, j, i)
  BY <1>1, PointFacts DEF Before
<1>7. Disjoint(b)
  BY <1>5, <1>6 DEF Disjoint
<1> QED BY <1>2, <1>3, <1>7 DEF BlockOk

\* The error of a block is a flaw of the block.
LEMMA BlockFails ==
  ASSUME NEW b \in Block, BlockError(b) # "none"
  PROVE  \/ BlockError(b) = "BlockTooLarge" /\ b.count > ReadLimit
         \/ BlockError(b) = "PointOutOfBounds" /\ ~Contained(b)
         \/ BlockError(b) = "OverlappingPoints" /\ ~Disjoint(b)
<1>1. b.points \in Seq(Point) /\ b.count \in Nat
  BY DEF Block, U16
<1>2. CASE b.count > ReadLimit
  BY <1>2 DEF BlockError
<1>3. CASE ~(b.count > ReadLimit) /\ \E i \in DOMAIN b.points : End(b.points[i]) > b.count
  <2>1. BlockError(b) = "PointOutOfBounds"
    BY <1>3 DEF BlockError
  <2>2. PICK i \in DOMAIN b.points : End(b.points[i]) > b.count
    BY <1>3
  <2>3. End(b.points[i]) - 1 \in Registers(b.points[i])
    BY <1>1, PointFacts DEF Registers
  <2>4. End(b.points[i]) - 1 \notin 0 .. (b.count - 1)
    BY <1>1, <2>2, PointFacts
  <2> QED BY <2>1, <2>3, <2>4 DEF Contained
<1>4. CASE /\ ~(b.count > ReadLimit)
           /\ ~ \E i \in DOMAIN b.points : End(b.points[i]) > b.count
  <2>1. PICK i \in DOMAIN b.points, j \in DOMAIN b.points :
            Neighbours(b.points, i, j) /\ b.points[j].offset < End(b.points[i])
    BY <1>4 DEF BlockError
  <2>2. BlockError(b) = "OverlappingPoints"
    BY <1>4, <2>1 DEF BlockError
  <2>3. i # j /\ b.points[i].offset <= b.points[j].offset
    BY <1>1, <2>1, PointFacts DEF Neighbours, Before
  <2>4. /\ b.points[j].offset \in Registers(b.points[i])
        /\ b.points[j].offset \in Registers(b.points[j])
    <3> DEFINE p == b.points[i]
               q == b.points[j]
    <3>1. /\ p.offset \in Nat /\ WordCount(p.type) \in {1, 2}
          /\ q.offset \in Nat /\ WordCount(q.type) \in {1, 2}
          /\ End(p) = p.offset + WordCount(p.type)
      BY <1>1, PointFacts
    <3> QED BY <2>1, <2>3, <3>1 DEF Registers
  <2> QED BY <2>2, <2>3, <2>4 DEF Disjoint
<1> QED BY <1>2, <1>3, <1>4

-----------------------------------------------------------------------------
DeviceOk(dev) == \A b \in DOMAIN dev.blocks : BlockOk(dev.blocks[b])

\* What the head of the loop's body has checked of a connection.
HeadOk(conn) ==
    /\ conn.pollInterval # 0 /\ ~RepeatsUnitId(conn)
    /\ IsRtu(conn) => conn.transport.dataBits \in 5 .. 8 /\ conn.transport.stopBits \in 1 .. 2

Passed == IF at = "block" THEN 1 .. ci ELSE 1 .. ci - 1

PortsSeen ==
    /\ ports = {cfg.connections[i].transport.port : i \in {x \in Passed : IsRtu(cfg.connections[x])}}
    /\ \A i, j \in Passed :
        i # j /\ IsRtu(cfg.connections[i]) /\ IsRtu(cfg.connections[j]) =>
            cfg.connections[i].transport.port # cfg.connections[j].transport.port

\* What is behind the walk has passed all the checks.
Behind ==
    /\ GatewayError(cfg) = "none"
    /\ \A i \in Passed : HeadOk(cfg.connections[i])
    /\ PortsSeen
    /\ \A i \in 1 .. ci - 1 : \A d \in DOMAIN cfg.connections[i].devices :
        DeviceOk(cfg.connections[i].devices[d])

\* The devices and blocks behind the walk in the connection it is in.
BehindInConnection ==
    \A d \in DOMAIN cfg.connections[ci].devices :
        /\ d < di => DeviceOk(cfg.connections[ci].devices[d])
        /\ d = di => \A b \in DOMAIN cfg.connections[ci].devices[d].blocks :
                        b < bi => BlockOk(cfg.connections[ci].devices[d].blocks[b])

WalkInv ==
    /\ at \in {"load", "gateway"} => ci = 1 /\ ports = {}
    /\ at \in {"connection", "block", "ca", "accepted"} => Behind
    /\ at = "block" => BehindInConnection
    /\ at \in {"ca", "accepted"} => ci = Len(cfg.connections) + 1
    /\ at = "accepted" => cfg.ca = "ok"
    /\ at = "rejected" => error \in {"Read", "Parse"} \/ Flaw(cfg, error)

IInv == ConfigTypeOK /\ WalkInv

\* The parts of a configuration have the types of the schema.
LEMMA ConfigFacts ==
  ASSUME NEW c \in Config
  PROVE  /\ Len(c.connections) \in Nat /\ DOMAIN c.connections = 1 .. Len(c.connections)
         /\ \A i \in DOMAIN c.connections :
              /\ c.connections[i] \in Connection
              /\ Len(c.connections[i].devices) \in Nat
              /\ DOMAIN c.connections[i].devices = 1 .. Len(c.connections[i].devices)
              /\ \A d \in DOMAIN c.connections[i].devices :
                    LET blocks == c.connections[i].devices[d].blocks IN
                    /\ Len(blocks) \in Nat /\ DOMAIN blocks = 1 .. Len(blocks)
                    /\ \A b \in DOMAIN blocks : blocks[b] \in Block
<1>1. c.connections \in Seq(Connection)
  BY DEF Config
<1>2. ASSUME NEW i \in DOMAIN c.connections
      PROVE  c.connections[i] \in Connection /\ c.connections[i].devices \in Seq(Device)
  <2>1. c.connections[i] \in Connection
    BY <1>1
  <2> QED BY <2>1 DEF Connection
<1>3. ASSUME NEW i \in DOMAIN c.connections, NEW d \in DOMAIN c.connections[i].devices
      PROVE  c.connections[i].devices[d].blocks \in Seq(Block)
  <2>1. c.connections[i].devices[d] \in Device
    BY <1>2
  <2> QED BY <2>1 DEF Device
<1> QED BY <1>1, <1>2, <1>3

\* A flawed block makes a flawed configuration.
LEMMA BlockIsOfConfig ==
  ASSUME NEW c, NEW i \in DOMAIN c.connections, NEW d \in DOMAIN c.connections[i].devices,
         NEW b \in DOMAIN c.connections[i].devices[d].blocks
  PROVE  c.connections[i].devices[d].blocks[b] \in AllBlocks(c)
<1> DEFINE conn == c.connections[i]
           dev == conn.devices[d]
<1>1. conn \in ConnectionsOf(c)
  BY DEF ConnectionsOf
<1>2. dev \in DevicesOf(conn)
  BY DEF DevicesOf
<1>3. dev.blocks[b] \in BlocksOf(dev)
  BY DEF BlocksOf
<1> QED BY <1>1, <1>2, <1>3 DEF AllBlocks

\* Every block of a configuration is one of some device.
LEMMA BlockHasPlace ==
  ASSUME NEW c, NEW block \in AllBlocks(c)
  PROVE  \E i \in DOMAIN c.connections : \E d \in DOMAIN c.connections[i].devices :
            \E b \in DOMAIN c.connections[i].devices[d].blocks :
                block = c.connections[i].devices[d].blocks[b]
<1>1. PICK conn \in ConnectionsOf(c) :
            block \in UNION {BlocksOf(dev) : dev \in DevicesOf(conn)}
  BY DEF AllBlocks
<1>2. PICK dev \in DevicesOf(conn) : block \in BlocksOf(dev)
  BY <1>1
<1>3. PICK i \in DOMAIN c.connections : conn = c.connections[i]
  BY <1>1 DEF ConnectionsOf
<1>4. PICK d \in DOMAIN conn.devices : dev = conn.devices[d]
  BY <1>2 DEF DevicesOf
<1>5. PICK b \in DOMAIN dev.blocks : block = dev.blocks[b]
  BY <1>2 DEF BlocksOf
<1> QED BY <1>3, <1>4, <1>5

\* The walk starts with nothing checked.
LEMMA ConfigInitInv == ConfigInit => IInv
<1> SUFFICES ASSUME ConfigInit PROVE IInv
  OBVIOUS
<1>1. cfg \in Config
  BY ConfigsAssumption DEF ConfigInit
<1>2. Len(cfg.connections) \in Nat
  BY <1>1, ConfigFacts
<1>3. ConfigTypeOK
  BY <1>1, <1>2 DEF ConfigInit, ConfigTypeOK
<1> QED BY <1>3 DEF ConfigInit, IInv, WalkInv

\* An error that is a flaw ends the walk with the right verdict.
LEMMA RejectInv ==
  ASSUME IInv, NEW e, Reject(e), e \in ValidationErrors \cup {"Read", "Parse"},
         e \in {"Read", "Parse"} \/ Flaw(cfg, e)
  PROVE  IInv'
<1>1. cfg' = cfg /\ at' = "rejected" /\ error' = e
  BY DEF Reject
<1>2. ConfigTypeOK'
  BY <1>1 DEF IInv, ConfigTypeOK, Reject
<1>3. error' \in {"Read", "Parse"} \/ Flaw(cfg', error')
  BY <1>1
<1>4. WalkInv'
  BY <1>1, <1>3 DEF WalkInv
<1> QED BY <1>2, <1>4 DEF IInv

\* [gateway] and [mqtt].
LEMMA GatewayStep == IInv /\ CheckGateway => IInv'
<1> SUFFICES ASSUME IInv, CheckGateway PROVE IInv'
  OBVIOUS
<1>1. CASE GatewayError(cfg) # "none" /\ Reject(GatewayError(cfg))
  <2>1. cfg \in Config /\ cfg.qos \in U8
    BY DEF IInv, ConfigTypeOK, Config
  <2>2. CASE cfg.window = 0
    <3>1. GatewayError(cfg) = "ZeroInterval"
      BY <2>2 DEF GatewayError
    <3>2. Flaw(cfg, "ZeroInterval")
      BY <2>2 DEF Flaw
    <3> QED BY <1>1, <3>1, <3>2, RejectInv DEF ValidationErrors
  <2>3. CASE cfg.window # 0 /\ ~cfg.logLevelParses
    <3>1. GatewayError(cfg) = "InvalidLogLevel"
      BY <2>3, Zenon DEF GatewayError
    <3>2. Flaw(cfg, "InvalidLogLevel")
      BY <2>3, Zenon DEF Flaw
    <3> QED BY <1>1, <3>1, <3>2, RejectInv DEF ValidationErrors
  <2>4. CASE cfg.window # 0 /\ cfg.logLevelParses
    <3>1. GatewayError(cfg) = IF cfg.qos > 2 THEN "InvalidQos" ELSE "none"
      BY <2>4, Zenon DEF GatewayError
    <3>2. GatewayError(cfg) = "InvalidQos" /\ cfg.qos > 2
      BY <1>1, <3>1
    <3>3. Flaw(cfg, "InvalidQos")
      BY <2>1, <3>2 DEF Flaw, U8
    <3> QED BY <1>1, <3>2, <3>3, RejectInv DEF ValidationErrors
  <2> QED BY <2>2, <2>3, <2>4
<1>2. CASE GatewayError(cfg) = "none" /\ at' = "connection"
           /\ UNCHANGED <<cfg, ci, di, bi, ports, error>>
  <2>1. ConfigTypeOK'
    BY <1>2 DEF IInv, ConfigTypeOK
  <2>2. ci = 1 /\ ports = {}
    BY DEF IInv, WalkInv, CheckGateway
  <2>3. Passed' = {}
    BY <1>2, <2>2 DEF Passed
  <2>4. PortsSeen'
    BY <1>2, <2>2, <2>3 DEF PortsSeen
  <2>5. Behind'
    BY <1>2, <2>2, <2>3, <2>4 DEF Behind
  <2> QED BY <1>2, <2>1, <2>5 DEF IInv, WalkInv
<1> QED BY <1>1, <1>2 DEF CheckGateway

\* Interval, unit ids and serial settings of a connection.
LEMMA ConnectionStep == IInv /\ CheckConnection => IInv'
<1> SUFFICES ASSUME IInv, CheckConnection PROVE IInv'
  OBVIOUS
<1> DEFINE conn == cfg.connections[ci]
<1>1. /\ at = "connection" /\ ci \in DOMAIN cfg.connections /\ cfg \in Config
      /\ ci \in Nat \ {0} /\ Passed = 1 .. ci - 1 /\ Behind
      /\ DOMAIN cfg.connections = 1 .. Len(cfg.connections) /\ Len(cfg.connections) \in Nat
  <2>1. cfg \in Config /\ at = "connection" /\ ci \in DOMAIN cfg.connections /\ Behind
    BY DEF IInv, ConfigTypeOK, WalkInv, CheckConnection
  <2> QED BY <2>1, ConfigFacts DEF Passed
<1>2. conn \in Connection /\ conn \in ConnectionsOf(cfg)
  BY <1>1, ConfigFacts DEF ConnectionsOf
<1>3. CASE ConnectionError(conn, ports) # "none" /\ Reject(ConnectionError(conn, ports))
  <2>1. conn.pollInterval \in Nat /\ DOMAIN conn.devices \subseteq Nat
    BY <1>1, <1>2, ConfigFacts DEF Connection
  <2>2. CASE conn.pollInterval = 0
    BY <1>2, <1>3, <2>2, RejectInv DEF ConnectionError, Flaw, ValidationErrors
  <2>3. CASE conn.pollInterval # 0 /\ RepeatsUnitId(conn)
    <3>1. ConnectionError(conn, ports) = "DuplicateUnitId"
      BY <2>3 DEF ConnectionError
    <3>2. Flaw(cfg, "DuplicateUnitId")
      BY <1>2, <2>1, <2>3 DEF Flaw, RepeatsUnitId
    <3> QED BY <1>3, <3>1, <3>2, RejectInv DEF ValidationErrors
  <2>4. CASE conn.pollInterval # 0 /\ ~RepeatsUnitId(conn)
    <3>1. IsRtu(conn) /\ ConnectionError(conn, ports) = SerialError(conn.transport, ports)
      BY <1>3, <2>4 DEF ConnectionError
    <3>2. conn.transport.dataBits \in Nat /\ conn.transport.stopBits \in Nat
      BY <1>2, <3>1 DEF Connection, Transport, IsRtu, U8
    <3>3. CASE conn.transport.dataBits \notin 5 .. 8 \/ conn.transport.stopBits \notin 1 .. 2
      <4>1. SerialError(conn.transport, ports) = "UnsupportedSerialSetting"
        BY <3>3 DEF SerialError
      <4>2. Flaw(cfg, "UnsupportedSerialSetting")
        BY <1>2, <3>1, <3>2, <3>3 DEF Flaw
      <4> QED BY <1>3, <3>1, <4>1, <4>2, RejectInv DEF ValidationErrors
    <3>4. CASE ~(conn.transport.dataBits \notin 5 .. 8 \/ conn.transport.stopBits \notin 1 .. 2)
      <4>1. conn.transport.port \in ports
            /\ SerialError(conn.transport, ports) = "DuplicateSerialPort"
        BY <1>3, <3>1, <3>4 DEF SerialError
      <4>2. PICK i \in 1 .. ci - 1 :
                IsRtu(cfg.connections[i]) /\ cfg.connections[i].transport.port = conn.transport.port
        BY <1>1, <4>1 DEF Behind, PortsSeen
      <4>3. i # ci /\ i \in DOMAIN cfg.connections
        BY <1>1, <4>2
      <4>4. Flaw(cfg, "DuplicateSerialPort")
        BY <1>1, <3>1, <4>2, <4>3 DEF Flaw
      <4> QED BY <1>3, <3>1, <4>1, <4>4, RejectInv DEF ValidationErrors
    <3> QED BY <3>3, <3>4
  <2> QED BY <2>2, <2>3, <2>4
<1>4. CASE /\ ConnectionError(conn, ports) = "none"
           /\ ports' = AddPort(conn, ports)
           /\ at' = "block" /\ di' = 1 /\ bi' = 1
           /\ UNCHANGED <<cfg, ci, error>>
  <2>1. HeadOk(conn) /\ (IsRtu(conn) => conn.transport.port \notin ports)
    BY <1>4 DEF ConnectionError, SerialError, HeadOk
  <2>2. Len(conn.devices) \in Nat /\ DOMAIN conn.devices = 1 .. Len(conn.devices)
        /\ \A d \in DOMAIN conn.devices :
              /\ Len(conn.devices[d].blocks) \in Nat
              /\ DOMAIN conn.devices[d].blocks = 1 .. Len(conn.devices[d].blocks)
    BY <1>1, ConfigFacts
  <2>3. ports' \subseteq STRING
    BY <1>2, <1>4 DEF IInv, ConfigTypeOK, AddPort, IsRtu, Connection, Transport
  <2>4. ConfigTypeOK'
    BY <1>1, <1>4, <2>2, <2>3 DEF IInv, ConfigTypeOK
  <2>5. Passed' = 1 .. ci /\ 1 .. ci = (1 .. ci - 1) \cup {ci}
    BY <1>1, <1>4 DEF Passed
  <2>6. PortsSeen'
    <3>1. ports = {cfg.connections[i].transport.port :
                    i \in {x \in 1 .. ci - 1 : IsRtu(cfg.connections[x])}}
      BY <1>1 DEF Behind, PortsSeen
    <3>2. ports' = {cfg.connections[i].transport.port :
                    i \in {x \in 1 .. ci : IsRtu(cfg.connections[x])}}
      BY <1>4, <2>5, <3>1 DEF AddPort
    <3>3. \A i \in 1 .. ci - 1 : IsRtu(cfg.connections[i]) /\ IsRtu(conn) =>
            cfg.connections[i].transport.port # conn.transport.port
      BY <2>1, <3>1
    <3>4. \A i, j \in 1 .. ci :
            i # j /\ IsRtu(cfg.connections[i]) /\ IsRtu(cfg.connections[j]) =>
                cfg.connections[i].transport.port # cfg.connections[j].transport.port
      BY <1>1, <2>5, <3>3 DEF Behind, PortsSeen
    <3> QED BY <1>4, <2>5, <3>2, <3>4 DEF PortsSeen
  <2>7. Behind'
    BY <1>1, <1>4, <2>1, <2>5, <2>6 DEF Behind
  <2>8. BehindInConnection'
    BY <1>1, <1>4, <2>2 DEF BehindInConnection
  <2> QED BY <1>4, <2>4, <2>7, <2>8 DEF IInv, WalkInv
<1> QED BY <1>3, <1>4 DEF CheckConnection

\* The state at a block: the walk is in a connection of the configuration.
LEMMA AtBlock ==
  ASSUME IInv, at = "block"
  PROVE  /\ cfg \in Config /\ ci \in DOMAIN cfg.connections /\ ci \in Nat \ {0}
         /\ DOMAIN cfg.connections = 1 .. Len(cfg.connections) /\ Len(cfg.connections) \in Nat
         /\ Len(cfg.connections[ci].devices) \in Nat
         /\ DOMAIN cfg.connections[ci].devices = 1 .. Len(cfg.connections[ci].devices)
         /\ di \in Nat \ {0} /\ bi \in Nat \ {0} /\ di <= Len(cfg.connections[ci].devices) + 1
         /\ Passed = 1 .. ci /\ Behind /\ BehindInConnection
<1>1. /\ cfg \in Config /\ ci \in DOMAIN cfg.connections
      /\ di \in Nat \ {0} /\ bi \in Nat \ {0} /\ di <= Len(cfg.connections[ci].devices) + 1
      /\ Behind /\ BehindInConnection
  BY DEF IInv, ConfigTypeOK, WalkInv
<1> QED BY <1>1, ConfigFacts DEF Passed

\* A step inside a connection keeps what is behind the walk.
LEMMA BehindKept ==
  ASSUME IInv, at = "block", at' = "block", UNCHANGED <<cfg, ci, ports>>
  PROVE  Behind'
<1>1. Behind /\ Passed' = Passed
  BY AtBlock DEF Passed
<1> QED BY <1>1 DEF Behind, PortsSeen

\* One block of a device.
LEMMA BlockStep == IInv /\ CheckBlock => IInv'
<1> SUFFICES ASSUME IInv, CheckBlock PROVE IInv'
  OBVIOUS
<1> DEFINE blocks == cfg.connections[ci].devices[di].blocks
           block == blocks[bi]
<1>1. at = "block" /\ di \in DOMAIN cfg.connections[ci].devices /\ bi \in DOMAIN blocks
  BY DEF CheckBlock
<1>2. block \in Block /\ block \in AllBlocks(cfg)
  BY <1>1, AtBlock, ConfigFacts, BlockIsOfConfig
<1>3. CASE BlockError(block) # "none" /\ Reject(BlockError(block))
  <2>1. BlockError(block) \in ValidationErrors /\ Flaw(cfg, BlockError(block))
    <3>1. CASE BlockError(block) = "BlockTooLarge" /\ block.count > ReadLimit
      BY <1>2, <3>1 DEF Flaw, ValidationErrors
    <3>2. CASE BlockError(block) = "PointOutOfBounds" /\ ~Contained(block)
      BY <1>2, <3>2 DEF Flaw, ValidationErrors
    <3>3. CASE BlockError(block) = "OverlappingPoints" /\ ~Disjoint(block)
      BY <1>2, <3>3 DEF Flaw, ValidationErrors
    <3> QED BY <1>2, <1>3, <3>1, <3>2, <3>3, BlockFails
  <2> QED BY <1>3, <2>1, RejectInv
<1>4. CASE BlockError(block) = "none" /\ bi' = bi + 1 /\ UNCHANGED <<cfg, at, ci, di, ports, error>>
  <2>1. ConfigTypeOK'
    BY <1>4, AtBlock, <1>1 DEF IInv, ConfigTypeOK
  <2>2. Behind'
    BY <1>1, <1>4, BehindKept
  <2>3. BlockOk(block)
    BY <1>2, <1>4, BlockPasses
  <2>4. DOMAIN blocks \subseteq Nat
    <3>1. Len(blocks) \in Nat /\ DOMAIN blocks = 1 .. Len(blocks)
      BY <1>1, AtBlock, ConfigFacts
    <3> QED BY <3>1
  <2>5. BehindInConnection'
    BY <1>1, <1>4, <2>3, <2>4, AtBlock DEF BehindInConnection
  <2> QED BY <1>1, <1>4, <2>1, <2>2, <2>5 DEF IInv, WalkInv
<1> QED BY <1>3, <1>4 DEF CheckBlock

\* The blocks of a device are done.
LEMMA DeviceStep == IInv /\ NextDevice => IInv'
<1> SUFFICES ASSUME IInv, NextDevice PROVE IInv'
  OBVIOUS
<1>1. /\ at = "block" /\ di \in DOMAIN cfg.connections[ci].devices
      /\ bi > Len(cfg.connections[ci].devices[di].blocks)
      /\ di' = di + 1 /\ bi' = 1 /\ UNCHANGED <<cfg, at, ci, ports, error>>
  BY DEF NextDevice
<1>2. ConfigTypeOK'
  BY <1>1, AtBlock DEF IInv, ConfigTypeOK
<1>3. Behind'
  BY <1>1, BehindKept
<1>4. DOMAIN cfg.connections[ci].devices \subseteq Nat
  BY <1>1, AtBlock
<1>5. \A d \in DOMAIN cfg.connections[ci].devices :
        /\ Len(cfg.connections[ci].devices[d].blocks) \in Nat
        /\ DOMAIN cfg.connections[ci].devices[d].blocks =
                1 .. Len(cfg.connections[ci].devices[d].blocks)
  BY <1>1, AtBlock, ConfigFacts
<1>6. DeviceOk(cfg.connections[ci].devices[di])
  <2>1. \A b \in DOMAIN cfg.connections[ci].devices[di].blocks : b < bi
    BY <1>1, <1>5, AtBlock
  <2> QED BY <1>1, <2>1, AtBlock DEF BehindInConnection, DeviceOk
<1>7. ASSUME NEW d \in DOMAIN cfg.connections[ci].devices
      PROVE  /\ d < di + 1 => DeviceOk(cfg.connections[ci].devices[d])
             /\ d = di + 1 => \A b \in DOMAIN cfg.connections[ci].devices[d].blocks : ~(b < 1)
  <2>1. d < di + 1 => d < di \/ d = di
    BY <1>1, <1>4, AtBlock
  <2>2. d < di => DeviceOk(cfg.connections[ci].devices[d])
    BY <1>1, AtBlock DEF BehindInConnection
  <2> QED BY <1>5, <1>6, <2>1, <2>2
<1>8. BehindInConnection'
  BY <1>1, <1>7 DEF BehindInConnection
<1> QED BY <1>1, <1>2, <1>3, <1>8 DEF IInv, WalkInv

\* The devices of a connection are done.
LEMMA NextConnectionStep == IInv /\ NextConnection => IInv'
<1> SUFFICES ASSUME IInv, NextConnection PROVE IInv'
  OBVIOUS
<1>1. /\ at = "block" /\ di > Len(cfg.connections[ci].devices)
      /\ ci' = ci + 1 /\ at' = "connection" /\ UNCHANGED <<cfg, di, bi, ports, error>>
  BY DEF NextConnection
<1>2. ConfigTypeOK'
  BY <1>1, AtBlock DEF IInv, ConfigTypeOK
<1>3. Passed' = Passed /\ 1 .. ci' - 1 = (1 .. ci - 1) \cup {ci}
  BY <1>1, AtBlock DEF Passed
<1>4. \A d \in DOMAIN cfg.connections[ci].devices : DeviceOk(cfg.connections[ci].devices[d])
  BY <1>1, AtBlock DEF BehindInConnection
<1>5. Behind'
  <2>1. \A i \in 1 .. ci' - 1 : \A d \in DOMAIN cfg.connections[i].devices :
            DeviceOk(cfg.connections[i].devices[d])
    BY <1>1, <1>3, <1>4, AtBlock DEF Behind
  <2>2. PortsSeen'
    BY <1>1, <1>3, AtBlock DEF Behind, PortsSeen
  <2> QED BY <1>1, <1>3, <2>1, <2>2, AtBlock DEF Behind
<1> QED BY <1>1, <1>2, <1>5 DEF IInv, WalkInv

\* The last connection is done.
LEMMA EndStep == IInv /\ EndConnections => IInv'
<1> SUFFICES ASSUME IInv, EndConnections PROVE IInv'
  OBVIOUS
<1>1. /\ at = "connection" /\ ci > Len(cfg.connections)
      /\ at' = "ca" /\ UNCHANGED <<cfg, ci, di, bi, ports, error>>
  BY DEF EndConnections
<1>2. cfg \in Config /\ ci \in 1 .. Len(cfg.connections) + 1 /\ Behind
  BY <1>1 DEF IInv, ConfigTypeOK, WalkInv
<1>3. ci = Len(cfg.connections) + 1
  BY <1>1, <1>2, ConfigFacts
<1>4. ConfigTypeOK'
  BY <1>1 DEF IInv, ConfigTypeOK
<1>5. Passed' = Passed
  BY <1>1 DEF Passed
<1>6. Behind'
  BY <1>1, <1>2, <1>5 DEF Behind, PortsSeen
<1> QED BY <1>1, <1>3, <1>4, <1>6 DEF IInv, WalkInv

\* The CA file.
LEMMA CaStep == IInv /\ CheckCa => IInv'
<1> SUFFICES ASSUME IInv, CheckCa PROVE IInv'
  OBVIOUS
<1>1. cfg \in Config /\ at = "ca" /\ Behind /\ ci = Len(cfg.connections) + 1
  BY DEF IInv, ConfigTypeOK, WalkInv, CheckCa
<1>2. cfg.ca \in {"ok", "unreadable", "unparseable", "empty"}
  BY <1>1 DEF Config
<1>3. CASE CaError(cfg) # "none" /\ Reject(CaError(cfg))
  <2>1. CaError(cfg) \in {"CaCertUnreadable", "CaCertUnparseable", "CaCertEmpty"} /\ cfg.ca # "ok"
    BY <1>2, <1>3 DEF CaError
  <2>2. Flaw(cfg, CaError(cfg))
    BY <2>1 DEF Flaw
  <2> QED BY <1>3, <2>1, <2>2, RejectInv DEF ValidationErrors
<1>4. CASE CaError(cfg) = "none" /\ at' = "accepted" /\ UNCHANGED <<cfg, ci, di, bi, ports, error>>
  <2>1. cfg.ca = "ok"
    BY <1>2, <1>4 DEF CaError
  <2>2. ConfigTypeOK'
    BY <1>4 DEF IInv, ConfigTypeOK
  <2>3. Passed' = Passed
    BY <1>1, <1>4 DEF Passed
  <2>4. Behind'
    BY <1>1, <1>4, <2>3 DEF Behind, PortsSeen
  <2> QED BY <1>1, <1>4, <2>1, <2>2, <2>4 DEF IInv, WalkInv
<1> QED BY <1>3, <1>4 DEF CheckCa

\* No step of the walk breaks the invariant.
LEMMA ValidateInv == IInv /\ Validate => IInv'
<1> SUFFICES ASSUME IInv, Validate PROVE IInv'
  OBVIOUS
<1>1. CASE LoadFails
  BY <1>1, RejectInv DEF LoadFails
<1>2. CASE Load
  <2>1. ConfigTypeOK'
    BY <1>2 DEF IInv, ConfigTypeOK, Load
  <2> QED BY <1>2, <2>1 DEF IInv, WalkInv, Load
<1> QED BY <1>1, <1>2, GatewayStep, ConnectionStep, BlockStep, DeviceStep, NextConnectionStep,
           EndStep, CaStep DEF Validate

\* Steps of others leave the walk alone.
LEMMA WalkStutters == IInv /\ UNCHANGED configVars => IInv'
<1> SUFFICES ASSUME IInv, UNCHANGED configVars PROVE IInv'
  OBVIOUS
<1>1. UNCHANGED <<cfg, at, ci, di, bi, ports, error>>
  BY DEF configVars
<1>2. ConfigTypeOK'
  BY <1>1 DEF IInv, ConfigTypeOK
<1>3. Passed' = Passed
  BY <1>1 DEF Passed
<1>4. Behind => Behind'
  BY <1>1, <1>3 DEF Behind, PortsSeen
<1>5. BehindInConnection => BehindInConnection'
  BY <1>1 DEF BehindInConnection
<1>6. Flaw(cfg, error) => Flaw(cfg, error)'
  BY <1>1
<1> QED BY <1>1, <1>2, <1>4, <1>5, <1>6 DEF IInv, WalkInv

-----------------------------------------------------------------------------
\* Every block of an accepted configuration is sound.
LEMMA AcceptedBlocks ==
  ASSUME IInv, at = "accepted", NEW i \in DOMAIN cfg.connections,
         NEW d \in DOMAIN cfg.connections[i].devices,
         NEW b \in DOMAIN cfg.connections[i].devices[d].blocks
  PROVE  BlockOk(cfg.connections[i].devices[d].blocks[b])
<1>1. Behind /\ ci = Len(cfg.connections) + 1 /\ cfg \in Config
  BY DEF IInv, ConfigTypeOK, WalkInv
<1>2. i \in 1 .. ci - 1
  BY <1>1, ConfigFacts
<1> QED BY <1>1, <1>2 DEF Behind, DeviceOk

\* So are its connections, and no two of them share a serial port.
LEMMA AcceptedConnections ==
  ASSUME IInv, at = "accepted"
  PROVE  /\ \A i \in DOMAIN cfg.connections : HeadOk(cfg.connections[i])
         /\ \A i, j \in DOMAIN cfg.connections :
              i # j /\ IsRtu(cfg.connections[i]) /\ IsRtu(cfg.connections[j]) =>
                cfg.connections[i].transport.port # cfg.connections[j].transport.port
<1>1. Behind /\ ci = Len(cfg.connections) + 1 /\ cfg \in Config
  BY DEF IInv, ConfigTypeOK, WalkInv
<1>2. Passed = DOMAIN cfg.connections
  BY <1>1, ConfigFacts DEF Passed
<1> QED BY <1>1, <1>2 DEF Behind, PortsSeen

\* The invariant gives the verdict.
LEMMA InvVerdict == IInv => VerdictIsRight
<1> SUFFICES ASSUME IInv PROVE VerdictIsRight
  OBVIOUS
<1>1. at = "rejected" => error \in {"Read", "Parse"} \/ Flaw(cfg, error)
  BY DEF IInv, WalkInv
<1>2. ASSUME at = "accepted" PROVE \A e \in ValidationErrors : ~Flaw(cfg, e)
  <2>1. cfg \in Config /\ GatewayError(cfg) = "none" /\ cfg.ca = "ok" /\ cfg.qos \in U8
    BY <1>2 DEF IInv, ConfigTypeOK, WalkInv, Behind, Config
  <2>2. \A conn \in ConnectionsOf(cfg) : HeadOk(conn)
    BY <1>2, AcceptedConnections DEF ConnectionsOf
  <2>3. \A block \in AllBlocks(cfg) : BlockOk(block)
    BY <1>2, AcceptedBlocks, BlockHasPlace
  <2>4. cfg.window # 0 /\ cfg.logLevelParses /\ ~(cfg.qos > 2)
    <3>1. cfg.window # 0
      BY <2>1 DEF GatewayError
    <3>2. cfg.logLevelParses
      BY <2>1, <3>1, Zenon DEF GatewayError
    <3>3. GatewayError(cfg) = IF cfg.qos > 2 THEN "InvalidQos" ELSE "none"
      BY <3>1, <3>2, Zenon DEF GatewayError
    <3> QED BY <2>1, <3>1, <3>2, <3>3
  <2>5. ~Flaw(cfg, "ZeroInterval")
    BY <2>2, <2>4 DEF Flaw, HeadOk
  <2>6. ~Flaw(cfg, "InvalidLogLevel")
    BY <2>4, Zenon DEF Flaw
  <2>7. ~Flaw(cfg, "InvalidQos")
    BY <2>1, <2>4 DEF Flaw, U8
  <2>8. ~Flaw(cfg, "DuplicateUnitId")
    <3> SUFFICES ASSUME NEW conn \in ConnectionsOf(cfg),
                        NEW i \in DOMAIN conn.devices, NEW j \in DOMAIN conn.devices,
                        i # j, conn.devices[i].unitId = conn.devices[j].unitId
                 PROVE  FALSE
      BY DEF Flaw
    <3>1. i \in Nat /\ j \in Nat
      BY <2>1, ConfigFacts DEF ConnectionsOf
    <3>2. i < j \/ j < i
      BY <3>1
    <3> QED BY <2>2, <3>2 DEF HeadOk, RepeatsUnitId
  <2>9. ~Flaw(cfg, "UnsupportedSerialSetting")
    BY <2>2 DEF Flaw, HeadOk
  <2>10. ~Flaw(cfg, "DuplicateSerialPort")
    BY <1>2, AcceptedConnections DEF Flaw
  <2>11. ~Flaw(cfg, "BlockTooLarge")
    <3>1. ASSUME NEW block \in AllBlocks(cfg) PROVE ~(block.count > ReadLimit)
      <4>1. block \in Block
        BY <2>1, BlockHasPlace, ConfigFacts
      <4> QED BY <2>3, <4>1 DEF BlockOk, Block, U16, ReadLimit
    <3> QED BY <3>1 DEF Flaw
  <2>12. ~Flaw(cfg, "PointOutOfBounds") /\ ~Flaw(cfg, "OverlappingPoints")
    BY <2>3 DEF Flaw, BlockOk
  <2>13. \A e \in {"CaCertUnreadable", "CaCertUnparseable", "CaCertEmpty"} : ~Flaw(cfg, e)
    BY <2>1 DEF Flaw
  <2> QED BY <2>5, <2>6, <2>7, <2>8, <2>9, <2>10, <2>11, <2>12, <2>13 DEF ValidationErrors
<1> QED BY <1>1, <1>2 DEF VerdictIsRight

\* For every set of configurations: validate accepts exactly those without a flaw (zero
\* intervals, repeated unit ids and ports, settings out of range, blocks too large, points out
\* of bounds or overlapping), and the error it returns is one the configuration has.
THEOREM Verdict == ConfigSpec => []VerdictIsRight
<1>1. ConfigInit => IInv
  BY ConfigInitInv
<1>2. IInv /\ [Validate]_configVars => IInv'
  BY ValidateInv, WalkStutters
<1>3. IInv => VerdictIsRight
  BY InvVerdict
<1> QED BY <1>1, <1>2, <1>3, PTL DEF ConfigSpec

-----------------------------------------------------------------------------
\* No two units are each used by more than half of the points.
LEMMA OneMajority ==
  ASSUME NEW T, NEW points \in Seq(T), NEW u, NEW v, u # v
  PROVE  Uses(points, u) \in Nat /\ Uses(points, v) \in Nat
         /\ Uses(points, u) + Uses(points, v) <= Len(points)
<1> DEFINE U == {i \in DOMAIN points : points[i].unit = u}
           V == {i \in DOMAIN points : points[i].unit = v}
<1>1. /\ IsFiniteSet(DOMAIN points) /\ Cardinality(DOMAIN points) = Len(points)
      /\ Len(points) \in Nat
  <2>1. Len(points) \in Nat /\ DOMAIN points = 1 .. Len(points)
    OBVIOUS
  <2>2. Cardinality(1 .. Len(points)) = Len(points) /\ IsFiniteSet(1 .. Len(points))
    BY <2>1, FS_Interval
  <2> QED BY <2>1, <2>2
<1>2. /\ U \subseteq DOMAIN points /\ V \subseteq DOMAIN points
      /\ U \cap V = {} /\ U \cup V \subseteq DOMAIN points
  OBVIOUS
<1>3. IsFiniteSet(U) /\ IsFiniteSet(V) /\ IsFiniteSet(U \cup V)
  <2> HIDE DEF U, V
  <2> QED BY <1>1, <1>2, FS_Subset
<1>4. Cardinality(U) \in Nat /\ Cardinality(V) \in Nat
  <2> HIDE DEF U, V
  <2> QED BY <1>3, FS_CardinalityType
<1>5. Cardinality(U \cup V) = Cardinality(U) + Cardinality(V)
  <2>1. Cardinality({}) = 0
    BY FS_EmptySet
  <2> HIDE DEF U, V
  <2>2. Cardinality(U \cup V) = Cardinality(U) + Cardinality(V) - Cardinality(U \cap V)
    BY <1>3, FS_Union
  <2>3. Cardinality(U \cap V) = 0
    BY <1>2, <2>1, Zenon
  <2>4. ASSUME NEW m, m \in Nat, NEW n, n \in Nat PROVE m + n - 0 = m + n
    BY <2>4
  <2> QED BY <1>4, <2>2, <2>3, <2>4
<1>6. Cardinality(U \cup V) <= Len(points)
  <2> HIDE DEF U, V
  <2> QED BY <1>1, <1>2, FS_Subset
<1>7. Uses(points, u) = Cardinality(U) /\ Uses(points, v) = Cardinality(V)
  BY DEF Uses
<1> QED BY <1>1, <1>4, <1>5, <1>6, <1>7

\* Two maxima are used equally often.
LEMMA MaximaAgree ==
  ASSUME NEW T, NEW points \in Seq(T), NEW u \in MostUsed(points), NEW v \in MostUsed(points)
  PROVE  Uses(points, u) <= Uses(points, v)
BY DEF MostUsed

\* For every sequence of points, majority_unit has one outcome, whichever of the most used
\* units max_by_key returns: that of a strict majority, or none.
THEOREM BaseUnitUnique ==
  ASSUME NEW T, NEW points \in Seq(T),
         NEW r \in MajorityUnits(points), NEW s \in MajorityUnits(points)
  PROVE  r = s
<1>1. CASE points = <<>>
  BY <1>1 DEF MajorityUnits
<1>2. CASE points # <<>>
  <2>1. PICK u \in MostUsed(points) : r = IF 2 * Uses(points, u) > Len(points) THEN {u} ELSE {}
    BY <1>2 DEF MajorityUnits
  <2>2. PICK v \in MostUsed(points) : s = IF 2 * Uses(points, v) > Len(points) THEN {v} ELSE {}
    BY <1>2 DEF MajorityUnits
  <2>3. CASE u = v
    BY <2>1, <2>2, <2>3
  <2>4. CASE u # v
    <3>1. /\ Uses(points, u) \in Nat /\ Uses(points, v) \in Nat /\ Len(points) \in Nat
          /\ Uses(points, u) + Uses(points, v) <= Len(points)
      BY <2>4, OneMajority
    <3>2. Uses(points, u) <= Uses(points, v) /\ Uses(points, v) <= Uses(points, u)
      BY MaximaAgree
    <3>3. ~(2 * Uses(points, u) > Len(points)) /\ ~(2 * Uses(points, v) > Len(points))
      BY <3>1, <3>2
    <3> QED BY <2>1, <2>2, <3>3
  <2> QED BY <2>3, <2>4
<1> QED BY <1>1, <1>2

\* The base fields of a pack hold from its first record on.
LEMMA BaseHolds ==
    ASSUME NEW n \in Nat, NEW i \in 1 .. n, NEW S, S # {}, NEW fields,
           \A j \in 1 .. n : fields[j] = IF j = 1 THEN S ELSE {}
    PROVE  Latest(fields, i) = S
<1> DEFINE given == {j \in 1 .. i : fields[j] # {}}
<1>1. given = {1} /\ fields[1] = S
  OBVIOUS
<1> HIDE DEF given
<1>2. (CHOOSE j \in given : \A k \in given : k <= j) = 1
  <2>1. \E j \in given : \A k \in given : k <= j
    BY <1>1
  <2> QED BY <1>1, <2>1
<1>3. Latest(fields, i) = IF given = {} THEN {} ELSE fields[CHOOSE j \in given : \A k \in given : k <= j]
  BY DEF Latest, given
<1> QED BY <1>1, <1>2, <1>3

\* What a receiver resolves of a pack is the batch: the name with the gateway's prefix, the
\* time and the unit of every point, and its mean or null; and a base unit is that of more than
\* half of the points (encode_senml, majority_unit).
THEOREM PackResolves ==
    ASSUME NEW batch, NEW P, batch.points \in Seq(P), NEW pack \in EncodeSenml(batch)
    PROVE  /\ Len(pack) = Len(batch.points)
           /\ Resolve(pack) =
                {[base |-> {<<BaseNamePrefix, batch.device>>}, name |-> batch.points[i].name,
                  time |-> {batch.windowStart}, unit |-> batch.points[i].unit,
                  value |-> JsonNumber(batch.points[i].mean)] : i \in DOMAIN batch.points}
           /\ BaseUnitIsMajority(pack)
<1> DEFINE points == batch.points
           n == Len(points)
<1>1. PICK bu \in MajorityUnits(points) : pack = EncodeWith(batch, bu)
  BY DEF EncodeSenml
<1>2. n \in Nat /\ DOMAIN points = 1 .. n
  OBVIOUS
<1>3. /\ DOMAIN pack = 1 .. n /\ Len(pack) = n
      /\ \A i \in 1 .. n :
            /\ pack[i].bn = (IF i = 1 THEN {<<BaseNamePrefix, batch.device>>} ELSE {})
            /\ pack[i].bt = (IF i = 1 THEN {batch.windowStart} ELSE {})
            /\ pack[i].bu = (IF i = 1 THEN bu ELSE {})
            /\ pack[i].n = points[i].name /\ pack[i].u = points[i].unit
            /\ pack[i].v = JsonNumber(points[i].mean)
  <2>1. pack = [i \in 1 .. n |->
            [bn |-> IF i = 1 THEN {<<BaseNamePrefix, batch.device>>} ELSE {},
             bt |-> IF i = 1 THEN {batch.windowStart} ELSE {},
             bu |-> IF i = 1 THEN bu ELSE {},
             n  |-> points[i].name, u |-> points[i].unit, v |-> JsonNumber(points[i].mean)]]
    BY <1>1, <1>2 DEF EncodeWith
  <2>2. DOMAIN pack = 1 .. n /\ Len(pack) = n
    BY <1>2, <2>1
  <2> QED BY <2>1, <2>2
<1>4. ASSUME NEW i \in 1 .. n
      PROVE  /\ Latest([k \in DOMAIN pack |-> pack[k].bn], i) = {<<BaseNamePrefix, batch.device>>}
             /\ Latest([k \in DOMAIN pack |-> pack[k].bt], i) = {batch.windowStart}
  <2> DEFINE names == [k \in DOMAIN pack |-> pack[k].bn]
             times == [k \in DOMAIN pack |-> pack[k].bt]
             base == {<<BaseNamePrefix, batch.device>>}
             time == {batch.windowStart}
  <2>1. /\ \A j \in 1 .. n : names[j] = IF j = 1 THEN base ELSE {}
        /\ \A j \in 1 .. n : times[j] = IF j = 1 THEN time ELSE {}
    BY <1>3
  <2>2. base # {} /\ time # {}
    OBVIOUS
  <2>3. n \in Nat
    BY <1>2
  <2> HIDE DEF names, times, base, time, n
  <2>4. Latest(names, i) = base
    BY <2>1, <2>2, <2>3, BaseHolds
  <2>5. Latest(times, i) = time
    BY <2>1, <2>2, <2>3, BaseHolds
  <2> QED BY <2>4, <2>5 DEF names, times, base, time
<1>5. Resolve(pack) =
        {[base |-> {<<BaseNamePrefix, batch.device>>}, name |-> points[i].name,
          time |-> {batch.windowStart}, unit |-> points[i].unit,
          value |-> JsonNumber(points[i].mean)] : i \in DOMAIN points}
  <2> DEFINE record(i) == [base |-> {<<BaseNamePrefix, batch.device>>}, name |-> points[i].name,
                           time |-> {batch.windowStart}, unit |-> points[i].unit,
                           value |-> JsonNumber(points[i].mean)]
             resolved(i) == [base |-> Latest([k \in DOMAIN pack |-> pack[k].bn], i),
                             name |-> pack[i].n,
                             time |-> Latest([k \in DOMAIN pack |-> pack[k].bt], i),
                             unit |-> pack[i].u, value |-> pack[i].v]
  <2>1. \A i \in 1 .. n : resolved(i) = record(i)
    BY <1>3, <1>4
  <2>2. Resolve(pack) = {resolved(i) : i \in DOMAIN pack}
    BY DEF Resolve
  <2> HIDE DEF record, resolved
  <2>3. {resolved(i) : i \in DOMAIN pack} = {record(i) : i \in DOMAIN points}
    BY <1>2, <1>3, <2>1
  <2> QED BY <2>2, <2>3 DEF record
<1>6. BaseUnitIsMajority(pack)
  <2> SUFFICES ASSUME NEW i \in DOMAIN pack, NEW u \in pack[i].bu
               PROVE  2 * Cardinality({k \in DOMAIN pack : pack[k].u = u}) > Len(pack)
    BY DEF BaseUnitIsMajority
  <2>1. u \in bu /\ points # <<>>
    BY <1>2, <1>3
  <2>2. 2 * Uses(points, u) > n
    BY <2>1 DEF MajorityUnits
  <2>3. {k \in DOMAIN pack : pack[k].u = u} = {k \in DOMAIN points : points[k].unit = u}
    BY <1>2, <1>3
  <2> QED BY <1>3, <2>2, <2>3 DEF Uses
<1> QED BY <1>3, <1>5, <1>6

-----------------------------------------------------------------------------
DataInv ==
    /\ running => at = "accepted"
    /\ connected \subseteq DOMAIN cfg.connections
    /\ connected # {} => running
    /\ faults = {}

\* Once the gateway runs, the walk is over.
LEMMA LoadStep == IInv /\ DataInv /\ LoadConfig => IInv' /\ DataInv'
<1> SUFFICES ASSUME IInv, DataInv, LoadConfig PROVE IInv' /\ DataInv'
  OBVIOUS
<1>1. Validate /\ UNCHANGED dataVars
  BY DEF LoadConfig
<1>2. at # "accepted" /\ cfg' = cfg
  BY <1>1 DEF Validate, LoadFails, Load, CheckGateway, CheckConnection, CheckBlock, NextDevice,
              NextConnection, EndConnections, CheckCa, Reject
<1>3. IInv'
  BY <1>1, ValidateInv
<1> QED BY <1>1, <1>2, <1>3 DEF DataInv, dataVars

\* The serial settings convert, and the port is not held by another connection.
LEMMA ConnectStep ==
  ASSUME IInv, DataInv, NEW c \in DOMAIN cfg.connections, Connect(c)
  PROVE  DataInv'
<1>1. at = "accepted" /\ c \notin connected
  BY DEF DataInv, Connect
<1>2. Opens(c)
  <2> SUFFICES ASSUME IsRtu(cfg.connections[c]) PROVE Opens(c)
    BY DEF Opens
  <2>1. /\ cfg.connections[c].transport.dataBits \in 5 .. 8
        /\ cfg.connections[c].transport.stopBits \in 1 .. 2
    BY <1>1, AcceptedConnections DEF HeadOk
  <2>2. ASSUME NEW x \in connected, IsRtu(cfg.connections[x])
        PROVE  cfg.connections[x].transport.port # cfg.connections[c].transport.port
    BY <1>1, <2>2, AcceptedConnections DEF DataInv
  <2> QED BY <2>1, <2>2 DEF Opens
<1>3. cfg.connections[c].pollInterval # 0
  BY <1>1, AcceptedConnections DEF HeadOk
<1>4. ConnectFaults(c) = {}
  BY <1>2, <1>3 DEF ConnectFaults
<1> QED BY <1>1, <1>4 DEF DataInv, Connect, configVars

\* main and run find nothing wrong with an accepted configuration.
LEMMA StartStep == IInv /\ DataInv /\ Start => DataInv'
<1> SUFFICES ASSUME IInv, DataInv, Start PROVE DataInv'
  OBVIOUS
<1>1. at = "accepted"
  BY DEF Start
<1>2. \A e \in ValidationErrors : ~Flaw(cfg, e)
  BY <1>1, InvVerdict DEF VerdictIsRight
<1>3. ~Flaw(cfg, "InvalidLogLevel") /\ ~Flaw(cfg, "InvalidQos") /\ ~Flaw(cfg, "ZeroInterval")
  BY <1>2 DEF ValidationErrors
<1>4. StartFaults(cfg) = {}
  BY <1>3 DEF StartFaults, Flaw
<1> QED BY <1>1, <1>4 DEF Start, DataInv, configVars

\* The reply to a read has as many registers as were asked for, and every point lies in it.
LEMMA ReadStep ==
  ASSUME IInv, DataInv, NEW c \in connected, NEW d \in DOMAIN cfg.connections[c].devices,
         NEW b \in DOMAIN cfg.connections[c].devices[d].blocks, ReadBlock(c, d, b)
  PROVE  DataInv'
<1> DEFINE block == cfg.connections[c].devices[d].blocks[b]
<1>1. at = "accepted" /\ c \in DOMAIN cfg.connections /\ cfg \in Config
  BY DEF DataInv, IInv, ConfigTypeOK
<1>2. block \in Block /\ BlockOk(block)
  BY <1>1, ConfigFacts, AcceptedBlocks
<1>3. block.count \in Nat /\ block.count <= ReadLimit
  <2>1. block.count \in U16
    BY <1>2 DEF Block
  <2>2. block.count \in Nat
    BY <2>1 DEF U16
  <2>3. block.count <= ReadLimit
    BY <1>2 DEF BlockOk
  <2> QED BY <2>2, <2>3
<1>4. ~(block.count > ReadLimit)
  BY <1>3 DEF ReadLimit
<1>5. ASSUME NEW held PROVE ~DecodePanics(block, Reply(block, held))
  <2> DEFINE Word(i) ==
                IF Occupants(block, i - 1) = {} THEN Filler
                ELSE LET k == CHOOSE x \in Occupants(block, i - 1) : TRUE
                         p == block.points[k]
                     IN Layout(p.type, held[k], block.wordOrder)[i - p.offset]
  <2>1. Len(Reply(block, held)) = block.count
    <3> HIDE DEF block
    <3>1. Reply(block, held) = [i \in 1 .. block.count |-> Word(i)]
      BY Zenon DEF Reply
    <3> HIDE DEF Word
    <3> QED BY <1>3, <3>1
  <2> QED BY <1>2, <2>1 DEF DecodePanics, BlockOk, Contained
<1>6. faults' = faults
  BY <1>4, <1>5 DEF ReadBlock
<1> QED BY <1>6 DEF DataInv, ReadBlock, configVars

\* The walk and what the gateway does with its verdict keep the invariant.
LEMMA InvAlways == Spec => [](IInv /\ DataInv)
<1>1. Init => IInv /\ DataInv
  BY ConfigInitInv DEF Init, DataInv
<1>2. IInv /\ DataInv /\ [Next]_vars => IInv' /\ DataInv'
  <2> SUFFICES ASSUME IInv, DataInv, [Next]_vars PROVE IInv' /\ DataInv'
    OBVIOUS
  <2>1. CASE LoadConfig
    BY <2>1, LoadStep
  <2>2. CASE Start
    BY <2>2, StartStep, WalkStutters DEF Start
  <2>3. CASE Flush
    BY <2>3, WalkStutters DEF Flush, DataInv, configVars
  <2>4. ASSUME NEW c \in DOMAIN cfg.connections, Connect(c) PROVE IInv' /\ DataInv'
    BY <2>4, ConnectStep, WalkStutters DEF Connect
  <2>5. ASSUME NEW c \in connected, NEW d \in DOMAIN cfg.connections[c].devices,
               NEW b \in DOMAIN cfg.connections[c].devices[d].blocks, ReadBlock(c, d, b)
        PROVE  IInv' /\ DataInv'
    BY <2>5, ReadStep, WalkStutters DEF ReadBlock
  <2>6. CASE UNCHANGED vars
    BY <2>6, WalkStutters DEF vars, dataVars, DataInv, configVars
  <2> QED BY <2>1, <2>2, <2>3, <2>4, <2>5, <2>6 DEF Next
<1> QED BY <1>1, <1>2, PTL DEF Spec

\* For every set of configurations, every register width and all values the devices may hold:
\* the verdict of validate is right, and an accepted configuration never leads to a panic at the
\* start, a serial port that cannot be opened, a request too long or an index past the reply.
THEOREM Accepted == Spec => []AcceptedIsSound
<1>1. IInv /\ DataInv => AcceptedIsSound
  BY InvVerdict DEF DataInv, AcceptedIsSound
<1> QED BY <1>1, InvAlways, PTL

-----------------------------------------------------------------------------
\* Two registers hold every number below the square of the radix.
LEMMA TwoWords ==
  ASSUME NEW n \in 0 .. Radix * Radix - 1
  PROVE  ((n \div Radix) * Radix) + (n % Radix) = n
<1>1. ASSUME NEW a \in Int, NEW b \in Nat \ {0} PROVE a \div b \in Int /\ ((a \div b) * b) + (a % b) = a
  BY <1>1
<1>2. Radix \in Nat \ {0} /\ n \in Int
  BY RegisterAssumption
<1> QED BY <1>1, <1>2

\* Two's complement: reading the residue as signed gives the number back.
LEMMA SignedBack ==
  ASSUME NEW m \in Nat \ {0, 1}, NEW n \in Int, -m <= 2 * n, 2 * n < m
  PROVE  n % m \in 0 .. m - 1 /\ Signed(n % m, m) = n
<1>1. n % m = IF n < 0 THEN n + m ELSE n
  OBVIOUS
<1> QED BY <1>1 DEF Signed

\* The words of a wide value combine to it, in either word order.
LEMMA WordsCombine ==
  ASSUME NEW wide \in 0 .. Radix * Radix - 1, NEW order \in {"big_endian", "little_endian"},
         NEW words, NEW i \in Nat, NEW layout,
         layout = IF order = "big_endian" THEN <<wide \div Radix, wide % Radix>>
                                          ELSE <<wide % Radix, wide \div Radix>>,
         words[i] = layout[1], words[i + 1] = layout[2]
  PROVE  Combine(words, i, order) = wide
<1> DEFINE high == wide \div Radix
           low == wide % Radix
<1>1. high * Radix + low = wide
  BY TwoWords
<1> HIDE DEF high, low
<1>2. layout = IF order = "big_endian" THEN <<high, low>> ELSE <<low, high>>
  BY DEF high, low
<1>3. CASE order = "big_endian"
  BY <1>1, <1>2, <1>3 DEF Combine
<1>4. CASE order # "big_endian"
  BY <1>1, <1>2, <1>4 DEF Combine
<1> QED BY <1>3, <1>4

\* The registers of a point, laid out in the order of its block, decode to what it holds.
LEMMA LayoutExtracts ==
  ASSUME NEW p \in Point, NEW v \in Holdable(p.type),
         NEW order \in {"big_endian", "little_endian"}, NEW words,
         \A x \in 1 .. WordCount(p.type) : words[p.offset + x] = Layout(p.type, v, order)[x]
  PROVE  ExtractRaw(words, p, order) = v
<1> DEFINE i == p.offset + 1
           L == Layout(p.type, v, order)
<1>1. p.offset \in Nat /\ p.type \in DataType /\ Radix \in Nat \ {0, 1}
      /\ Radix * Radix \in Nat \ {0, 1}
  BY RegisterAssumption DEF Point, U16
<1>2. WordCount(p.type) \in {1, 2}
  BY DEF WordCount
<1>3. words[i] = L[1] /\ (WordCount(p.type) = 2 => words[i + 1] = L[2])
  <2>1. 1 \in 1 .. WordCount(p.type) /\ (WordCount(p.type) = 2 => 2 \in 1 .. WordCount(p.type))
    BY <1>2
  <2>2. p.offset + 2 = i + 1
    BY <1>1
  <2> HIDE DEF i
  <2>3. words[p.offset + 1] = L[1] /\ (WordCount(p.type) = 2 => words[p.offset + 2] = L[2])
    BY <2>1
  <2> QED BY <2>2, <2>3 DEF i
<1>4. ASSUME NEW n \in Int, v = Num(n), WordCount(p.type) = 1 PROVE words[i] = n % Radix
  <2>1. HighFirst(p.type, v) = <<n % Radix>>
    BY <1>1, <1>4 DEF HighFirst, Num
  <2>2. L[1] = n % Radix
    BY <2>1 DEF Layout, Reverse
  <2> QED BY <1>3, <2>2
<1>5. ASSUME NEW wide \in 0 .. Radix * Radix - 1, WordCount(p.type) = 2,
             HighFirst(p.type, v) = <<wide \div Radix, wide % Radix>>
      PROVE  Combine(words, i, order) = wide
  <2>1. L = IF order = "big_endian" THEN <<wide \div Radix, wide % Radix>>
                                    ELSE <<wide % Radix, wide \div Radix>>
    BY <1>5 DEF Layout, Reverse
  <2> HIDE DEF L
  <2>2. i \in Nat
    BY <1>1
  <2> QED BY <1>3, <1>5, <2>1, <2>2, WordsCombine
<1>6. CASE p.type = "u16"
  <2>1. PICK n \in 0 .. Radix - 1 : v = Num(n)
    BY <1>6 DEF Holdable
  <2>2. n % Radix = n
    BY <1>1
  <2>3. words[i] = n
    BY <1>4, <1>6, <2>1, <2>2 DEF WordCount
  <2> QED BY <1>6, <2>1, <2>3 DEF ExtractRaw
<1>7. CASE p.type = "i16"
  <2>1. PICK n \in Int : v = Num(n) /\ -Radix <= 2 * n /\ 2 * n < Radix
    BY <1>7 DEF Holdable, SignedRange
  <2>2. words[i] = n % Radix
    BY <1>4, <1>7, <2>1 DEF WordCount
  <2>3. Signed(n % Radix, Radix) = n
    BY <1>1, <2>1, SignedBack
  <2> QED BY <1>7, <2>1, <2>2, <2>3 DEF ExtractRaw
<1>8. CASE p.type = "u32"
  <2>1. PICK n \in 0 .. Radix * Radix - 1 : v = Num(n)
    BY <1>8 DEF Holdable
  <2>2. n % (Radix * Radix) = n
    BY <1>1
  <2>3. HighFirst(p.type, v) = <<n \div Radix, n % Radix>>
    BY <1>8, <2>1, <2>2 DEF HighFirst, WordCount, Num
  <2>4. Combine(words, i, order) = n
    BY <1>5, <1>8, <2>3 DEF WordCount
  <2> QED BY <1>8, <2>1, <2>4 DEF ExtractRaw
<1>9. CASE p.type = "i32"
  <2> DEFINE m == Radix * Radix
  <2>1. PICK n \in Int : v = Num(n) /\ -m <= 2 * n /\ 2 * n < m
    <3>1. m \in Nat
      BY <1>1
    <3> HIDE DEF m
    <3>2. SignedRange(m) \subseteq {n \in Int : -m <= 2 * n /\ 2 * n < m}
      BY <3>1 DEF SignedRange
    <3>3. v \in {Num(n) : n \in SignedRange(m)}
      BY <1>9 DEF Holdable, m
    <3> QED BY <3>2, <3>3
  <2>2. n % m \in 0 .. m - 1 /\ Signed(n % m, m) = n
    <3>1. m \in Nat \ {0, 1}
      BY <1>1
    <3> HIDE DEF m
    <3> QED BY <2>1, <3>1, SignedBack
  <2>3. HighFirst(p.type, v) = <<(n % m) \div Radix, (n % m) % Radix>>
    BY <1>9, <2>1 DEF HighFirst, WordCount, Num
  <2>4. Combine(words, i, order) = n % m
    BY <1>5, <1>9, <2>2, <2>3 DEF WordCount
  <2> QED BY <1>9, <2>1, <2>2, <2>4 DEF ExtractRaw
<1>10. CASE p.type = "f32"
  <2> DEFINE wide == CHOOSE n \in DOMAIN Float32 : Float32[n] = v
  <2>1. wide \in 0 .. Radix * Radix - 1 /\ Float32[wide] = v
    <3>1. \E n \in DOMAIN Float32 : Float32[n] = v
      BY <1>10, RegisterAssumption DEF Holdable
    <3> QED BY <3>1, RegisterAssumption
  <2>2. HighFirst(p.type, v) = <<wide \div Radix, wide % Radix>>
    BY <1>10 DEF HighFirst, WordCount
  <2> HIDE DEF wide
  <2>3. Combine(words, i, order) = wide
    BY <1>5, <1>10, <2>1, <2>2 DEF WordCount
  <2> QED BY <1>10, <2>1, <2>3 DEF ExtractRaw
<1> QED BY <1>1, <1>6, <1>7, <1>8, <1>9, <1>10 DEF DataType


\* In the reply to an accepted block the registers of a point hold that point, and no other.
LEMMA ReplyHolds ==
  ASSUME NEW block \in Block, BlockOk(block), NEW held, NEW k \in DOMAIN block.points,
         NEW r \in Registers(block.points[k]), NEW i, i = r + 1
  PROVE  Reply(block, held)[i] =
            Layout(block.points[k].type, held[k], block.wordOrder)[i - block.points[k].offset]
<1>1. r \in 0 .. block.count - 1 /\ block.count \in Nat
  BY DEF BlockOk, Contained, Block, U16
<1>2. i \in 1 .. block.count /\ i - 1 = r
  BY <1>1
<1>3. Occupants(block, r) = {k}
  BY DEF Occupants, BlockOk, Disjoint
<1> DEFINE Occupant(n) == CHOOSE x \in Occupants(block, n) : TRUE
<1>4. Occupant(r) = k /\ Occupants(block, r) # {}
  BY <1>3
<1>5. Reply(block, held) = [j \in 1 .. block.count |->
        IF Occupants(block, j - 1) = {} THEN Filler
        ELSE Layout(block.points[Occupant(j - 1)].type, held[Occupant(j - 1)], block.wordOrder)
                [j - block.points[Occupant(j - 1)].offset]]
  BY DEF Reply
<1> HIDE DEF Occupant
<1> QED BY <1>2, <1>4, <1>5

\* A point of an accepted block is decoded from the reply as the configuration says.
LEMMA DecodesPoint ==
  ASSUME NEW block \in Block, BlockOk(block), NEW dev, NEW held,
         NEW k \in DOMAIN block.points, held[k] \in Holdable(block.points[k].type)
  PROVE  /\ Decode(block, Reply(block, held))[k].value = Meant(dev, block, held)[k].value
         /\ <<dev.id, Decode(block, Reply(block, held))[k].name>> = Meant(dev, block, held)[k].id
<1> DEFINE p == block.points[k]
           words == Reply(block, held)
<1>1. p \in Point /\ block.wordOrder \in {"big_endian", "little_endian"}
  BY DEF Block
<1>2. ASSUME NEW x \in 1 .. WordCount(p.type)
      PROVE  words[p.offset + x] = Layout(p.type, held[k], block.wordOrder)[x]
  <2>1. /\ p.offset + x - 1 \in Registers(p) /\ p.offset + x = (p.offset + x - 1) + 1
        /\ (p.offset + x) - p.offset = x
    <3>1. p.offset \in Nat
      BY <1>1 DEF Point, U16
    <3>2. WordCount(p.type) \in {1, 2}
      BY DEF WordCount
    <3> HIDE DEF p
    <3> QED BY <3>1, <3>2 DEF Registers
  <2>2. ASSUME NEW r \in Registers(p), NEW i, i = r + 1
        PROVE  words[i] = Layout(p.type, held[k], block.wordOrder)[i - p.offset]
    BY <2>2, ReplyHolds
  <2> QED BY <2>1, <2>2
<1>3. ExtractRaw(words, p, block.wordOrder) = held[k]
  <2> HIDE DEF words, p
  <2>1. held[k] \in Holdable(p.type)
    BY DEF p
  <2> QED BY <1>1, <1>2, <2>1, LayoutExtracts
<1> HIDE DEF words
<1>4. Decode(block, words)[k] = [name |-> p.name, value |-> Scaled(held[k], p)]
  BY <1>3 DEF Decode
<1>5. /\ Meant(dev, block, held)[k].id = <<dev.id, p.name>>
      /\ Meant(dev, block, held)[k].value = Scaled(held[k], p)
  BY DEF Meant, Id, Scaled
<1> QED BY <1>4, <1>5 DEF words

\* Whatever block of an accepted configuration is read, and whatever its points hold, the
\* readings are what the configuration says they mean: value, scale, sign and id.
DecodesWhatIsHeld ==
    at = "accepted" =>
        \A block \in AllBlocks(cfg), dev \in Device :
            \A held \in [DOMAIN block.points -> UNION {Holdable(t) : t \in DataType}] :
                (\A k \in DOMAIN block.points : held[k] \in Holdable(block.points[k].type)) =>
                    \A k \in DOMAIN block.points :
                        LET reading == Decode(block, Reply(block, held))[k]
                            meant == Meant(dev, block, held)[k]
                        IN  reading.value = meant.value /\ <<dev.id, reading.name>> = meant.id

\* Decoding loses nothing (decode): for every radix, type and word order the reading of a point
\* is what the device holds there, because validation lets through only blocks whose points lie
\* in the reply and apart.
THEOREM DecodingTells == Spec => []DecodesWhatIsHeld
<1>1. IInv => DecodesWhatIsHeld
  <2> SUFFICES ASSUME IInv, at = "accepted", NEW block \in AllBlocks(cfg)
               PROVE  block \in Block /\ BlockOk(block)
    BY DecodesPoint DEF DecodesWhatIsHeld
  <2>1. cfg \in Config
    BY DEF IInv, ConfigTypeOK
  <2> QED BY <2>1, BlockHasPlace, ConfigFacts, AcceptedBlocks
<1> QED BY <1>1, InvAlways, PTL

-----------------------------------------------------------------------------
\* A bounded set of natural numbers has a greatest element.
LEMMA GreatestElement ==
  ASSUME NEW n \in Nat, NEW T, T \subseteq 0 .. n, T # {}
  PROVE  \E x \in T : \A y \in T : y <= x
<1> DEFINE Bounds == {b \in Nat : \A y \in T : y <= b}
<1>1. PICK b \in Bounds : \A c \in Bounds : b <= c
  <2>1. n \in Bounds /\ Bounds \subseteq Nat
    OBVIOUS
  <2> HIDE DEF Bounds
  <2> QED BY <2>1, LeastElement
<1>2. b \in T
  <2> SUFFICES ASSUME b \notin T PROVE FALSE
    OBVIOUS
  <2>1. \A y \in T : y \in Nat /\ y < b
    BY <1>1
  <2>2. b - 1 \in Bounds
    <3>1. b \in Nat
      BY <1>1
    <3>2. \A y \in T : y <= b - 1
      BY <2>1, <3>1
    <3>3. PICK y \in T : y \in Nat /\ y < b
      BY <2>1
    <3>4. b - 1 \in Nat
      BY <3>1, <3>3
    <3> QED BY <3>2, <3>4
  <2> QED BY <1>1, <2>2
<1> QED BY <1>1, <1>2

\* The functions that start with a and take each further value from the one before.
Recursions(n, S, a, G) == {g \in [0 .. n -> S] : g[0] = a /\ \A k \in 1 .. n : g[k] = G[k][g[k - 1]]}

\* There is one.
LEMMA RecursionExists ==
  ASSUME NEW n \in Nat, NEW S, NEW a \in S, NEW G \in [1 .. n -> [S -> S]]
  PROVE  Recursions(n, S, a, G) # {}
<1> DEFINE Good(i, g) == g[0] = a /\ \A k \in 1 .. i : g[k] = G[k][g[k - 1]]
           Bad == {i \in 0 .. n : ~ \E g \in [0 .. i -> S] : Good(i, g)}
<1> SUFFICES ASSUME Bad # {} PROVE FALSE
  <2>1. Bad = {} => \E g \in [0 .. n -> S] : Good(n, g)
    <3> HIDE DEF Good
    <3> QED OBVIOUS
  <2> QED BY <2>1 DEF Recursions
<1>1. PICK i \in Bad : \A j \in Bad : i <= j
  <2>1. Bad \subseteq Nat
    OBVIOUS
  <2> HIDE DEF Bad
  <2> QED BY <2>1, LeastElement
<1>2. i \in 0 .. n /\ ~ \E g \in [0 .. i -> S] : Good(i, g)
  BY <1>1
<1>3. i # 0
  <2> DEFINE one == [k \in 0 .. 0 |-> a]
  <2>1. one \in [0 .. 0 -> S] /\ Good(0, one)
    OBVIOUS
  <2>2. 0 \notin Bad
    BY <2>1
  <2> QED BY <1>1, <2>2
<1>4. PICK g \in [0 .. i - 1 -> S] : Good(i - 1, g)
  <2>1. i - 1 \in 0 .. n /\ i - 1 \notin Bad
    <3> HIDE DEF Bad
    <3> QED BY <1>1, <1>2, <1>3
  <2> HIDE DEF Good
  <2> QED BY <2>1
<1> DEFINE h == [k \in 0 .. i |-> IF k = i THEN G[i][g[i - 1]] ELSE g[k]]
<1>5. h \in [0 .. i -> S]
  BY <1>2, <1>3
<1>6. Good(i, h)
  <2>1. h[0] = a
    BY <1>2, <1>3, <1>4
  <2>2. ASSUME NEW k \in 1 .. i PROVE h[k] = G[k][h[k - 1]]
    <3>1. k - 1 \in 0 .. i /\ k - 1 # i /\ h[k - 1] = g[k - 1]
      BY <1>2
    <3>2. CASE k = i
      BY <1>2, <3>1, <3>2
    <3>3. CASE k # i
      <4>1. h[k] = g[k] /\ k \in 1 .. i - 1
        BY <1>2, <3>3
      <4> HIDE DEF h
      <4> QED BY <1>4, <3>1, <4>1
    <3> QED BY <3>2, <3>3
  <2> QED BY <2>1, <2>2
<1> HIDE DEF Good, h
<1> QED BY <1>2, <1>5, <1>6

\* What starts with a and goes on as G says is one of them.
LEMMA RecursionFollowed ==
  ASSUME NEW n \in Nat, NEW S, NEW a \in S, NEW G \in [1 .. n -> [S -> S]],
         NEW f, f = [k \in 0 .. n |-> f[k]], f[0] = a,
         \A k \in 1 .. n : f[k - 1] \in S => f[k] = G[k][f[k - 1]]
  PROVE  f \in Recursions(n, S, a, G)
<1> DEFINE Bad == {k \in 0 .. n : f[k] \notin S}
<1>1. Bad = {}
  <2> SUFFICES ASSUME Bad # {} PROVE FALSE
    OBVIOUS
  <2>1. PICK k \in Bad : \A j \in Bad : k <= j
    <3>1. Bad \subseteq Nat
      OBVIOUS
    <3> HIDE DEF Bad
    <3> QED BY <3>1, LeastElement
  <2>2. k \in 1 .. n /\ f[k] \notin S
    BY <2>1
  <2>3. k - 1 \in 0 .. n /\ k - 1 \notin Bad
    <3> HIDE DEF Bad
    <3> QED BY <2>1, <2>2
  <2>4. G[k] \in [S -> S] /\ f[k - 1] \in S
    BY <2>2, <2>3
  <2> QED BY <2>2, <2>4
<1>2. \A k \in 0 .. n : f[k] \in S
  BY <1>1
<1>3. f \in [0 .. n -> S]
  BY <1>2
<1>4. ASSUME NEW k \in 1 .. n PROVE f[k] = G[k][f[k - 1]]
  <2>1. k - 1 \in 0 .. n
    OBVIOUS
  <2> QED BY <1>2, <2>1
<1> QED BY <1>3, <1>4 DEF Recursions

\* The arithmetic of readings stays among the values.
LEMMA ValueFacts ==
  /\ \A n \in Int : Num(n) \in Value
  /\ \A v \in Value, s \in Int : Times(v, s) \in Value
  /\ \A v \in Value : Magnitude(v) \in Value
  /\ \A v, w \in Value : Plus(v, w) \in Value
<1>1. ASSUME NEW v \in Value
      PROVE  \/ \E n \in Int : v = <<"num", n>>
             \/ v \in {<<"inf", 1>>, <<"inf", -1>>, <<"nan", 0>>}
  BY DEF Value, Inf, NaN
<1>2. /\ \A n \in Int : <<"num", n>> \in Value
      /\ <<"inf", 1>> \in Value /\ <<"inf", -1>> \in Value /\ <<"nan", 0>> \in Value
  BY DEF Value, Inf, NaN
<1>3. ASSUME NEW v \in Value, NEW s \in Int PROVE Times(v, s) \in Value
  <2>1. CASE \E n \in Int : v = <<"num", n>>
    BY <1>2, <2>1 DEF Times, IsNum, Num
  <2>2. CASE v \in {<<"inf", 1>>, <<"inf", -1>>, <<"nan", 0>>}
    BY <1>2, <2>2 DEF Times, IsNum, Num, Inf, NaN, Sign
  <2> QED BY <1>1, <2>1, <2>2
<1>4. ASSUME NEW v \in Value PROVE Magnitude(v) \in Value
  BY <1>1, <1>2 DEF Magnitude, NaN
<1>5. ASSUME NEW v \in Value, NEW w \in Value PROVE Plus(v, w) \in Value
  BY <1>1, <1>2 DEF Plus, IsNum, Num, NaN
<1> QED BY <1>2, <1>3, <1>4, <1>5 DEF Num

\* A device holds values, and a reading of them is one.
LEMMA HoldableFacts ==
  /\ \A t \in DataType : Samples[t] \subseteq Value
  /\ \A p \in Point, v \in Value : Scaled(v, p) \in Value
<1>1. ASSUME NEW t \in DataType PROVE Holdable(t) \subseteq Value
  <2>1. Radix \in Nat /\ Radix * Radix \in Nat /\ Float32 \in [0 .. Radix * Radix - 1 -> Value]
    BY RegisterAssumption
  <2>2. \A m \in Nat : SignedRange(m) \subseteq Int
    BY DEF SignedRange
  <2> QED BY <2>1, <2>2, ValueFacts DEF Holdable, DataType
<1>2. ASSUME NEW p \in Point, NEW v \in Value PROVE Scaled(v, p) \in Value
  BY ValueFacts DEF Scaled, Point
<1> QED BY <1>1, <1>2, SamplesAssumption

\* The places of a configuration, and what is there.
LEMMA PlaceFacts ==
  ASSUME NEW c \in Config
  PROVE  /\ \A x \in Places(c) :
              /\ x[1] \in 0 .. Len(c.connections)
              /\ x[2] \in 0 .. Len(c.connections[x[1]].devices)
              /\ x[3] \in 0 .. Len(c.connections[x[1]].devices[x[2]].blocks)
              /\ x[4] \in 0 .. Len(c.connections[x[1]].devices[x[2]].blocks[x[3]].points)
              /\ Len(c.connections) \in Nat
              /\ Len(c.connections[x[1]].devices) \in Nat
              /\ Len(c.connections[x[1]].devices[x[2]].blocks) \in Nat
              /\ Len(c.connections[x[1]].devices[x[2]].blocks[x[3]].points) \in Nat
              /\ PointAt(c, x) \in Point
              /\ IdAt(c, x) \in STRING \X STRING
         /\ \A i \in DOMAIN c.connections : \A d \in DOMAIN c.connections[i].devices :
              \A b \in DOMAIN c.connections[i].devices[d].blocks :
                \A k \in DOMAIN c.connections[i].devices[d].blocks[b].points :
                  /\ c.connections[i].devices[d].blocks[b].points[k] \in Point
                  /\ c.connections[i].devices[d] \in Device
                  /\ Id(c.connections[i].devices[d], c.connections[i].devices[d].blocks[b].points[k])
                        \in PointIds(c)
<1>1. ASSUME NEW i \in DOMAIN c.connections, NEW d \in DOMAIN c.connections[i].devices
      PROVE  c.connections[i].devices[d] \in Device
  <2>1. c.connections[i] \in Connection
    BY ConfigFacts
  <2> QED BY <2>1 DEF Connection
<1>2. ASSUME NEW i \in DOMAIN c.connections, NEW d \in DOMAIN c.connections[i].devices,
             NEW b \in DOMAIN c.connections[i].devices[d].blocks
      PROVE  /\ c.connections[i].devices[d].blocks[b].points \in Seq(Point)
             /\ \A k \in DOMAIN c.connections[i].devices[d].blocks[b].points :
                    c.connections[i].devices[d].blocks[b].points[k] \in Point
  <2>1. c.connections[i].devices[d].blocks[b] \in Block
    BY ConfigFacts
  <2> QED BY <2>1 DEF Block
<1>3. ASSUME NEW x \in Places(c)
      PROVE  \E i \in DOMAIN c.connections : \E d \in DOMAIN c.connections[i].devices :
                \E b \in DOMAIN c.connections[i].devices[d].blocks :
                  \E k \in DOMAIN c.connections[i].devices[d].blocks[b].points : x = <<i, d, b, k>>
  BY DEF Places
<1>4. ASSUME NEW i \in DOMAIN c.connections, NEW d \in DOMAIN c.connections[i].devices,
             NEW b \in DOMAIN c.connections[i].devices[d].blocks,
             NEW k \in DOMAIN c.connections[i].devices[d].blocks[b].points
      PROVE  <<i, d, b, k>> \in Places(c)
  BY DEF Places
<1>5. ASSUME NEW x \in Places(c)
      PROVE  /\ x[1] \in 0 .. Len(c.connections)
             /\ x[2] \in 0 .. Len(c.connections[x[1]].devices)
             /\ x[3] \in 0 .. Len(c.connections[x[1]].devices[x[2]].blocks)
             /\ x[4] \in 0 .. Len(c.connections[x[1]].devices[x[2]].blocks[x[3]].points)
             /\ Len(c.connections) \in Nat
             /\ Len(c.connections[x[1]].devices) \in Nat
             /\ Len(c.connections[x[1]].devices[x[2]].blocks) \in Nat
             /\ Len(c.connections[x[1]].devices[x[2]].blocks[x[3]].points) \in Nat
             /\ PointAt(c, x) \in Point
             /\ IdAt(c, x) \in STRING \X STRING
  <2>1. PICK i, d, b, k :
            /\ i \in DOMAIN c.connections /\ d \in DOMAIN c.connections[i].devices
            /\ b \in DOMAIN c.connections[i].devices[d].blocks
            /\ k \in DOMAIN c.connections[i].devices[d].blocks[b].points
            /\ x = <<i, d, b, k>>
    BY <1>3
  <2>2. /\ Len(c.connections) \in Nat /\ i \in 1 .. Len(c.connections)
        /\ Len(c.connections[i].devices) \in Nat /\ d \in 1 .. Len(c.connections[i].devices)
        /\ Len(c.connections[i].devices[d].blocks) \in Nat
        /\ b \in 1 .. Len(c.connections[i].devices[d].blocks)
    BY <2>1, ConfigFacts
  <2>3. /\ Len(c.connections[i].devices[d].blocks[b].points) \in Nat
        /\ k \in 1 .. Len(c.connections[i].devices[d].blocks[b].points)
    <3> DEFINE points == c.connections[i].devices[d].blocks[b].points
    <3>1. points \in Seq(Point) /\ k \in DOMAIN points
      BY <1>2, <2>1
    <3> HIDE DEF points
    <3>2. Len(points) \in Nat /\ k \in 1 .. Len(points)
      BY <3>1
    <3> QED BY <3>2 DEF points
  <2>4. PointAt(c, x) \in Point
    BY <1>2, <2>1 DEF PointAt
  <2>5. c.connections[i].devices[d] \in Device /\ x[1] = i /\ x[2] = d
    BY <1>1, <2>1
  <2>6. IdAt(c, x) \in STRING \X STRING
    BY <2>4, <2>5 DEF IdAt, Id, Device, Point
  <2>7. x[1] = i /\ x[2] = d /\ x[3] = b /\ x[4] = k
    BY <2>1
  <2>8. /\ i \in 0 .. Len(c.connections) /\ d \in 0 .. Len(c.connections[i].devices)
        /\ b \in 0 .. Len(c.connections[i].devices[d].blocks)
        /\ k \in 0 .. Len(c.connections[i].devices[d].blocks[b].points)
    BY <2>2, <2>3
  <2> QED BY <2>2, <2>3, <2>4, <2>6, <2>7, <2>8
<1>6. ASSUME NEW i \in DOMAIN c.connections, NEW d \in DOMAIN c.connections[i].devices,
             NEW b \in DOMAIN c.connections[i].devices[d].blocks,
             NEW k \in DOMAIN c.connections[i].devices[d].blocks[b].points
      PROVE  Id(c.connections[i].devices[d], c.connections[i].devices[d].blocks[b].points[k])
                \in PointIds(c)
  <2> DEFINE x == <<i, d, b, k>>
  <2>1. x \in Places(c) /\ x[1] = i /\ x[2] = d /\ x[3] = b /\ x[4] = k
    BY <1>4
  <2> HIDE DEF x
  <2>2. IdAt(c, x) = Id(c.connections[i].devices[d], c.connections[i].devices[d].blocks[b].points[k])
    BY <2>1 DEF IdAt, PointAt
  <2> QED BY <2>1, <2>2 DEF PointIds
<1> QED BY <1>1, <1>2, <1>5, <1>6

\* Of places whose j-th part is bounded there is one with the greatest such part.
LEMMA GreatestPart ==
  ASSUME NEW S, S # {}, NEW j, NEW n \in Nat, \A x \in S : x[j] \in 0 .. n
  PROVE  \E x \in S : \A y \in S : y[j] <= x[j]
<1> DEFINE T == {x[j] : x \in S}
<1>1. T \subseteq 0 .. n /\ T # {}
  OBVIOUS
<1>2. PICK m \in T : \A l \in T : l <= m
  <2> HIDE DEF T
  <2> QED BY <1>1, GreatestElement
<1>3. PICK x \in S : x[j] = m
  OBVIOUS
<1>4. \A y \in S : y[j] <= x[j]
  BY <1>2, <1>3
<1> QED BY <1>4

\* Of every set of places one is the last in the file.
LEMMA LastPlace ==
  ASSUME NEW c \in Config, NEW S, S \subseteq Places(c), S # {}
  PROVE  \E x \in S : \A y \in S : ~Precedes(x, y)
<1>1. PICK u \in S : \A y \in S : y[1] <= u[1]
  <2>1. Len(c.connections) \in Nat /\ \A x \in S : x[1] \in 0 .. Len(c.connections)
    BY PlaceFacts
  <2> QED BY <2>1, GreatestPart
<1> DEFINE S1 == {y \in S : y[1] = u[1]}
<1>2. PICK v \in S1 : \A y \in S1 : y[2] <= v[2]
  <2> DEFINE n == Len(c.connections[u[1]].devices)
  <2>1. n \in Nat /\ (\A x \in S1 : x[2] \in 0 .. n) /\ S1 # {}
    BY PlaceFacts
  <2> HIDE DEF n, S1
  <2> QED BY <2>1, GreatestPart
<1> DEFINE S2 == {y \in S1 : y[2] = v[2]}
<1>3. PICK w \in S2 : \A y \in S2 : y[3] <= w[3]
  <2> DEFINE n == Len(c.connections[u[1]].devices[v[2]].blocks)
  <2>1. n \in Nat /\ (\A x \in S2 : x[3] \in 0 .. n) /\ S2 # {}
    BY PlaceFacts
  <2> HIDE DEF n, S2
  <2> QED BY <2>1, GreatestPart
<1> DEFINE S3 == {y \in S2 : y[3] = w[3]}
<1>4. PICK x \in S3 : \A y \in S3 : y[4] <= x[4]
  <2> DEFINE n == Len(c.connections[u[1]].devices[v[2]].blocks[w[3]].points)
  <2>1. n \in Nat /\ (\A x \in S3 : x[4] \in 0 .. n) /\ S3 # {}
    BY PlaceFacts
  <2> HIDE DEF n, S3
  <2> QED BY <2>1, GreatestPart
<1>5. x \in S /\ x[1] = u[1] /\ x[2] = v[2] /\ x[3] = w[3]
  OBVIOUS
<1>6. ASSUME NEW y \in S, Precedes(x, y) PROVE FALSE
  <2>1. PICK n \in 1 .. 4 : x[n] < y[n] /\ \A m \in 1 .. n - 1 : x[m] = y[m]
    BY <1>6 DEF Precedes
  <2>2. \A z \in S : z[1] \in Int /\ z[2] \in Int /\ z[3] \in Int /\ z[4] \in Int
    <3> SUFFICES ASSUME NEW z \in Places(c)
                 PROVE  z[1] \in Int /\ z[2] \in Int /\ z[3] \in Int /\ z[4] \in Int
      OBVIOUS
    <3>1. \A m \in Nat : \A r \in 0 .. m : r \in Int
      OBVIOUS
    <3> QED BY <3>1, PlaceFacts
  <2>3. CASE n = 1
    BY <1>1, <1>5, <2>1, <2>2, <2>3
  <2>4. CASE n = 2
    <3>1. x[1] = y[1]
      BY <2>1, <2>4
    <3> QED BY <1>2, <1>5, <2>1, <2>2, <2>4, <3>1
  <2>5. CASE n = 3
    <3>1. x[1] = y[1] /\ x[2] = y[2]
      BY <2>1, <2>5
    <3> QED BY <1>3, <1>5, <2>1, <2>2, <2>5, <3>1
  <2>6. CASE n = 4
    <3>1. x[1] = y[1] /\ x[2] = y[2] /\ x[3] = y[3]
      BY <2>1, <2>6
    <3> QED BY <1>4, <1>5, <2>1, <2>2, <2>6, <3>1
  <2> QED BY <2>3, <2>4, <2>5, <2>6
<1> QED BY <1>5, <1>6

\* What the points of a configuration are accumulated in.
Accumulators(ids) == [ids -> [sum : Value, count : Nat, unit : STRING]]

\* The accumulators start empty, each with the unit of the last point of its id.
LEMMA InitFacts ==
  ASSUME NEW c \in Config
  PROVE  /\ InitFromConfig(c) \in Accumulators(PointIds(c))
         /\ \A id \in PointIds(c) :
                InitFromConfig(c)[id].sum = Num(0) /\ InitFromConfig(c)[id].count = 0
<1>1. ASSUME NEW id \in PointIds(c) PROVE UnitOf(c, id) \in STRING
  <2> DEFINE same == {x \in Places(c) : IdAt(c, x) = id}
             final(x) == \A y \in same : ~Precedes(x, y)
  <2>1. same # {} /\ same \subseteq Places(c)
    BY DEF PointIds
  <2>2. \E x \in same : final(x)
    <3> HIDE DEF same
    <3> QED BY <2>1, LastPlace
  <2>3. (CHOOSE x \in same : final(x)) \in same
    <3> HIDE DEF same, final
    <3> QED BY <2>2
  <2>4. PICK x \in same : UnitOf(c, id) = PointAt(c, x).unit
    BY <2>3 DEF UnitOf
  <2>5. PointAt(c, x) \in Point
    BY <2>4, PlaceFacts
  <2> QED BY <2>4, <2>5 DEF Point
<1>2. Num(0) \in Value
  BY ValueFacts
<1> QED BY <1>1, <1>2 DEF InitFromConfig, Accumulators

-----------------------------------------------------------------------------
\* The sum of an id's readings in one more step.
NextSum(readings, id, sum, i) ==
    IF i \in Of(readings, id) THEN Plus(sum, readings[i].value) ELSE sum

\* The partial sums of an id's readings.
PartialSums(readings, id) ==
    {sum \in [0 .. Len(readings) -> Value] :
        /\ sum[0] = Num(0)
        /\ \A i \in 1 .. Len(readings) : sum[i] = NextSum(readings, id, sum[i - 1], i)}

\* SumOf is the last of them.
LEMMA SumFacts ==
  ASSUME NEW readings \in Readings, NEW id
  PROVE  \E sum \in PartialSums(readings, id) : SumOf(readings, id) = sum[Len(readings)]
<1> DEFINE n == Len(readings)
           G == [i \in 1 .. n |-> [v \in Value |-> NextSum(readings, id, v, i)]]
           Body(g) == [i \in 0 .. n |->
                          IF i = 0 THEN Num(0)
                          ELSE IF i \in Of(readings, id) THEN Plus(g[i - 1], readings[i].value)
                          ELSE g[i - 1]]
           sum == CHOOSE g : g = Body(g)
<1>1. n \in Nat /\ Num(0) \in Value /\ \A i \in 1 .. n : readings[i].value \in Value
  <2>1. n \in Nat /\ \A i \in 1 .. n : readings[i] \in [id : STRING \X STRING, value : Value]
    <3> DEFINE R == [id : STRING \X STRING, value : Value]
    <3>1. readings \in Seq(R)
      BY DEF Readings
    <3> HIDE DEF R
    <3>2. n \in Nat /\ \A i \in 1 .. n : readings[i] \in R
      BY <3>1
    <3> QED BY <3>2 DEF R
  <2>2. Num(0) \in Value
    BY ValueFacts
  <2> QED BY <2>1, <2>2
<1>2. G \in [1 .. n -> [Value -> Value]]
  <2>1. ASSUME NEW i \in 1 .. n, NEW v \in Value PROVE NextSum(readings, id, v, i) \in Value
    <3>1. readings[i].value \in Value
      BY <1>1
    <3> QED BY <3>1, ValueFacts DEF NextSum
  <2> HIDE DEF n
  <2> QED BY <2>1
<1>3. PICK g \in Recursions(n, Value, Num(0), G) : TRUE
  <2> HIDE DEF G, n
  <2> QED BY <1>1, <1>2, RecursionExists
<1>4. ASSUME NEW i \in 1 .. n PROVE g[i] = NextSum(readings, id, g[i - 1], i)
  <2>1. g[i - 1] \in Value
    <3>1. i - 1 \in 0 .. n
      BY <1>1
    <3> HIDE DEF G, n
    <3> QED BY <1>3, <3>1 DEF Recursions
  <2>2. G[i][g[i - 1]] = NextSum(readings, id, g[i - 1], i)
    BY <2>1
  <2> HIDE DEF G
  <2> QED BY <1>3, <2>2 DEF Recursions
<1>5. g = Body(g)
  <2>1. g \in [0 .. n -> Value] /\ g[0] = Num(0)
    <3> HIDE DEF G
    <3> QED BY <1>3 DEF Recursions
  <2>2. \A i \in 0 .. n : Body(g)[i] = IF i = 0 THEN Num(0) ELSE NextSum(readings, id, g[i - 1], i)
    BY DEF NextSum
  <2>3. DOMAIN Body(g) = 0 .. n /\ Body(g) = [i \in 0 .. n |-> Body(g)[i]]
    OBVIOUS
  <2>4. \A i \in 0 .. n : Body(g)[i] = g[i]
    BY <1>1, <1>4, <2>1, <2>2
  <2> HIDE DEF Body
  <2> QED BY <2>1, <2>3, <2>4
<1>6. sum = Body(sum)
  <2> HIDE DEF Body
  <2> QED BY <1>5
<1> HIDE DEF sum
<1>7. /\ sum = [i \in 0 .. n |-> sum[i]] /\ sum[0] = Num(0)
      /\ \A i \in 1 .. n : sum[i] = NextSum(readings, id, sum[i - 1], i)
  <2>1. \A i \in 0 .. n : Body(sum)[i] =
            IF i = 0 THEN Num(0) ELSE NextSum(readings, id, sum[i - 1], i)
    BY DEF NextSum
  <2>2. Body(sum) = [i \in 0 .. n |-> Body(sum)[i]]
    OBVIOUS
  <2> HIDE DEF Body
  <2> QED BY <1>1, <1>6, <2>1, <2>2
<1>8. ASSUME NEW i \in 1 .. n, sum[i - 1] \in Value PROVE sum[i] = G[i][sum[i - 1]]
  BY <1>7, <1>8
<1>9. sum \in [0 .. n -> Value]
  <2> HIDE DEF G, n
  <2>1. sum \in Recursions(n, Value, Num(0), G)
    BY <1>1, <1>2, <1>7, <1>8, RecursionFollowed
  <2> QED BY <2>1 DEF Recursions
<1>10. SumOf(readings, id) = sum[n]
  BY DEF SumOf, sum
<1>11. sum \in PartialSums(readings, id)
  BY <1>7, <1>9 DEF PartialSums
<1> QED BY <1>10, <1>11

\* What the record of a value does to the accumulators.
LEMMA RecordFacts ==
  ASSUME NEW ids, NEW a \in Accumulators(ids), NEW id \in ids, NEW v \in Value
  PROVE  /\ Record(a, id, v) \in Accumulators(ids)
         /\ Record(a, id, v)[id].sum = Plus(a[id].sum, v)
         /\ Record(a, id, v)[id].count = a[id].count + 1
         /\ \A x \in ids : x # id => Record(a, id, v)[x] = a[x]
         /\ \A x \in ids : Record(a, id, v)[x].unit = a[x].unit
<1>1. /\ a[id].sum \in Value /\ a[id].count \in Nat
      /\ a \in [ids -> [sum : Value, count : Nat, unit : STRING]]
  BY DEF Accumulators
<1>2. Plus(a[id].sum, v) \in Value /\ a[id].count + 1 \in Nat
  BY <1>1, ValueFacts
<1> DEFINE r == [a[id] EXCEPT !.sum = Plus(a[id].sum, v), !.count = a[id].count + 1]
<1>3. Record(a, id, v) = [a EXCEPT ![id] = r]
  BY <1>1 DEF Record
<1>4. /\ r \in [sum : Value, count : Nat, unit : STRING] /\ r.sum = Plus(a[id].sum, v)
      /\ r.count = a[id].count + 1 /\ r.unit = a[id].unit
  <2>1. a[id] \in [sum : Value, count : Nat, unit : STRING]
    BY <1>1
  <2> QED BY <1>2, <2>1
<1> HIDE DEF r
<1> QED BY <1>1, <1>3, <1>4 DEF Accumulators

\* All readings of m are of these ids.
IdsIn(m, ids) == \A k \in DOMAIN m : m[k].id \in ids

\* What becomes of accumulators as the readings of m are recorded.
Steps(ids, m) ==
    {after \in [0 .. Len(m) -> Accumulators(ids)] :
        \A k \in 1 .. Len(m) : after[k] = Record(after[k - 1], m[k].id, m[k].value)}

\* The decoded readings of a device are those of m.
Tells(dev, readings, m) ==
    /\ Len(readings) = Len(m)
    /\ \A k \in 1 .. Len(m) :
         <<dev.id, readings[k].name>> = m[k].id /\ readings[k].value = m[k].value

\* A block's readings are recorded one after the other.
LEMMA RecordAllFacts ==
  ASSUME NEW ids, NEW a \in Accumulators(ids), NEW dev, NEW block, NEW words,
         NEW m \in Readings, IdsIn(m, ids), Tells(dev, Decode(block, words), m)
  PROVE  \E after \in Steps(ids, m) :
            after[0] = a /\ RecordAll(a, dev, block, words) = after[Len(m)]
<1> DEFINE readings == Decode(block, words)
<1>0. /\ Len(readings) \in Nat /\ Len(readings) = Len(m)
      /\ \A k \in 1 .. Len(readings) :
            /\ <<dev.id, readings[k].name>> \in ids /\ readings[k].value \in Value
            /\ <<dev.id, readings[k].name>> = m[k].id /\ readings[k].value = m[k].value
  <2> DEFINE R == [id : STRING \X STRING, value : Value]
  <2>1. m \in Seq(R)
    BY DEF Readings
  <2>2. Len(m) \in Nat /\ \A k \in 1 .. Len(m) : m[k] \in R /\ m[k].id \in ids
    <3> HIDE DEF R
    <3> QED BY <2>1 DEF IdsIn
  <2>3. \A k \in 1 .. Len(m) : m[k].value \in Value
    BY <2>2
  <2> HIDE DEF readings, R
  <2>4. Tells(dev, readings, m)
    BY DEF readings
  <2> QED BY <2>2, <2>3, <2>4 DEF Tells
<1> HIDE DEF readings
<1> DEFINE n == Len(readings)
           S == Accumulators(ids)
           Rec(k, x) == Record(x, <<dev.id, readings[k].name>>, readings[k].value)
           G == [k \in 1 .. n |-> [x \in S |-> Rec(k, x)]]
           Body(g) == [k \in 0 .. n |-> IF k = 0 THEN a ELSE Rec(k, g[k - 1])]
           after == CHOOSE g : g = Body(g)
<1>1. n \in Nat /\ a \in S
  BY <1>0
<1>2. G \in [1 .. n -> [S -> S]]
  <2>1. ASSUME NEW k \in 1 .. n, NEW x \in S PROVE Rec(k, x) \in S
    BY <1>0, RecordFacts
  <2> HIDE DEF n, Rec, S
  <2> QED BY <2>1
<1>3. PICK g \in Recursions(n, S, a, G) : TRUE
  <2> HIDE DEF G, n, S
  <2> QED BY <1>1, <1>2, RecursionExists
<1>4. g \in [0 .. n -> S] /\ g[0] = a /\ \A k \in 1 .. n : g[k] = Rec(k, g[k - 1])
  <2>1. g \in [0 .. n -> S] /\ g[0] = a /\ \A k \in 1 .. n : g[k] = G[k][g[k - 1]]
    <3> HIDE DEF G
    <3> QED BY <1>3 DEF Recursions
  <2>2. ASSUME NEW k \in 1 .. n PROVE G[k][g[k - 1]] = Rec(k, g[k - 1])
    <3>1. k - 1 \in 0 .. n
      BY <1>1
    <3>2. g[k - 1] \in S
      BY <2>1, <3>1
    <3> HIDE DEF Rec, S, n
    <3> QED BY <3>2
  <2> HIDE DEF G, Rec
  <2> QED BY <2>1, <2>2
<1>5. g = Body(g)
  <2>1. Body(g) = [i \in 0 .. n |-> Body(g)[i]]
    OBVIOUS
  <2>2. ASSUME NEW k \in 0 .. n PROVE Body(g)[k] = g[k]
    <3> HIDE DEF Rec
    <3> QED BY <1>1, <1>4
  <2> HIDE DEF Body
  <2> QED BY <1>4, <2>1, <2>2
<1>6. after = Body(after)
  <2> HIDE DEF Body
  <2> QED BY <1>5
<1> HIDE DEF after
<1>7. /\ after = [k \in 0 .. n |-> after[k]] /\ after[0] = a
      /\ \A k \in 1 .. n : after[k] = Rec(k, after[k - 1])
  <2> HIDE DEF Rec
  <2>1. \A k \in 0 .. n : Body(after)[k] = IF k = 0 THEN a ELSE Rec(k, after[k - 1])
    OBVIOUS
  <2>2. Body(after) = [k \in 0 .. n |-> Body(after)[k]]
    OBVIOUS
  <2> HIDE DEF Body
  <2> QED BY <1>1, <1>6, <2>1, <2>2
<1>8. ASSUME NEW k \in 1 .. n, after[k - 1] \in S PROVE after[k] = G[k][after[k - 1]]
  <2> HIDE DEF Rec
  <2> QED BY <1>7, <1>8
<1>9. after \in [0 .. n -> S]
  <2> HIDE DEF G, n, S
  <2>1. after \in Recursions(n, S, a, G)
    BY <1>1, <1>2, <1>7, <1>8, RecursionFollowed
  <2> QED BY <2>1 DEF Recursions
<1>10. RecordAll(a, dev, block, words) = after[n]
  BY DEF RecordAll, after, readings
<1>11. after \in Steps(ids, m)
  <2>1. \A k \in 1 .. Len(m) : after[k] = Record(after[k - 1], m[k].id, m[k].value)
    BY <1>0, <1>7
  <2> QED BY <1>0, <1>9, <2>1 DEF Steps
<1> QED BY <1>0, <1>7, <1>10, <1>11

\* Readings put one after the other.
LEMMA ConcatFacts ==
  ASSUME NEW s \in Readings, NEW t \in Readings
  PROVE  /\ s \o t \in Readings
         /\ Len(s) \in Nat /\ Len(t) \in Nat /\ Len(s \o t) = Len(s) + Len(t)
         /\ DOMAIN s = 1 .. Len(s) /\ DOMAIN t = 1 .. Len(t)
         /\ DOMAIN (s \o t) = 1 .. Len(s) + Len(t)
         /\ \A i \in 1 .. Len(s) : (s \o t)[i] = s[i]
         /\ \A i \in 1 .. Len(t) : (s \o t)[Len(s) + i] = t[i]
<1> DEFINE R == [id : STRING \X STRING, value : Value]
<1>1. s \in Seq(R) /\ t \in Seq(R)
  BY DEF Readings
<1> HIDE DEF R
<1>2. s \o t \in Seq(R)
  BY <1>1
<1>3. /\ Len(s) \in Nat /\ Len(t) \in Nat /\ Len(s \o t) = Len(s) + Len(t)
      /\ DOMAIN s = 1 .. Len(s) /\ DOMAIN t = 1 .. Len(t)
      /\ DOMAIN (s \o t) = 1 .. Len(s) + Len(t)
      /\ \A i \in 1 .. Len(s) : (s \o t)[i] = s[i]
      /\ \A i \in 1 .. Len(t) : (s \o t)[Len(s) + i] = t[i]
  BY <1>1
<1> QED BY <1>2, <1>3 DEF Readings, R

\* The partial sums of readings do not depend on what is read later.
LEMMA SumsAgree ==
  ASSUME NEW s \in Readings, NEW t \in Readings, NEW id,
         NEW f \in PartialSums(s, id), NEW g \in PartialSums(s \o t, id)
  PROVE  g[Len(s)] = f[Len(s)]
<1> DEFINE n == Len(s)
           Bad == {i \in 0 .. n : g[i] # f[i]}
<1>1. /\ n \in Nat /\ Len(s \o t) \in Nat /\ n <= Len(s \o t) /\ DOMAIN s = 1 .. n
      /\ 1 .. n \subseteq DOMAIN (s \o t) /\ \A i \in 1 .. n : (s \o t)[i] = s[i]
  <2> DEFINE u == s \o t
  <2>1. /\ n \in Nat /\ Len(t) \in Nat /\ Len(u) = n + Len(t) /\ DOMAIN s = 1 .. n
        /\ DOMAIN u = 1 .. n + Len(t) /\ \A i \in 1 .. n : u[i] = s[i]
    BY ConcatFacts
  <2> HIDE DEF u, n
  <2>2. Len(u) \in Nat /\ n <= Len(u) /\ 1 .. n \subseteq DOMAIN u
    BY <2>1
  <2> QED BY <2>1, <2>2 DEF u
<1>5. /\ f[0] = g[0]
      /\ \A i \in 1 .. n : f[i] = NextSum(s, id, f[i - 1], i)
      /\ \A i \in 1 .. Len(s \o t) : g[i] = NextSum(s \o t, id, g[i - 1], i)
  <2>1. f[0] = Num(0) /\ \A i \in 1 .. n : f[i] = NextSum(s, id, f[i - 1], i)
    BY DEF PartialSums
  <2>2. g[0] = Num(0) /\ \A i \in 1 .. Len(s \o t) : g[i] = NextSum(s \o t, id, g[i - 1], i)
    <3> DEFINE u == s \o t
    <3>1. g \in PartialSums(u, id)
      OBVIOUS
    <3> HIDE DEF u
    <3>2. g[0] = Num(0) /\ \A i \in 1 .. Len(u) : g[i] = NextSum(u, id, g[i - 1], i)
      BY <3>1 DEF PartialSums
    <3> QED BY <3>2 DEF u
  <2> QED BY <2>1, <2>2
<1>2. ASSUME NEW i \in 1 .. n, NEW x PROVE NextSum(s \o t, id, x, i) = NextSum(s, id, x, i)
  <2>1. i \in DOMAIN s /\ i \in DOMAIN (s \o t) /\ (s \o t)[i] = s[i]
    BY <1>1
  <2> QED BY <2>1 DEF NextSum, Of
<1>3. Bad = {}
  <2> SUFFICES ASSUME Bad # {} PROVE FALSE
    OBVIOUS
  <2>1. PICK i \in Bad : \A j \in Bad : i <= j
    <3>1. Bad \subseteq Nat
      OBVIOUS
    <3> HIDE DEF Bad
    <3> QED BY <3>1, LeastElement
  <2>2. i \in 1 .. n /\ g[i] # f[i]
    BY <1>5, <2>1
  <2>3. i - 1 \in 0 .. n /\ i - 1 \notin Bad
    <3> HIDE DEF Bad
    <3> QED BY <1>1, <2>1, <2>2
  <2>4. g[i - 1] = f[i - 1]
    BY <2>3
  <2>5. i \in 1 .. Len(s \o t)
    BY <1>1, <2>2
  <2> HIDE DEF Bad
  <2> QED BY <1>2, <1>5, <2>2, <2>4, <2>5
<1>4. n \in 0 .. n
  BY <1>1
<1> QED BY <1>3, <1>4

\* Recording readings one after the other adds them to the sums and counts of their ids.
LEMMA SumsAdd ==
  ASSUME NEW ids, NEW log0 \in Readings, NEW m \in Readings, IdsIn(m, ids),
         NEW after \in Steps(ids, m),
         NEW id \in ids, after[0][id].sum = SumOf(log0, id),
         after[0][id].count = Cardinality(Of(log0, id))
  PROVE  /\ after[Len(m)][id].unit = after[0][id].unit
         /\ after[Len(m)][id].sum = SumOf(log0 \o m, id)
         /\ after[Len(m)][id].count = Cardinality(Of(log0 \o m, id))
<1> DEFINE all == log0 \o m
           l == Len(log0)
           n == Len(m)
           C(k) == {i \in Of(all, id) : i <= l + k}
<1>1. /\ l \in Nat /\ n \in Nat /\ Len(all) = l + n /\ all \in Readings
      /\ DOMAIN log0 = 1 .. l /\ DOMAIN m = 1 .. n /\ DOMAIN all = 1 .. l + n
      /\ \A i \in 1 .. l : all[i] = log0[i]
      /\ \A i \in 1 .. n : all[l + i] = m[i]
  BY ConcatFacts
<1>0. /\ after \in [0 .. n -> Accumulators(ids)] /\ \A k \in DOMAIN m : m[k].id \in ids
      /\ \A k \in 1 .. n : after[k] = Record(after[k - 1], m[k].id, m[k].value)
  BY DEF Steps, IdsIn
<1>2. PICK s \in PartialSums(log0, id) : SumOf(log0, id) = s[l]
  BY SumFacts
<1>3. PICK t \in PartialSums(all, id) : SumOf(all, id) = t[Len(all)]
  BY <1>1, SumFacts
<1>4. t[l] = s[l] /\ \A i \in 1 .. Len(all) : t[i] = NextSum(all, id, t[i - 1], i)
  <2>1. t[l] = s[l]
    BY SumsAgree
  <2> QED BY <2>1 DEF PartialSums
<1>5. IsFiniteSet(Of(all, id)) /\ \A k \in Int : IsFiniteSet(C(k)) /\ C(k) \subseteq Of(all, id)
  <2>1. IsFiniteSet(1 .. l + n)
    BY <1>1, FS_Interval
  <2>2. Of(all, id) \subseteq 1 .. l + n
    BY <1>1 DEF Of
  <2>3. IsFiniteSet(Of(all, id))
    BY <2>1, <2>2, FS_Subset
  <2>4. ASSUME NEW k \in Int PROVE C(k) \subseteq Of(all, id)
    OBVIOUS
  <2> HIDE DEF C
  <2> QED BY <2>3, <2>4, FS_Subset
<1>6. C(0) = Of(log0, id) /\ C(n) = Of(all, id)
  <2> HIDE DEF all, l, n
  <2>1. \A i : i \in Of(all, id) <=> i \in 1 .. l + n /\ all[i].id = id
    BY <1>1 DEF Of
  <2>2. \A i : i \in Of(log0, id) <=> i \in 1 .. l /\ log0[i].id = id
    BY <1>1 DEF Of
  <2>3. C(0) = Of(log0, id)
    <3> SUFFICES ASSUME NEW i PROVE i \in C(0) <=> i \in Of(log0, id)
      OBVIOUS
    <3>1. i \in C(0) <=> i \in 1 .. l + n /\ i <= l /\ all[i].id = id
      BY <1>1, <2>1
    <3>2. i \in 1 .. l + n /\ i <= l <=> i \in 1 .. l
      BY <1>1
    <3>3. i \in 1 .. l => all[i] = log0[i]
      BY <1>1
    <3> QED BY <2>2, <3>1, <3>2, <3>3
  <2>4. C(n) = Of(all, id)
    BY <1>1, <2>1
  <2> QED BY <2>3, <2>4
<1> DEFINE Kept(k) == /\ after[k][id].unit = after[0][id].unit
                      /\ after[k][id].sum = t[l + k] /\ after[k][id].count = Cardinality(C(k))
           Bad == {k \in 0 .. n : ~Kept(k)}
<1>7. Kept(0)
  <2>1. l + 0 = l
    BY <1>1
  <2>2. t[l + 0] = SumOf(log0, id) /\ Cardinality(C(0)) = Cardinality(Of(log0, id))
    BY <1>2, <1>4, <1>6, <2>1
  <2> QED BY <2>2
<1>8. ASSUME NEW k \in 1 .. n, Kept(k - 1) PROVE Kept(k)
  <2> DEFINE a == after[k - 1]
             e == m[k]
  <2>1. /\ k - 1 \in 0 .. n /\ a \in Accumulators(ids) /\ e.id \in ids /\ e.value \in Value
        /\ after[k] = Record(a, e.id, e.value)
    <3>1. k - 1 \in 0 .. n /\ k \in DOMAIN m
      BY <1>1
    <3>2. a \in Accumulators(ids)
      BY <1>0, <3>1
    <3>3. e.value \in Value
      <4> DEFINE R == [id : STRING \X STRING, value : Value]
      <4>1. m \in Seq(R)
        BY DEF Readings
      <4> HIDE DEF R
      <4>2. m[k] \in R
        BY <3>1, <4>1
      <4> QED BY <4>2 DEF R
    <3> QED BY <1>0, <3>1, <3>2, <3>3
  <2>2. /\ l + k \in 1 .. Len(all) /\ all[l + k] = e /\ l + (k - 1) = (l + k) - 1
        /\ (l + k \in Of(all, id) <=> e.id = id)
    BY <1>1 DEF Of
  <2>3. t[l + k] = NextSum(all, id, t[l + (k - 1)], l + k)
    <3> HIDE DEF all, l, n
    <3> QED BY <1>4, <2>2
  <2>4. CASE e.id = id
    <3>1. /\ after[k][id].sum = Plus(a[id].sum, e.value) /\ after[k][id].count = a[id].count + 1
          /\ after[k][id].unit = a[id].unit
      <4> HIDE DEF a, e
      <4> QED BY <2>1, <2>4, RecordFacts
    <3>2. t[l + k] = Plus(t[l + (k - 1)], e.value)
      <4> HIDE DEF all, l, n, e
      <4> QED BY <2>2, <2>3, <2>4 DEF NextSum
    <3>3. C(k) = C(k - 1) \cup {l + k} /\ l + k \notin C(k - 1)
      <4> HIDE DEF all, l, n, e
      <4>1. Of(all, id) \subseteq Int
        BY <1>1 DEF Of
      <4> QED BY <1>1, <2>2, <2>4, <4>1
    <3>4. Cardinality(C(k)) = Cardinality(C(k - 1)) + 1
      <4>1. IsFiniteSet(C(k - 1))
        <5>1. k - 1 \in Int
          BY <1>1
        <5> HIDE DEF C
        <5> QED BY <1>5, <5>1
      <4> HIDE DEF C, l
      <4> QED BY <3>3, <4>1, FS_AddElement
    <3> QED BY <1>8, <3>1, <3>2, <3>4
  <2>5. CASE e.id # id
    <3>1. after[k][id] = a[id]
      <4> HIDE DEF a, e
      <4> QED BY <2>1, <2>5, RecordFacts
    <3>2. t[l + k] = t[l + (k - 1)]
      <4> HIDE DEF all, l, n, e
      <4> QED BY <2>2, <2>3, <2>5 DEF NextSum
    <3>3. C(k) = C(k - 1)
      <4> HIDE DEF all, l, n, e
      <4>1. Of(all, id) \subseteq Int
        BY <1>1 DEF Of
      <4>2. \A i \in Of(all, id) : i <= l + k <=> i <= l + (k - 1)
        BY <1>1, <2>2, <2>5, <4>1
      <4> QED BY <4>2
    <3> QED BY <1>8, <3>1, <3>2, <3>3
  <2> QED BY <2>4, <2>5
<1>9. Bad = {}
  <2> SUFFICES ASSUME Bad # {} PROVE FALSE
    OBVIOUS
  <2> HIDE DEF Kept
  <2>1. PICK k \in Bad : \A j \in Bad : k <= j
    <3>1. Bad \subseteq Nat
      OBVIOUS
    <3> HIDE DEF Bad
    <3> QED BY <3>1, LeastElement
  <2>2. k \in 1 .. n /\ ~Kept(k)
    BY <1>1, <1>7, <2>1
  <2>3. k - 1 \in 0 .. n /\ k - 1 \notin Bad
    <3> HIDE DEF Bad
    <3> QED BY <1>1, <2>1, <2>2
  <2> QED BY <1>8, <2>2, <2>3
<1>10. Kept(n)
  <2>1. n \in 0 .. n
    BY <1>1
  <2> HIDE DEF Kept, n
  <2> QED BY <1>9, <2>1
<1> QED BY <1>1, <1>3, <1>6, <1>10

-----------------------------------------------------------------------------
\* An order of a finite set is a sequence of its members.
LEMMA OrderFacts ==
  ASSUME NEW S, IsFiniteSet(S), NEW order \in SetToSeqs(S)
  PROVE  /\ order \in Seq(S) /\ Len(order) = Cardinality(S)
         /\ {order[i] : i \in DOMAIN order} = S
<1> DEFINE n == Cardinality(S)
<1>1. n \in Nat /\ IsFiniteSet(1 .. n) /\ Cardinality(1 .. n) = n
  <2>1. n \in Nat
    BY FS_CardinalityType
  <2> HIDE DEF n
  <2> QED BY <2>1, FS_Interval
<1>2. order \in [1 .. n -> S] /\ \A i, j \in 1 .. n : i # j => order[i] # order[j]
  BY DEF SetToSeqs
<1>3. order \in Injection(1 .. n, S)
  BY <1>2 DEF Injection, IsInjective
<1>4. order \in Surjection(1 .. n, S)
  <2> HIDE DEF n
  <2>1. Cardinality(1 .. n) = Cardinality(S)
    BY <1>1 DEF n
  <2> QED BY <1>3, <2>1, FS_Injection
<1>5. \A x \in S : \E i \in 1 .. n : order[i] = x
  BY <1>4 DEF Surjection
<1>6. {order[i] : i \in DOMAIN order} = S
  BY <1>2, <1>5
<1>7. order \in Seq(S) /\ Len(order) = n
  <2> HIDE DEF n
  <2> QED BY <1>1, <1>2
<1> QED BY <1>6, <1>7

-----------------------------------------------------------------------------
\* A number that is written is a sum and the count it is to be divided by.
PacksTyped ==
    \A f \in flushed : \A i \in DOMAIN f.pack :
        f.pack[i].v[1] = "num" => f.pack[i].v[2] \in Int /\ f.pack[i].v[3] \in Nat \ {0}

\* The accumulators hold what was read since the last flush, and the packs of that flush what
\* had been read before.
SumInv ==
    /\ running \in BOOLEAN
    /\ log \in Readings /\ last \in Readings
    /\ \A i \in DOMAIN log : log[i].id \in PointIds(cfg)
    /\ \A i \in DOMAIN last : last[i].id \in PointIds(cfg)
    /\ ~running => log = <<>> /\ window = 0
    /\ running =>
        /\ agg \in Accumulators(PointIds(cfg))
        /\ \A id \in PointIds(cfg) :
            agg[id].sum = SumOf(log, id) /\ agg[id].count = Cardinality(Of(log, id))
    /\ window \in 0 .. MaxFlushes /\ reads \in 0 .. MaxReads
    /\ PacksTyped
    /\ PackTellsMeans

\* Nothing was read yet.
LEMMA NothingRead ==
  ASSUME NEW id
  PROVE  <<>> \in Readings /\ SumOf(<<>>, id) = Num(0) /\ Cardinality(Of(<<>>, id)) = 0
<1>1. <<>> \in Readings /\ Len(<<>>) = 0
  BY DEF Readings
<1>2. PICK sum \in PartialSums(<<>>, id) : SumOf(<<>>, id) = sum[Len(<<>>)]
  BY <1>1, SumFacts
<1>3. SumOf(<<>>, id) = Num(0)
  BY <1>1, <1>2 DEF PartialSums
<1>4. Of(<<>>, id) = {}
  BY DEF Of
<1> QED BY <1>1, <1>3, <1>4, FS_EmptySet

\* The ids with a count are those that were read.
LEMMA SurvivorsWereRead ==
  ASSUME SumInv, running, NEW d
  PROVE  /\ SurvivingOf(agg, d) = {id \in {log[i].id : i \in DOMAIN log} : id[1] = d}
         /\ IsFiniteSet(SurvivingOf(agg, d)) /\ SurvivingOf(agg, d) \subseteq PointIds(cfg)
<1> DEFINE Ids == {log[i].id : i \in DOMAIN log}
<1>1. /\ log \in Readings /\ agg \in Accumulators(PointIds(cfg)) /\ Ids \subseteq PointIds(cfg)
      /\ \A id \in PointIds(cfg) : agg[id].count = Cardinality(Of(log, id))
  BY DEF SumInv
<1>2. IsFiniteSet(DOMAIN log)
  <2>1. Len(log) \in Nat /\ DOMAIN log = 1 .. Len(log)
    BY <1>1, ConcatFacts
  <2>2. IsFiniteSet(1 .. Len(log))
    BY <2>1, FS_Interval
  <2> QED BY <2>1, <2>2
<1>3. IsFiniteSet(Ids)
  <2> DEFINE f == [i \in DOMAIN log |-> log[i].id]
  <2>1. f \in Surjection(DOMAIN log, Ids)
    BY DEF Surjection
  <2> HIDE DEF f, Ids
  <2> QED BY <1>2, <2>1, FS_Surjection
<1>4. ASSUME NEW id \in PointIds(cfg) PROVE agg[id].count > 0 <=> id \in Ids
  <2>1. Of(log, id) \subseteq DOMAIN log
    BY DEF Of
  <2>2. IsFiniteSet(Of(log, id)) /\ Cardinality(Of(log, id)) \in Nat
    BY <1>2, <2>1, FS_Subset, FS_CardinalityType
  <2>3. Cardinality(Of(log, id)) = 0 <=> Of(log, id) = {}
    BY <2>2, FS_EmptySet
  <2>4. Of(log, id) # {} <=> id \in Ids
    BY DEF Of
  <2> HIDE DEF Ids
  <2> QED BY <1>1, <2>2, <2>3, <2>4
<1>5. DOMAIN agg = PointIds(cfg)
  BY <1>1 DEF Accumulators
<1> HIDE DEF Ids
<1>6. SurvivingOf(agg, d) = {id \in Ids : id[1] = d}
  BY <1>1, <1>4, <1>5 DEF SurvivingOf, Surviving
<1>7. IsFiniteSet({id \in Ids : id[1] = d})
  <2>1. {id \in Ids : id[1] = d} \subseteq Ids
    OBVIOUS
  <2> QED BY <1>3, <2>1, FS_Subset
<1> QED BY <1>1, <1>6, <1>7 DEF Ids

\* The mean of an accumulator is that of the readings of its id.
LEMMA MeanIsOfReadings ==
  ASSUME SumInv, running, NEW id \in PointIds(cfg)
  PROVE  JsonNumber(Mean(agg[id])) = MeanOf(log, id)
<1>1. agg[id].sum = SumOf(log, id) /\ agg[id].count = Cardinality(Of(log, id))
  BY DEF SumInv
<1> QED BY <1>1 DEF Mean, MeanOf

\* A pick picks a member of each set.
LEMMA PickFacts ==
  ASSUME NEW sets, NEW f \in Picks(sets)
  PROVE  DOMAIN f = DOMAIN sets /\ \A x \in DOMAIN sets : f[x] \in sets[x]
BY DEF Picks

\* The values that the points of a block may hold.
SamplesOf(block) == [k \in DOMAIN block.points |-> Samples[block.points[k].type]]

\* The points of a block are among the ids.
PointsIn(dev, block, ids) ==
    /\ ids \subseteq STRING \X STRING
    /\ \A k \in DOMAIN block.points : Id(dev, block.points[k]) \in ids

\* What the points of an accepted block mean by the configuration is what is decoded from the
\* reply, and readings of the block's ids.
LEMMA BlockReadings ==
  ASSUME NEW block \in Block, BlockOk(block), NEW dev, NEW ids, PointsIn(dev, block, ids),
         NEW held \in Picks(SamplesOf(block))
  PROVE  /\ Meant(dev, block, held) \in Readings
         /\ IdsIn(Meant(dev, block, held), ids)
         /\ Tells(dev, Decode(block, Reply(block, held)), Meant(dev, block, held))
<1> DEFINE sets == SamplesOf(block)
           m == Meant(dev, block, held)
           readings == Decode(block, Reply(block, held))
<1> DEFINE n == Len(block.points)
<1>1. n \in Nat /\ DOMAIN block.points = 1 .. n /\ block.points \in Seq(Point)
  <2>1. block.points \in Seq(Point)
    BY DEF Block
  <2> QED BY <2>1
<1>2. \A k \in 1 .. n : block.points[k] \in Point /\ held[k] \in Samples[block.points[k].type]
  <2>1. \A x \in DOMAIN sets : held[x] \in sets[x]
    <3> HIDE DEF sets
    <3>1. held \in Picks(sets)
      BY DEF sets
    <3> QED BY <3>1, PickFacts
  <2>2. \A x \in DOMAIN block.points : held[x] \in Samples[block.points[x].type]
    BY <2>1 DEF SamplesOf
  <2>3. \A x \in DOMAIN block.points : block.points[x] \in Point
    BY <1>1
  <2> HIDE DEF n
  <2> QED BY <1>1, <2>2, <2>3
<1>3. \A k \in 1 .. n : block.points[k].type \in DataType
  BY <1>2 DEF Point
<1>4. \A k \in 1 .. n : held[k] \in Holdable(block.points[k].type) /\ held[k] \in Value
  BY <1>2, <1>3, SamplesAssumption, HoldableFacts
<1>5. /\ m = [k \in 1 .. n |-> m[k]]
      /\ \A k \in 1 .. n : m[k] = [id |-> Id(dev, block.points[k]),
                                   value |-> Scaled(held[k], block.points[k])]
  <2>1. m = [k \in 1 .. n |-> [id |-> Id(dev, block.points[k]),
                               value |-> Scaled(held[k], block.points[k])]]
    BY <1>1 DEF Meant, Scaled
  <2> HIDE DEF n
  <2> QED BY <2>1
<1>6. readings = [k \in 1 .. n |-> readings[k]]
  BY <1>1 DEF Decode
<1>7. \A k \in 1 .. n : <<dev.id, readings[k].name>> = m[k].id /\ readings[k].value = m[k].value
  BY <1>1, <1>4, DecodesPoint
<1>8. \A k \in 1 .. n : Scaled(held[k], block.points[k]) \in Value
  BY <1>2, <1>4, HoldableFacts
<1> HIDE DEF n, m, readings
<1>9. \A k \in 1 .. n : m[k] \in [id : STRING \X STRING, value : Value] /\ m[k].id \in ids
  <2> SUFFICES ASSUME NEW k \in 1 .. n
               PROVE  m[k] \in [id : STRING \X STRING, value : Value] /\ m[k].id \in ids
    OBVIOUS
  <2> DEFINE x == Id(dev, block.points[k])
             v == Scaled(held[k], block.points[k])
  <2>1. x \in ids /\ x \in STRING \X STRING
    BY <1>1 DEF PointsIn
  <2>2. v \in Value
    BY <1>8
  <2>3. m[k] = [id |-> x, value |-> v]
    BY <1>5
  <2> HIDE DEF x, v
  <2> QED BY <2>1, <2>2, <2>3
<1>10. Len(m) = n /\ DOMAIN m = 1 .. n /\ Len(readings) = n
  BY <1>1, <1>5, <1>6
<1>11. m \in Readings
  <2> DEFINE T == [id : STRING \X STRING, value : Value]
  <2>1. m \in [1 .. n -> T]
    BY <1>5, <1>9
  <2> HIDE DEF T
  <2>2. m \in Seq(T)
    BY <1>1, <2>1
  <2> QED BY <2>2 DEF Readings, T
<1> QED BY <1>7, <1>9, <1>10, <1>11 DEF IdsIn, Tells, m, readings

\* What does not touch the accumulators, the readings and the packs keeps the invariant.
LEMMA SumsUntouched ==
  ASSUME SumInv, cfg' = cfg, UNCHANGED <<running, agg, window, reads, log, last, flushed>>
  PROVE  SumInv'
<1>1. PackTellsMeans'
  <2>1. ASSUME NEW d PROVE IdsRead(d)' = IdsRead(d) /\ Expected(d)' = Expected(d)
    BY DEF IdsRead, Expected
  <2> QED BY <2>1 DEF SumInv, PackTellsMeans
<1>2. PacksTyped'
  BY DEF SumInv, PacksTyped
<1> QED BY <1>1, <1>2 DEF SumInv

\* The accumulators start empty.
LEMMA StartSums ==
  ASSUME IInv, SumInv, Start
  PROVE  SumInv'
<1>1. /\ cfg' = cfg /\ ~running /\ running' \in BOOLEAN /\ agg' = InitFromConfig(cfg)
      /\ UNCHANGED <<window, reads, log, last, flushed>>
  BY DEF Start, configVars
<1>2. log = <<>> /\ window = 0
  BY <1>1 DEF SumInv
<1>3. cfg \in Config
  BY DEF IInv, ConfigTypeOK
<1>4. agg' \in Accumulators(PointIds(cfg))
  BY <1>1, <1>3, InitFacts
<1>5. ASSUME NEW id \in PointIds(cfg)
      PROVE  agg'[id].sum = SumOf(log, id) /\ agg'[id].count = Cardinality(Of(log, id))
  BY <1>1, <1>2, <1>3, InitFacts, NothingRead
<1>6. PackTellsMeans'
  BY <1>1, <1>2 DEF PackTellsMeans
<1>7. PacksTyped'
  BY <1>1 DEF SumInv, PacksTyped
<1> QED BY <1>1, <1>2, <1>4, <1>5, <1>6, <1>7 DEF SumInv

\* A flush is told about for as long as its packs are there: reading on keeps the units.
LEMMA PacksStay ==
  ASSUME PackTellsMeans, UNCHANGED <<window, last, flushed>>, DOMAIN agg' = DOMAIN agg,
         \A id \in DOMAIN agg : agg'[id].unit = agg[id].unit,
         \A i \in DOMAIN last : last[i].id \in DOMAIN agg
  PROVE  PackTellsMeans'
<1>1. ASSUME NEW d PROVE IdsRead(d)' = IdsRead(d)
  BY DEF IdsRead
<1>2. ASSUME NEW d PROVE Expected(d)' = Expected(d)
  <2>1. \A id \in IdsRead(d) : agg'[id].unit = agg[id].unit
    BY DEF IdsRead
  <2> QED BY <1>1, <2>1 DEF Expected
<1> QED BY <1>1, <1>2 DEF PackTellsMeans

\* What the sums of the accumulators are while a window is open.
Sums(a, readings, ids) ==
    \A id \in ids :
        a[id].sum = SumOf(readings, id) /\ a[id].count = Cardinality(Of(readings, id))

SameUnits(a, b, ids) == \A id \in ids : b[id].unit = a[id].unit

\* A block that is read adds what the device held to the sums of its points.
LEMMA ReadAdds ==
  ASSUME NEW block \in Block, BlockOk(block), NEW dev, NEW ids, PointsIn(dev, block, ids),
         NEW held \in Picks(SamplesOf(block)), NEW a \in Accumulators(ids),
         NEW before \in Readings, IdsIn(before, ids), Sums(a, before, ids)
  PROVE  /\ before \o Meant(dev, block, held) \in Readings
         /\ IdsIn(before \o Meant(dev, block, held), ids)
         /\ RecordAll(a, dev, block, Reply(block, held)) \in Accumulators(ids)
         /\ Sums(RecordAll(a, dev, block, Reply(block, held)),
                 before \o Meant(dev, block, held), ids)
         /\ SameUnits(a, RecordAll(a, dev, block, Reply(block, held)), ids)
<1> DEFINE b == RecordAll(a, dev, block, Reply(block, held))
           readings == before \o Meant(dev, block, held)
           m == Meant(dev, block, held)
           words == Reply(block, held)
<1>1. m \in Readings /\ IdsIn(m, ids) /\ Tells(dev, Decode(block, words), m)
  BY BlockReadings
<1>2. readings = before \o m /\ b = RecordAll(a, dev, block, words)
  OBVIOUS
<1> HIDE DEF m, words, b, readings
<1>3. PICK after \in Steps(ids, m) :
        after[0] = a /\ RecordAll(a, dev, block, words) = after[Len(m)]
  BY <1>1, RecordAllFacts
<1>4. /\ readings \in Readings /\ Len(m) \in Nat /\ DOMAIN m = 1 .. Len(m)
      /\ Len(before) \in Nat /\ DOMAIN before = 1 .. Len(before)
      /\ DOMAIN readings = 1 .. Len(before) + Len(m)
      /\ \A i \in 1 .. Len(before) : readings[i] = before[i]
      /\ \A i \in 1 .. Len(m) : readings[Len(before) + i] = m[i]
  BY <1>1, <1>2, ConcatFacts
<1>5. ASSUME NEW id \in ids
      PROVE  /\ b[id].unit = a[id].unit
             /\ b[id].sum = SumOf(readings, id)
             /\ b[id].count = Cardinality(Of(readings, id))
  <2>1. after[0][id].sum = SumOf(before, id) /\ after[0][id].count = Cardinality(Of(before, id))
    BY <1>3 DEF Sums
  <2>2. /\ after[Len(m)][id].unit = after[0][id].unit
        /\ after[Len(m)][id].sum = SumOf(before \o m, id)
        /\ after[Len(m)][id].count = Cardinality(Of(before \o m, id))
    BY <1>1, <2>1, SumsAdd
  <2> QED BY <1>2, <1>3, <2>2
<1>6. b \in Accumulators(ids)
  <2>1. after \in [0 .. Len(m) -> Accumulators(ids)]
    BY DEF Steps
  <2>2. Len(m) \in 0 .. Len(m)
    BY <1>4
  <2> QED BY <1>2, <1>3, <2>1, <2>2
<1>7. IdsIn(readings, ids)
  <2> SUFFICES ASSUME NEW i \in 1 .. Len(before) + Len(m) PROVE readings[i].id \in ids
    BY <1>4 DEF IdsIn
  <2>1. CASE i \in 1 .. Len(before)
    BY <1>4, <2>1 DEF IdsIn
  <2>2. CASE i \notin 1 .. Len(before)
    <3>1. i - Len(before) \in 1 .. Len(m) /\ Len(before) + (i - Len(before)) = i
      BY <1>4, <2>2
    <3>2. readings[Len(before) + (i - Len(before))] = m[i - Len(before)]
      BY <1>4, <3>1
    <3> QED BY <1>1, <1>4, <3>1, <3>2 DEF IdsIn
  <2> QED BY <2>1, <2>2
<1> QED BY <1>4, <1>5, <1>6, <1>7 DEF Sums, SameUnits, b, readings

\* A read keeps the invariant.
LEMMA ReadSums ==
  ASSUME IInv, DataInv, SumInv, NEW c \in connected, NEW d \in DOMAIN cfg.connections[c].devices,
         NEW b \in DOMAIN cfg.connections[c].devices[d].blocks, ReadBlock(c, d, b)
  PROVE  SumInv'
<1> DEFINE dev == cfg.connections[c].devices[d]
           block == dev.blocks[b]
           ids == PointIds(cfg)
<1>1. /\ at = "accepted" /\ running /\ c \in DOMAIN cfg.connections /\ cfg \in Config
      /\ cfg' = cfg /\ UNCHANGED <<running, window, last, flushed>>
  BY DEF DataInv, IInv, ConfigTypeOK, ReadBlock, configVars
<1>2. reads' \in 0 .. MaxReads
  <2>1. reads < MaxReads /\ reads' = reads + 1
    BY DEF ReadBlock
  <2>2. reads \in 0 .. MaxReads
    BY DEF SumInv
  <2> QED BY <2>1, <2>2, DatapathBounds
<1>3. block \in Block /\ BlockOk(block)
  BY <1>1, ConfigFacts, AcceptedBlocks
<1>4. PointsIn(dev, block, ids)
  BY <1>1, PlaceFacts DEF PointsIn, PointIds
<1>5. \E held \in Picks(SamplesOf(block)) :
        \/ UNCHANGED <<agg, log>>
        \/ /\ agg' = RecordAll(agg, dev, block, Reply(block, held))
           /\ log' = log \o Meant(dev, block, held)
  BY DEF ReadBlock, SamplesOf
<1> HIDE DEF dev, block, ids
<1>6. /\ log \in Readings /\ last \in Readings /\ agg \in Accumulators(ids)
      /\ IdsIn(log, ids) /\ IdsIn(last, ids) /\ Sums(agg, log, ids)
      /\ window \in 0 .. MaxFlushes /\ PacksTyped /\ PackTellsMeans
  BY <1>1 DEF SumInv, IdsIn, Sums, ids
<1>7. /\ log' \in Readings /\ agg' \in Accumulators(ids)
      /\ IdsIn(log', ids) /\ Sums(agg', log', ids)
      /\ SameUnits(agg, agg', ids)
  <2>1. CASE UNCHANGED <<agg, log>>
    BY <1>6, <2>1 DEF SameUnits
  <2>2. ASSUME NEW held \in Picks(SamplesOf(block)),
               agg' = RecordAll(agg, dev, block, Reply(block, held)),
               log' = log \o Meant(dev, block, held)
        PROVE  /\ log' \in Readings /\ agg' \in Accumulators(ids)
               /\ IdsIn(log', ids) /\ Sums(agg', log', ids)
               /\ SameUnits(agg, agg', ids)
    BY <1>3, <1>4, <1>6, <2>2, ReadAdds
  <2> QED BY <1>5, <2>1, <2>2
<1>8. PackTellsMeans'
  <2>1. DOMAIN agg' = ids /\ DOMAIN agg = ids
    BY <1>6, <1>7 DEF Accumulators
  <2> QED BY <1>1, <1>6, <1>7, <2>1, PacksStay DEF IdsIn, SameUnits
<1>9. PacksTyped'
  BY <1>1, <1>6 DEF PacksTyped
<1> QED BY <1>1, <1>2, <1>6, <1>7, <1>8, <1>9 DEF SumInv, IdsIn, Sums, ids

\* What a receiver should learn of the points ids of device d in the window that ends.
Told(d, ids) ==
    {[base |-> {<<BaseNamePrefix, d>>}, name |-> id[2], time |-> {window}, unit |-> agg[id].unit,
      value |-> MeanOf(log, id)] : id \in ids}

\* A number in a pack is a sum and the count it is to be divided by.
NumbersTyped(pack) ==
    \A i \in DOMAIN pack : pack[i].v[1] = "num" => pack[i].v[2] \in Int /\ pack[i].v[3] \in Nat \ {0}

\* Whatever the order of the HashMap, the pack of a device tells what was read of it.
LEMMA BatchTells ==
  ASSUME SumInv, running, NEW d, NEW order \in SetToSeqs(SurvivingOf(agg, d)),
         NEW pack \in EncodeSenml(BatchOf(agg, order, d))
  PROVE  /\ Resolve(pack) = Told(d, SurvivingOf(agg, d))
         /\ Len(pack) = Cardinality(SurvivingOf(agg, d))
         /\ BaseUnitIsMajority(pack) /\ NumbersTyped(pack)
<1> DEFINE S == SurvivingOf(agg, d)
           batch == BatchOf(agg, order, d)
           PointOf(id) == [name |-> id[2], unit |-> agg[id].unit, mean |-> Mean(agg[id])]
           P == {PointOf(id) : id \in S}
           n == Len(order)
<1>1. IsFiniteSet(S) /\ S \subseteq PointIds(cfg)
  BY SurvivorsWereRead
<1>2. order \in Seq(S) /\ n = Cardinality(S) /\ {order[i] : i \in DOMAIN order} = S
  <2> HIDE DEF S
  <2> QED BY <1>1, OrderFacts DEF S
<1>3. n \in Nat /\ DOMAIN order = 1 .. n /\ \A i \in 1 .. n : order[i] \in S
  <2> HIDE DEF S
  <2> QED BY <1>2
<1>4. batch.device = d /\ batch.windowStart = window /\ batch.points = [i \in 1 .. n |-> PointOf(order[i])]
  BY <1>3 DEF BatchOf
<1> HIDE DEF S, batch, PointOf
<1>5. batch.points \in Seq(P) /\ Len(batch.points) = n /\ DOMAIN batch.points = 1 .. n
  <2>1. \A i \in 1 .. n : PointOf(order[i]) \in P
    BY <1>3
  <2> HIDE DEF n, P
  <2> QED BY <1>3, <1>4, <2>1
<1> DEFINE wire(i) == [base |-> {<<BaseNamePrefix, batch.device>>}, name |-> batch.points[i].name,
                       time |-> {batch.windowStart}, unit |-> batch.points[i].unit,
                       value |-> JsonNumber(batch.points[i].mean)]
           record(id) == [base |-> {<<BaseNamePrefix, d>>}, name |-> id[2], time |-> {window},
                          unit |-> agg[id].unit, value |-> MeanOf(log, id)]
<1>6. /\ Len(pack) = Len(batch.points) /\ Resolve(pack) = {wire(i) : i \in DOMAIN batch.points}
      /\ BaseUnitIsMajority(pack)
  <2>1. pack \in EncodeSenml(batch)
    BY DEF batch
  <2> HIDE DEF P
  <2> QED BY <1>5, <2>1, PackResolves
<1>7. ASSUME NEW i \in 1 .. n PROVE wire(i) = record(order[i])
  <2>1. order[i] \in S /\ order[i] \in PointIds(cfg)
    BY <1>1, <1>3
  <2>2. JsonNumber(Mean(agg[order[i]])) = MeanOf(log, order[i])
    BY <2>1, MeanIsOfReadings
  <2>3. batch.points[i] = PointOf(order[i])
    BY <1>4
  <2>4. /\ batch.points[i].name = order[i][2] /\ batch.points[i].unit = agg[order[i]].unit
        /\ batch.points[i].mean = Mean(agg[order[i]])
    BY <2>3 DEF PointOf
  <2> HIDE DEF n
  <2> QED BY <1>4, <2>2, <2>4
<1>8. Resolve(pack) = {record(id) : id \in S}
  <2>1. Resolve(pack) = {record(order[i]) : i \in 1 .. n}
    <3> HIDE DEF record, wire, n
    <3> QED BY <1>5, <1>6, <1>7
  <2> HIDE DEF record
  <2>2. {record(order[i]) : i \in 1 .. n} = {record(id) : id \in S}
    BY <1>2, <1>3
  <2> QED BY <2>1, <2>2
<1>9. Resolve(pack) = Told(d, S)
  BY <1>8 DEF Told
<1>10. ASSUME NEW id \in S, MeanOf(log, id)[1] = "num"
       PROVE  MeanOf(log, id)[2] \in Int /\ MeanOf(log, id)[3] \in Nat \ {0}
  <2> DEFINE pa == agg[id]
             v == MeanOf(log, id)
  <2>1. pa \in [sum : Value, count : Nat, unit : STRING] /\ pa.count > 0
    <3>1. id \in PointIds(cfg) /\ agg \in Accumulators(PointIds(cfg))
      BY <1>1 DEF SumInv
    <3>2. pa \in [sum : Value, count : Nat, unit : STRING]
      BY <3>1 DEF Accumulators
    <3> QED BY <3>2 DEF S, SurvivingOf, Surviving
  <2>2. v = JsonNumber(Mean(pa))
    BY <1>1, MeanIsOfReadings
  <2>3. pa.sum \in Value /\ pa.count \in Nat \ {0}
    BY <2>1
  <2> HIDE DEF pa, v
  <2>4. ASSUME IsNum(pa.sum) PROVE v[2] \in Int /\ v[3] \in Nat \ {0}
    <3>1. pa.sum[2] \in Int
      BY <2>3, <2>4 DEF Value, IsNum, Inf, NaN
    <3>2. v = <<"num", pa.sum[2], pa.count>>
      BY <2>2, <2>4 DEF Mean, JsonNumber
    <3>3. v[2] = pa.sum[2] /\ v[3] = pa.count
      BY <3>2
    <3> QED BY <2>3, <3>1, <3>3
  <2>5. ASSUME ~IsNum(pa.sum) PROVE FALSE
    <3>1. v = <<"null">>
      BY <2>2, <2>5 DEF Mean, JsonNumber, IsNum
    <3>2. v[1] = "num"
      BY <1>10 DEF v
    <3> QED BY <3>1, <3>2
  <2>6. v[2] \in Int /\ v[3] \in Nat \ {0}
    BY <2>4, <2>5
  <2> QED BY <2>6, Zenon DEF v
<1>11. NumbersTyped(pack)
  <2> SUFFICES ASSUME NEW i \in DOMAIN pack, pack[i].v[1] = "num"
               PROVE  pack[i].v[2] \in Int /\ pack[i].v[3] \in Nat \ {0}
    BY DEF NumbersTyped
  <2>1. PICK r \in Resolve(pack) : r.value = pack[i].v
    <3> DEFINE names == [k \in DOMAIN pack |-> pack[k].bn]
               times == [k \in DOMAIN pack |-> pack[k].bt]
               received(k) == [base |-> Latest(names, k), name |-> pack[k].n,
                               time |-> Latest(times, k), unit |-> pack[k].u, value |-> pack[k].v]
    <3>1. Resolve(pack) = {received(k) : k \in DOMAIN pack}
      BY DEF Resolve
    <3>2. received(i).value = pack[i].v
      OBVIOUS
    <3> HIDE DEF received
    <3> QED BY <3>1, <3>2
  <2>2. PICK id \in S : r.value = MeanOf(log, id)
    <3>1. PICK id \in S : r = record(id)
      BY <1>8
    <3> QED BY <3>1
  <2> QED BY <1>10, <2>1, <2>2
<1> QED BY <1>2, <1>5, <1>6, <1>9, <1>11 DEF S

\* A flush sends what was read, and starts the next window with nothing.
LEMMA FlushSums ==
  ASSUME IInv, SumInv, Flush
  PROVE  SumInv'
<1> DEFINE devices == {id[1] : id \in Surviving(agg)}
           ids == PointIds(cfg)
           OrdersOf == [d \in devices |-> SetToSeqs(SurvivingOf(agg, d))]
<1>1. /\ running /\ window < MaxFlushes /\ agg' = ResetAll(agg) /\ window' = window + 1
      /\ last' = log /\ log' = <<>> /\ cfg' = cfg /\ UNCHANGED <<running, reads>>
  BY DEF Flush, configVars
<1>2. PICK orders \in Picks(OrdersOf) :
        \E packs \in Picks([d \in devices |-> EncodeSenml(BatchOf(agg, orders[d], d))]) :
            flushed' = {[device |-> d, pack |-> packs[d]] : d \in devices}
  BY DEF Flush
<1> DEFINE PacksOf == [d \in devices |-> EncodeSenml(BatchOf(agg, orders[d], d))]
<1>3. PICK packs \in Picks(PacksOf) : flushed' = {[device |-> d, pack |-> packs[d]] : d \in devices}
  BY <1>2
<1>4. ASSUME NEW d \in devices
      PROVE  /\ Resolve(packs[d]) = Told(d, SurvivingOf(agg, d))
             /\ Len(packs[d]) = Cardinality(SurvivingOf(agg, d))
             /\ BaseUnitIsMajority(packs[d]) /\ NumbersTyped(packs[d])
  <2>1. orders[d] \in SetToSeqs(SurvivingOf(agg, d))
    <3>1. \A x \in DOMAIN OrdersOf : orders[x] \in OrdersOf[x]
      <4> HIDE DEF OrdersOf
      <4> QED BY PickFacts
    <3> HIDE DEF devices
    <3> QED BY <3>1
  <2>2. packs[d] \in EncodeSenml(BatchOf(agg, orders[d], d))
    <3>1. \A x \in DOMAIN PacksOf : packs[x] \in PacksOf[x]
      <4> HIDE DEF PacksOf
      <4> QED BY PickFacts
    <3> HIDE DEF devices
    <3> QED BY <3>1
  <2> QED BY <1>1, <2>1, <2>2, BatchTells
<1>5. /\ log \in Readings /\ agg \in Accumulators(ids) /\ IdsIn(log, ids)
      /\ window \in 0 .. MaxFlushes /\ reads \in 0 .. MaxReads
  BY <1>1 DEF SumInv, IdsIn
<1>6. PacksTyped'
  <2> SUFFICES ASSUME NEW f \in flushed' PROVE NumbersTyped(f.pack)
    BY DEF PacksTyped, NumbersTyped
  <2>1. PICK d \in devices : f = [device |-> d, pack |-> packs[d]]
    BY <1>3
  <2> QED BY <1>4, <2>1
<1>7. /\ agg' \in Accumulators(ids)
      /\ \A id \in ids : agg'[id].sum = Num(0) /\ agg'[id].count = 0 /\ agg'[id].unit = agg[id].unit
  <2>1. DOMAIN agg = ids /\ \A id \in ids : agg[id] \in [sum : Value, count : Nat, unit : STRING]
    BY <1>5 DEF Accumulators
  <2> DEFINE reset(id) == [agg[id] EXCEPT !.sum = Num(0), !.count = 0]
  <2>2. agg' = [id \in ids |-> reset(id)]
    BY <1>1, <2>1 DEF ResetAll
  <2>3. ASSUME NEW id \in ids
        PROVE  /\ reset(id) \in [sum : Value, count : Nat, unit : STRING]
               /\ reset(id).sum = Num(0) /\ reset(id).count = 0
               /\ reset(id).unit = agg[id].unit
    <3>1. agg[id] \in [sum : Value, count : Nat, unit : STRING] /\ Num(0) \in Value
      BY <2>1, ValueFacts
    <3> HIDE DEF ids
    <3> QED BY <3>1
  <2> HIDE DEF reset, ids
  <2> QED BY <2>2, <2>3 DEF Accumulators
<1>8. ASSUME NEW d
      PROVE  /\ IdsRead(d)' = SurvivingOf(agg, d)
             /\ d \in devices <=> SurvivingOf(agg, d) # {}
  <2>1. IdsRead(d)' = SurvivingOf(agg, d)
    BY <1>1, SurvivorsWereRead DEF IdsRead
  <2>2. d \in devices <=> SurvivingOf(agg, d) # {}
    BY DEF SurvivingOf
  <2> QED BY <2>1, <2>2
<1>9. ASSUME NEW d PROVE Expected(d)' = Told(d, SurvivingOf(agg, d))
  <2>1. \A id \in SurvivingOf(agg, d) : agg'[id].unit = agg[id].unit
    BY <1>1, <1>7, SurvivorsWereRead
  <2>2. window' - 1 = window
    BY <1>1, <1>5, DatapathBounds
  <2> QED BY <1>1, <1>8, <2>1, <2>2 DEF Expected, Told
<1>10. ASSUME NEW d PROVE {f.pack : f \in {g \in flushed' : g.device = d}} =
                            IF d \in devices THEN {packs[d]} ELSE {}
  <2> DEFINE sent(e) == [device |-> e, pack |-> packs[e]]
  <2>1. flushed' = {sent(e) : e \in devices}
    BY <1>3
  <2>2. \A e : sent(e).device = e /\ sent(e).pack = packs[e]
    OBVIOUS
  <2> HIDE DEF sent, devices
  <2>3. {g \in flushed' : g.device = d} = IF d \in devices THEN {sent(d)} ELSE {}
    BY <2>1, <2>2
  <2> QED BY <2>2, <2>3
<1>11. PackTellsMeans'
  <2> HIDE DEF devices
  <2>1. ASSUME NEW d
        PROVE  LET sent == {f.pack : f \in {g \in flushed' : g.device = d}}
               IN  IF IdsRead(d)' = {} THEN sent = {}
                   ELSE \E pack \in sent :
                           /\ sent = {pack}
                           /\ Resolve(pack) = Expected(d)'
                           /\ Len(pack) = Cardinality(IdsRead(d)')
                           /\ BaseUnitIsMajority(pack)
    <3>1. CASE d \in devices
      BY <1>4, <1>8, <1>9, <1>10, <3>1
    <3>2. CASE d \notin devices
      BY <1>8, <1>10, <3>2
    <3> QED BY <3>1, <3>2
  <2> QED BY <2>1 DEF PackTellsMeans
<1>12. Sums(agg', log', ids)
  BY <1>1, <1>7, NothingRead DEF Sums
<1>13. log' \in Readings /\ IdsIn(log', ids)
  BY <1>1, NothingRead DEF IdsIn
<1>14. window' \in 0 .. MaxFlushes
  BY <1>1, <1>5, DatapathBounds
<1> HIDE DEF ids
<1> QED BY <1>1, <1>5, <1>6, <1>7, <1>11, <1>12, <1>13, <1>14 DEF SumInv, Sums, IdsIn, ids

\* From the first registers read to the last pack encoded.
LEMMA SumsAlways == Spec => [](IInv /\ DataInv /\ SumInv)
<1>1. Init => SumInv
  <2> SUFFICES ASSUME Init PROVE SumInv
    OBVIOUS
  <2>1. /\ running = FALSE /\ window = 0 /\ reads = 0 /\ log = <<>> /\ last = <<>> /\ flushed = {}
    BY DEF Init
  <2>2. PacksTyped /\ PackTellsMeans
    BY <2>1 DEF PacksTyped, PackTellsMeans
  <2>3. <<>> \in Readings /\ DOMAIN <<>> = {}
    BY NothingRead
  <2>4. window \in 0 .. MaxFlushes /\ reads \in 0 .. MaxReads
    BY <2>1, DatapathBounds
  <2> QED BY <2>1, <2>2, <2>3, <2>4 DEF SumInv
<1>2. IInv /\ DataInv /\ SumInv /\ [Next]_vars => SumInv'
  <2> SUFFICES ASSUME IInv, DataInv, SumInv, [Next]_vars PROVE SumInv'
    OBVIOUS
  <2>1. CASE LoadConfig
    <3>1. cfg' = cfg
      BY <2>1 DEF LoadConfig, Validate, LoadFails, Load, CheckGateway, CheckConnection, CheckBlock,
                  NextDevice, NextConnection, EndConnections, CheckCa, Reject
    <3> QED BY <2>1, <3>1, SumsUntouched DEF LoadConfig, dataVars
  <2>2. CASE Start
    BY <2>2, StartSums
  <2>3. CASE Flush
    BY <2>3, FlushSums
  <2>4. ASSUME NEW c \in DOMAIN cfg.connections, Connect(c) PROVE SumInv'
    BY <2>4, SumsUntouched DEF Connect, configVars
  <2>5. ASSUME NEW c \in connected, NEW d \in DOMAIN cfg.connections[c].devices,
               NEW b \in DOMAIN cfg.connections[c].devices[d].blocks, ReadBlock(c, d, b)
        PROVE  SumInv'
    BY <2>5, ReadSums
  <2>6. CASE UNCHANGED vars
    BY <2>6, SumsUntouched DEF vars, dataVars, configVars
  <2> QED BY <2>1, <2>2, <2>3, <2>4, <2>5, <2>6 DEF Next
<1> QED BY <1>1, <1>2, InvAlways, PTL DEF Spec

\* The types of the whole path, for any registers, devices and configurations: an accumulator
\* holds a value and a count, and a mean in a pack is never divided by zero (flush).
THEOREM TypeCorrect == Spec => []TypeOK
<1>1. IInv /\ DataInv /\ SumInv => TypeOK
  <2> SUFFICES ASSUME IInv, DataInv, SumInv PROVE TypeOK
    OBVIOUS
  <2>1. running => agg \in [PointIds(cfg) -> [sum : Value, count : Nat, unit : STRING]]
    BY DEF SumInv, Accumulators
  <2>2. /\ ConfigTypeOK /\ running \in BOOLEAN /\ connected \subseteq DOMAIN cfg.connections
        /\ faults = {}
    BY DEF IInv, DataInv, SumInv
  <2>3. window \in 0 .. MaxFlushes /\ reads \in 0 .. MaxReads /\ log \in Readings /\ last \in Readings
    BY DEF SumInv
  <2>4. PacksTyped
    BY DEF SumInv
  <2> QED BY <2>1, <2>2, <2>3, <2>4 DEF TypeOK, PacksTyped
<1> QED BY <1>1, SumsAlways, PTL

\* From the registers to the receiver, whatever the configuration, the values and the order of
\* every HashMap: a device that was read in a window gets exactly one pack, which resolves to
\* one record per point that was read, with the mean of what the device held.
THEOREM MeansTold == Spec => []PackTellsMeans
<1>1. SumInv => PackTellsMeans
  BY DEF SumInv
<1> QED BY <1>1, SumsAlways, PTL
=============================================================================

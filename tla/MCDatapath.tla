----------------------------- MODULE MCDatapath -----------------------------
(* Families of configurations around a valid one, for TLC. *)
EXTENDS Datapath

MCRadix == 4

\* A float of four bits: sign, two of exponent, one of mantissa.
MCFloat32 ==
    [n \in 0 .. 15 |->
        LET s == IF n >= 8 THEN -1 ELSE 1
            e == (n % 8) \div 2
            m == n % 2
        IN CASE e = 0 -> Num(s * m)
             [] e = 1 -> Num(s * (2 + m))
             [] e = 2 -> Num(s * 2 * (2 + m))
             [] e = 3 -> IF m = 0 THEN Inf(s) ELSE NaN]

MCSamples ==
    [u16 |-> {Num(1), Num(3)}, i16 |-> {Num(-2), Num(1)}, u32 |-> {Num(14), Num(4)},
     i32 |-> {Num(-8), Num(6)}, f32 |-> {Num(-3), NaN, Inf(1)}]

-----------------------------------------------------------------------------
Pt(name, offset, type, scale, absolute, unit) ==
    [name |-> name, offset |-> offset, type |-> type, scale |-> scale,
     absolute |-> absolute, unit |-> unit]

Blk(count, order, points) == [count |-> count, wordOrder |-> order, points |-> points]

Dev(id, unit, blocks) == [id |-> id, unitId |-> unit, blocks |-> blocks]

Tcp == [kind |-> "tcp"]
Rtu(port, data, stop) == [kind |-> "rtu", port |-> port, dataBits |-> data, stopBits |-> stop]

Conn(t, poll, devices) == [transport |-> t, pollInterval |-> poll, devices |-> devices]

Cfg(conns) ==
    [window |-> 60, logLevelParses |-> TRUE, qos |-> 1, ca |-> "ok", connections |-> conns]

OnTcp(devices) == Cfg(<<Conn(Tcp, 10, devices)>>)
OneBlock(block) == OnTcp(<<Dev("meter1", 1, <<block>>)>>)

Small == Blk(1, "big_endian", <<Pt("p", 0, "u16", 1, FALSE, "V")>>)
M1 == Dev("meter1", 1, <<Small>>)
M2 == Dev("meter2", 1, <<Small>>)

\* The fields of [gateway] and [mqtt].
GatewayFields ==
    {[Cfg(cs) EXCEPT !.window = w, !.logLevelParses = l, !.qos = q, !.ca = ca] :
        w \in {0, 60}, l \in BOOLEAN, q \in 0 .. 3,
        ca \in {"ok", "unreadable", "unparseable", "empty"}, cs \in {<<>>, <<Conn(Tcp, 10, <<M1>>)>>}}

\* Two or three connections on serial ports, and the unit ids of their devices.
Transports == {Tcp} \cup {Rtu(p, 8, 1) : p \in {"a", "b"}}
              \cup {Rtu("a", d, 1) : d \in {4, 5, 9}} \cup {Rtu("b", 7, s) : s \in {0, 2, 3}}
Links ==
    {Cfg(<<Conn(t, p, <<M1>>), Conn(u, 10, <<M2>>)>>) :
        t \in Transports, u \in Transports, p \in {0, 10}}
    \cup {Cfg(<<Conn(t, 10, <<M1>>), Conn(Tcp, 10, <<>>), Conn(u, 10, <<M2>>)>>) :
        t \in Transports, u \in Transports}
UnitIds ==
    {OnTcp(<<Dev("meter1", u, <<Small>>), Dev("meter2", v, <<>>), Dev("meter3", w, <<Small>>)>>) :
        u \in {1, 2}, v \in {1, 2}, w \in {1, 3}}

\* Points of one or two registers anywhere in a block or past its end, in any order.
Spots == {<<o, t>> : o \in 0 .. 3, t \in {"u16", "u32"}}
At(name, spot) == Pt(name, spot[1], spot[2], 1, FALSE, "V")
Placements ==
    {OneBlock(Blk(c, "big_endian", <<>>)) : c \in 0 .. 1}
    \cup {OneBlock(Blk(c, o, <<At("p", x), At("q", y)>>)) :
        c \in 3 .. 4, o \in {"big_endian", "little_endian"}, x \in Spots, y \in Spots}
    \cup {OneBlock(Blk(4, "big_endian", <<At("p", x), At("q", y), At("r", z)>>)) :
        x \in Spots, y \in Spots, z \in Spots}

\* The limit of a request, and offsets at the end of their 16 bits.
Limits ==
    {OneBlock(Blk(c, "big_endian", <<Pt("p", o, t, 1, FALSE, "V")>>)) :
        c \in {124, 125, 126, 65535}, o \in {0, 123, 124, 125, 65533, 65535}, t \in {"i16", "i32"}}

\* Signs, scales, floats, a tie of units, an id used twice.
Meanings ==
    {OneBlock(Blk(2, o, <<Pt("p", 0, t, s, a, "V")>>)) :
        o \in {"big_endian", "little_endian"}, t \in DataType, s \in {1, -2, 0}, a \in BOOLEAN}
    \cup {OneBlock(Blk(4, "little_endian",
            <<Pt("p", 2, "f32", 1, TRUE, "V"), Pt("q", 0, "i32", -1, TRUE, "A")>>)),
          OneBlock(Blk(4, "big_endian",
            <<Pt("p", 3, "u16", 1, FALSE, "V"), Pt("q", 0, "u16", 1, FALSE, "A"),
              Pt("r", 1, "i16", 1, FALSE, "V"), Pt("s", 2, "i16", 1, FALSE, "A")>>)),
          OneBlock(Blk(3, "big_endian",
            <<Pt("p", 0, "u16", 1, FALSE, "V"), Pt("q", 1, "u16", 1, FALSE, "A"),
              Pt("p", 2, "i16", 1, FALSE, "A")>>)),
          OnTcp(<<Dev("meter1", 1, <<Small, Blk(2, "little_endian", <<Pt("q", 0, "f32", 2, FALSE, "A")>>)>>),
                  Dev("meter1", 2, <<Blk(1, "big_endian", <<Pt("p", 0, "i16", 1, FALSE, "A")>>)>>)>>),
          Cfg(<<Conn(Tcp, 10, <<M1>>), Conn(Rtu("a", 8, 1), 10, <<M1, Dev("meter2", 2, <<Small>>)>>)>>)}

MCConfigs == GatewayFields \cup Links \cup UnitIds \cup Placements \cup Limits \cup Meanings
=============================================================================

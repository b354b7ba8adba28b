------------------------------ MODULE Registers ------------------------------
(***************************************************************************)
(* The decoding of Modbus registers (src/src/modbus/decode.rs) and the     *)
(* arithmetic of the values that come out of it.  A register holds a       *)
(* number below Radix (2^16 in the code, smaller in the runs), a value is  *)
(* a number or one of the floats that are none; numbers are exact.         *)
(***************************************************************************)
EXTENDS Integers, Sequences

CONSTANTS
    Radix,      \* the number of values of a register
    Float32     \* f32::from_bits, as a function on 0 .. Radix^2 - 1

Num(n) == <<"num", n>>
Inf(s) == <<"inf", s>>
NaN == <<"nan", 0>>

Value == ({"num"} \X Int) \cup {Inf(1), Inf(-1), NaN}

IsNum(v) == v[1] = "num"

Sign(n) == IF n > 0 THEN 1 ELSE IF n < 0 THEN -1 ELSE 0

\* The product of a value and a finite scale.
Times(v, s) ==
    IF IsNum(v) THEN Num(v[2] * s)
    ELSE IF v = NaN \/ s = 0 THEN NaN
    ELSE Inf(v[2] * Sign(s))

Plus(v, w) ==
    IF IsNum(v) /\ IsNum(w) THEN Num(v[2] + w[2])
    ELSE IF IsNum(v) THEN w
    ELSE IF IsNum(w) \/ v = w THEN v
    ELSE NaN

Magnitude(v) == IF v # NaN /\ v[2] < 0 THEN <<v[1], -v[2]>> ELSE v

-----------------------------------------------------------------------------
\* A number below m, read as two's complement.
Signed(n, m) == IF 2 * n >= m THEN n - m ELSE n

\* Mutated: the order of the words is ignored.
CombineBigEndian(words, i, order) == words[i] * Radix + words[i + 1]

Combine(words, i, order) ==
    IF order = "big_endian" THEN words[i] * Radix + words[i + 1]
                            ELSE words[i + 1] * Radix + words[i]

ExtractRaw(words, p, order) ==
    LET i == p.offset + 1 IN
    CASE p.type = "u16" -> Num(words[i])
      [] p.type = "i16" -> Num(Signed(words[i], Radix))
      [] p.type = "u32" -> Num(Combine(words, i, order))
      [] p.type = "i32" -> Num(Signed(Combine(words, i, order), Radix * Radix))
      [] p.type = "f32" -> Float32[Combine(words, i, order)]

Scaled(raw, p) == IF p.absolute THEN Magnitude(Times(raw, p.scale)) ELSE Times(raw, p.scale)

\* The reading of each point of a block.
Decode(block, words) ==
    [k \in DOMAIN block.points |->
        LET p == block.points[k] IN
        [name |-> p.name, value |-> Scaled(ExtractRaw(words, p, block.wordOrder), p)]]
=============================================================================

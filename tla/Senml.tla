-------------------------------- MODULE Senml --------------------------------
(***************************************************************************)
(* The SenML pack of a batch (src/src/senml.rs).  An optional field is a   *)
(* set of at most one element; the base name is its gateway-wide prefix    *)
(* and the device, kept apart.                                             *)
(***************************************************************************)
EXTENDS Integers, Sequences, FiniteSets

CONSTANT BaseNamePrefix

Uses(points, u) == Cardinality({i \in DOMAIN points : points[i].unit = u})

\* The units that max_by_key may return: the HashMap's order decides a tie.
MostUsed(points) ==
    {u \in {points[i].unit : i \in DOMAIN points} :
        \A j \in DOMAIN points : Uses(points, points[j].unit) <= Uses(points, u)}

\* The outcomes of majority_unit.
MajorityUnits(points) ==
    IF points = <<>> THEN {{}}
    ELSE {IF 2 * Uses(points, u) > Len(points) THEN {u} ELSE {} : u \in MostUsed(points)}

\* serde_json writes a float that is no number as null.
JsonNumber(v) == IF v[1] = "num" THEN v ELSE <<"null">>

EncodeWith(batch, bu) ==
    [i \in DOMAIN batch.points |->
        [bn |-> IF i = 1 THEN {<<BaseNamePrefix, batch.device>>} ELSE {},
         bt |-> IF i = 1 THEN {batch.windowStart} ELSE {},
         bu |-> IF i = 1 THEN bu ELSE {},
         n  |-> batch.points[i].name,
         u  |-> batch.points[i].unit,
         v  |-> JsonNumber(batch.points[i].mean)]]

\* The packs that encode_senml may make of a batch.
EncodeSenml(batch) == {EncodeWith(batch, bu) : bu \in MajorityUnits(batch.points)}

-----------------------------------------------------------------------------
\* How a receiver reads a pack (RFC 8428, 4.1 and 4.2): a base field holds from its
\* record on until it is given again.
Latest(fields, i) ==
    LET given == {j \in 1 .. i : fields[j] # {}} IN
    IF given = {} THEN {} ELSE fields[CHOOSE j \in given : \A k \in given : k <= j]

Resolve(pack) ==
    LET names == [i \in DOMAIN pack |-> pack[i].bn]
        times == [i \in DOMAIN pack |-> pack[i].bt]
    IN {[base |-> Latest(names, i), name |-> pack[i].n, time |-> Latest(times, i),
         unit |-> pack[i].u, value |-> pack[i].v] : i \in DOMAIN pack}
=============================================================================

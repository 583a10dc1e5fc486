------------------------------ MODULE Syscalls ------------------------------
(***************************************************************************)
(* The BLS12-381 and BN254 system calls: point addition, subtraction,      *)
(* multiplication, decompression, validation and pairings over encoded     *)
(* points, each in two byte orders.  A program keeps one point in memory   *)
(* and hands the answer of a call to the next one; a second program does   *)
(* the same in the other byte order.                                       *)
(*                                                                         *)
(* The curve libraries (blstrs, ark_bn254) are external: they are modelled *)
(* over small curves, with G1 over a prime field and G2 over its quadratic *)
(* extension.  A base field element is two bytes of four bits.  BLS12-381's *)
(* prime has five bits, and leaves its library three flag bits, as 381     *)
(* bits do in 48 bytes; BN254's has six and leaves two, as 254 bits do in  *)
(* 32 bytes, and twice the prime runs into them.                           *)
(***************************************************************************)
EXTENDS Integers, FiniteSets, SequencesExt

CONSTANTS
  MAX_PAIRING_LENGTH,  (* 8                                                *)
  MaxCalls             (* bound on the calls a program makes               *)

ASSUME SyscallsAssumption ==
  MAX_PAIRING_LENGTH \in Nat /\ MaxCalls \in Nat

Curves == {"bls", "bn"}
Groups == {"G1", "G2"}
Endianness == {"BE", "LE"}

None == <<>>
Some(x) == <<x>>
-----------------------------------------------------------------------------
(* The libraries' fields: c0 + c1 u with u * u = -1, where G1 has c1 = 0.  *)
Prime == [bls |-> 19, bn |-> 43]
Order == [bls |-> 7, bn |-> 31]
Coefficient == [bls |-> [G1 |-> <<4, 0>>, G2 |-> <<0, 1>>],
                bn  |-> [G1 |-> <<7, 0>>, G2 |-> <<1, 3>>]]

FqPlus(q, a, b) == <<(a[1] + b[1]) % q, (a[2] + b[2]) % q>>
FqMinus(q, a, b) == <<(a[1] - b[1]) % q, (a[2] - b[2]) % q>>
FqTimes(q, a, b) ==
  <<(a[1] * b[1] - a[2] * b[2]) % q, (a[1] * b[2] + a[2] * b[1]) % q>>
FqInverse(q, a) ==
  LET n == CHOOSE n \in 1 .. q - 1 : (n * (a[1] * a[1] + a[2] * a[2])) % q = 1
  IN  <<(a[1] * n) % q, (-a[2] * n) % q>>

Cubic(c, g, x) ==
  FqPlus(Prime[c], FqTimes(Prime[c], FqTimes(Prime[c], x, x), x), Coefficient[c][g])
OnCurve(c, g, x, y) == FqTimes(Prime[c], y, y) = Cubic(c, g, x)

(* The libraries' group law, Infinity its neutral element. *)
Infinity == <<>>

Chord(q, P, S, slope) ==
  LET x == FqMinus(q, FqMinus(q, FqTimes(q, slope, slope), P[1]), S[1])
  IN  <<x, FqMinus(q, FqTimes(q, slope, FqMinus(q, P[1], x)), P[2])>>

Negate(c, P) ==
  IF P = Infinity THEN P ELSE <<P[1], FqMinus(Prime[c], <<0, 0>>, P[2])>>

PlusPoint(c, P, S) ==
  LET q == Prime[c]
  IN  IF P = Infinity THEN S
      ELSE IF S = Infinity THEN P
      ELSE IF S = Negate(c, P) THEN Infinity
      ELSE IF S = P
      THEN Chord(q, P, S, FqTimes(q, FqTimes(q, <<3, 0>>, FqTimes(q, P[1], P[1])),
                                  FqInverse(q, FqPlus(q, P[2], P[2]))))
      ELSE Chord(q, P, S, FqTimes(q, FqMinus(q, S[2], P[2]),
                                  FqInverse(q, FqMinus(q, S[1], P[1]))))

TimesPoint(c, n, P) ==
  LET multiple[k \in 0 .. n] ==
        IF k = 0 THEN Infinity ELSE PlusPoint(c, multiple[k - 1], P)
  IN  multiple[n]

TorsionFree(c, P) == TimesPoint(c, Order[c], P) = Infinity

FieldOf(c, g) ==
  (0 .. Prime[c] - 1) \X (IF g = "G1" THEN {0} ELSE 0 .. Prime[c] - 1)

(* Every point of the four curves. *)
PointsOf ==
  [c \in Curves |-> [g \in Groups |->
     LET square == [y \in FieldOf(c, g) |-> FqTimes(Prime[c], y, y)]
         roots(v) == {y \in FieldOf(c, g) : square[y] = v}
     IN  {Infinity} \union
         UNION {LET v == Cubic(c, g, x) IN {<<x, y>> : y \in roots(v)} :
                  x \in FieldOf(c, g)}]]

Generator ==
  [c \in Curves |-> [g \in Groups |->
     CHOOSE P \in PointsOf[c][g] : P # Infinity /\ TorsionFree(c, P)]]

(* The exponent of e(P, S): pairings are bilinear in the logarithms. *)
Log ==
  [c \in Curves |-> [g \in Groups |->
     [P \in {P \in PointsOf[c][g] : TorsionFree(c, P)} |->
        CHOOSE k \in 0 .. Order[c] - 1 : TimesPoint(c, k, Generator[c][g]) = P]]]
PairingExponent(c, pairs) ==
  FoldSeq(LAMBDA pair, sum :
            (sum + Log[c].G1[pair[1]] * Log[c].G2[pair[2]]) % Order[c],
          0, pairs)
-----------------------------------------------------------------------------
(* What an encoding says, apart from the order of its bytes: the flags of  *)
(* its top byte and the coefficients c0, c1 of each coordinate.  Both      *)
(* crates document the same two orders: big-endian starts with the highest *)
(* coefficient of a coordinate, little-endian with the lowest, and the     *)
(* coefficients' bytes follow the same order.                              *)
Flags == [none |-> 0, sort |-> 1, infinity |-> 2, compressed |-> 4]

(* ark_serialize's SWFlags: 0x40 and 0x80 of the last byte of y.           *)
SWFlags == [none |-> 0, infinity |-> 1, negative |-> 2]

FlagUnit == [bls |-> 32, bn |-> 64]
FlagPlace(c, g, n) ==  \* the coefficient, of n, that shares its top byte
  IF c = "bn" THEN n ELSE IF g = "G1" THEN 1 ELSE 2

Place(g, e, k) ==  \* the chunk that holds coefficient k
  IF g = "G1" \/ e = "LE" THEN k ELSE IF k % 2 = 1 THEN k + 1 ELSE k - 1

ChunkAt(e, b, k) ==
  IF e = "BE" THEN 16 * b[2 * k - 1] + b[2 * k] ELSE b[2 * k - 1] + 16 * b[2 * k]

Content(c, g, e, b) ==
  LET n == Len(b) \div 2
      raw == [k \in 1 .. n |-> ChunkAt(e, b, Place(g, e, k))]
      top == FlagPlace(c, g, n)
  IN  [flags        |-> raw[top] \div FlagUnit[c],
       coefficients |-> [raw EXCEPT ![top] = @ % FlagUnit[c]]]

Encode(c, g, e, doc) ==
  LET n == Len(doc.coefficients)
      raw == [doc.coefficients EXCEPT ![FlagPlace(c, g, n)] = @ + FlagUnit[c] * doc.flags]
      chunk(v) == IF e = "BE" THEN <<v \div 16, v % 16>> ELSE <<v % 16, v \div 16>>
  IN  FlattenSeq([k \in 1 .. n |-> chunk(raw[Place(g, e, k)])])

Coefficients(g, P) ==
  IF g = "G1" THEN <<P[1][1], P[2][1]>> ELSE P[1] \o P[2]

PointAt(g, k) ==
  IF g = "G1" THEN <<<<k[1], 0>>, <<k[2], 0>>>> ELSE <<<<k[1], k[2]>>, <<k[3], k[4]>>>>

DocOf(c, g, P) ==
  IF P # Infinity THEN [flags |-> 0, coefficients |-> Coefficients(g, P)]
  ELSE [flags        |-> IF c = "bls" THEN Flags.infinity ELSE 0,
        coefficients |-> IF g = "G1" THEN <<0, 0>> ELSE <<0, 0, 0, 0>>]

(* The point an encoding stands for, if any.  A point of BLS12-381 has one *)
(* encoding.  A BN254 point other than infinity has two, since the library *)
(* masks the sign flag of an uncompressed point; infinity has, beside the  *)
(* zeros, every pair of coordinates under the infinity flag.               *)
StandsFor(c, g, doc, P) ==
  \/ doc = DocOf(c, g, P)
  \/ /\ c = "bn" /\ P # Infinity
     /\ doc = [DocOf(c, g, P) EXCEPT !.flags = SWFlags.negative]
  \/ /\ c = "bn" /\ P = Infinity /\ doc.flags = SWFlags.infinity
     /\ \A k \in DOMAIN doc.coefficients : doc.coefficients[k] < Prime.bn

Decode(c, g, doc) ==
  LET P == PointAt(g, doc.coefficients)
  IN  IF StandsFor(c, g, doc, Infinity) THEN Some(Infinity)
      ELSE IF P \in PointsOf[c][g] /\ StandsFor(c, g, doc, P) THEN Some(P) ELSE None
-----------------------------------------------------------------------------
(* blstrs: an uncompressed encoding in big-endian order.  The infinity     *)
(* flag is honoured with the compression flag set too.                     *)
IsZeroFrom(b, k) == \A i \in k .. Len(b) : b[i] = 0

ToCoordinates(g, raw) ==
  IF g = "G1" THEN <<<<raw[1], 0>>, <<raw[2], 0>>>>
  ELSE <<<<raw[2], raw[1]>>, <<raw[4], raw[3]>>>>

FromUncompressed(g, b) ==
  LET flags == b[1] \div 2
      raw == [k \in 1 .. Len(b) \div 2 |-> ChunkAt("BE", b, k)]
      P == ToCoordinates(g, raw)
  IN  IF flags = 0
      THEN IF (\A k \in DOMAIN raw : raw[k] < Prime.bls) /\ OnCurve("bls", g, P[1], P[2])
           THEN Some(P) ELSE None
      ELSE IF flags \in {Flags.infinity, Flags.infinity + Flags.compressed}
              /\ b[1] % 2 = 0 /\ IsZeroFrom(b, 2)
      THEN Some(Infinity) ELSE None

Larger(y) ==
  LET n == FqMinus(Prime.bls, <<0, 0>>, y)
  IN  y[2] > n[2] \/ (y[2] = n[2] /\ y[1] > n[1])

FromCompressed(g, b) ==
  LET flags == b[1] \div 2
      raw == [k \in 1 .. Len(b) \div 2 |-> ChunkAt("BE", b, k) % (IF k = 1 THEN 32 ELSE 256)]
      x == IF g = "G1" THEN <<raw[1], 0>> ELSE <<raw[2], raw[1]>>
      roots == {y \in FieldOf("bls", g) : OnCurve("bls", g, x, y)
                                          /\ (Larger(y) = (flags % 2 = 1))}
  IN  IF flags = Flags.compressed + Flags.infinity
      THEN IF b[1] % 2 = 0 /\ IsZeroFrom(b, 2) THEN Some(Infinity) ELSE None
      ELSE IF flags \in {Flags.compressed, Flags.compressed + Flags.sort}
              /\ (\A k \in DOMAIN raw : raw[k] < Prime.bls) /\ roots # {}
      THEN Some(<<x, CHOOSE y \in roots : TRUE>>) ELSE None

ToUncompressed(g, P) == Encode("bls", g, "BE", DocOf("bls", g, P))
-----------------------------------------------------------------------------
(* encoding.rs *)
swap_fq_endianness(b) ==
  FlattenSeq([k \in 1 .. Len(b) \div 2 |-> Reverse(SubSeq(b, 2 * k - 1, 2 * k))])

swap_g2_c0_c1(b) ==
  FlattenSeq([k \in 1 .. Len(b) \div 4 |->
    SubSeq(b, 4 * k - 1, 4 * k) \o SubSeq(b, 4 * k - 3, 4 * k - 2)])

FromEndianness(g, e, b) ==
  IF e = "BE" THEN b
  ELSE IF g = "G1" THEN swap_fq_endianness(b)
  ELSE swap_g2_c0_c1(swap_fq_endianness(b))

(* Mutant of ToEndianness: the coefficients of G2 keep their order. *)
ToEndiannessUnswapped(g, e, b) ==
  IF e = "BE" THEN b ELSE swap_fq_endianness(b)

ToEndianness(g, e, b) ==
  IF e = "BE" THEN b
  ELSE IF g = "G1" THEN swap_fq_endianness(b)
  ELSE swap_fq_endianness(swap_g2_c0_c1(b))

(* 0xa0: an encoding with the compression or the sort flag is no           *)
(* uncompressed point.                                                     *)
to_affine_subgroup_unchecked(g, e, b) ==
  LET bytes == FromEndianness(g, e, b)
  IN  IF bytes[1] \div 8 = 1 \/ (bytes[1] \div 2) % 2 = 1 THEN None
      ELSE FromUncompressed(g, bytes)

to_affine(g, e, b) ==
  SelectSeq(to_affine_subgroup_unchecked(g, e, b), LAMBDA P : TorsionFree("bls", P))

to_scalar(e, s) ==
  IF ChunkAt(e, s, 1) < Order.bls THEN Some(ChunkAt(e, s, 1)) ELSE None

(* The twelve coefficients of a target group element are two here, least   *)
(* significant first; big-endian output is the whole array reversed.       *)
GtCoefficients(t) == IF t = 0 THEN <<1, 0>> ELSE <<t, 2 * t>>

serialize_gt(t, e) ==
  LET le == Encode("bn", "G1", "LE", [flags |-> 0, coefficients |-> GtCoefficients(t)])
  IN  IF e = "BE" THEN Reverse(le) ELSE le
-----------------------------------------------------------------------------
(* The BLS12-381 calls: None or the bytes of the answer. *)
BlsAnswer(g, e, P) == Some(ToEndianness(g, e, ToUncompressed(g, P)))

bls12_381_addition(g, e, b1, b2) ==
  LET p1 == to_affine_subgroup_unchecked(g, e, b1)
      p2 == to_affine_subgroup_unchecked(g, e, b2)
  IN  IF p1 = None \/ p2 = None THEN None
      ELSE BlsAnswer(g, e, PlusPoint("bls", p1[1], p2[1]))

(* A first operand at infinity is taken apart. *)
bls12_381_subtraction(g, e, b1, b2) ==
  LET p1 == to_affine_subgroup_unchecked(g, e, b1)
      p2 == to_affine_subgroup_unchecked(g, e, b2)
  IN  IF p1 = None \/ p2 = None THEN None
      ELSE IF p1[1] = Infinity THEN BlsAnswer(g, e, Negate("bls", p2[1]))
      ELSE BlsAnswer(g, e, PlusPoint("bls", p1[1], Negate("bls", p2[1])))

bls12_381_multiplication(g, e, b, s) ==
  LET p1 == to_affine(g, e, b)
      scalar_val == to_scalar(e, s)
  IN  IF p1 = None \/ scalar_val = None THEN None
      ELSE BlsAnswer(g, e, TimesPoint("bls", scalar_val[1], p1[1]))

bls12_381_decompress(g, e, b) ==
  LET p == FromCompressed(g, FromEndianness(g, e, b))
  IN  IF p = None \/ (p # None /\ ~ TorsionFree("bls", p[1])) THEN None
      ELSE BlsAnswer(g, e, p[1])

bls12_381_point_validation(g, e, b) == to_affine(g, e, b) # None

bls12_381_pairing_map(e, g1_points, g2_points) ==
  LET g1(i) == to_affine("G1", e, g1_points[i])
      g2(i) == to_affine("G2", e, g2_points[i])
  IN  IF Len(g1_points) # Len(g2_points) \/ Len(g1_points) > MAX_PAIRING_LENGTH
         \/ \E i \in DOMAIN g1_points : g1(i) = None \/ g2(i) = None
      THEN None
      ELSE Some(serialize_gt(
             PairingExponent("bls", [i \in DOMAIN g1_points |-> <<g1(i)[1], g2(i)[1]>>]), e))
-----------------------------------------------------------------------------
(* BN254: encodings are turned into ark_bn254's little-endian order; a     *)
(* point of G1 has chunks of one field element, one of G2 chunks of two.   *)
SizeOf(g) == IF g = "G1" THEN 4 ELSE 8

swap_endianness(chunk, b) ==
  FlattenSeq([k \in 1 .. Len(b) \div chunk |->
    Reverse(SubSeq(b, chunk * (k - 1) + 1, chunk * k))])

FromBytes(g, e, b) == IF e = "LE" THEN b ELSE swap_endianness(SizeOf(g) \div 2, b)

(* ark_bn254: an uncompressed encoding, of as many bytes as the            *)
(* coordinates.  Two bits are enough for its flags, so they are the top    *)
(* bits of the last coefficient, and the byte the code appends to say that *)
(* the point is finite is never read.  Coefficients are compared with the  *)
(* prime once the flag set is masked; two flags are an error; under the    *)
(* infinity flag the coordinates are not used.                             *)
DeserializeUncompressed(g, b, check) ==
  LET n == Len(b) \div 2
      flags == b[Len(b)] \div 4
      raw == [k \in 1 .. n |-> ChunkAt("LE", b, k) % (IF k = n THEN 64 ELSE 256)]
      P == PointAt(g, raw)
  IN  IF flags = SWFlags.infinity + SWFlags.negative \/ \E k \in 1 .. n : raw[k] >= Prime.bn
      THEN None
      ELSE IF flags = SWFlags.infinity THEN Some(Infinity)
      ELSE IF OnCurve("bn", g, P[1], P[2]) /\ (check => TorsionFree("bn", P))
      THEN Some(P) ELSE None

(* Mutant of into_affine: the zero encoding is not taken apart. *)
into_affine_zero_is_no_point(g, b, check) == DeserializeUncompressed(g, b, check)

(* into_affine, and into_affine_unchecked when check is FALSE: the zero    *)
(* encoding, which has no flag, is handled before.                         *)
into_affine(g, b, check) ==
  IF IsZeroFrom(b, 1) THEN Some(Infinity) ELSE DeserializeUncompressed(g, b, check)

(* The coordinates of infinity are written as zeros. *)
BnAnswer(g, e, P) ==
  LET le == Encode("bn", g, "LE", DocOf("bn", g, P))
  IN  Some(IF e = "LE" THEN le ELSE swap_endianness(SizeOf(g) \div 2, le))

(* Big-endian calls on G1 accept a short input, as if zeros followed. *)
LengthOK(g, e, input, size) ==
  IF g = "G1" /\ e = "BE" THEN Len(input) <= size ELSE Len(input) = size

Padded(input, size) ==
  IF Len(input) >= size THEN input
  ELSE input \o [k \in 1 .. size - Len(input) |-> 0]

alt_bn128_addition(g, e, input) ==
  LET size == 2 * SizeOf(g)
      bytes == Padded(input, size)
      p == into_affine(g, FromBytes(g, e, SubSeq(bytes, 1, SizeOf(g))), g = "G1")
      q == into_affine(g, FromBytes(g, e, SubSeq(bytes, SizeOf(g) + 1, size)), g = "G1")
  IN  IF ~ LengthOK(g, e, input, size) THEN None
      ELSE IF p = None \/ q = None THEN None
      ELSE BnAnswer(g, e, PlusPoint("bn", p[1], q[1]))

(* The scalar is any integer of 32 bytes: it is not compared with r. *)
alt_bn128_multiplication(g, e, version, input) ==
  LET size == SizeOf(g) + 2
      bytes == Padded(input, size)
      p == into_affine(g, FromBytes(g, e, SubSeq(bytes, 1, SizeOf(g))), TRUE)
      fr == ChunkAt(e, SubSeq(bytes, SizeOf(g) + 1, size), 1)
  IN  IF (g = "G1" /\ version = "V0") \/ ~ LengthOK(g, e, input, size) THEN None
      ELSE IF p = None THEN None
      ELSE BnAnswer(g, e, TimesPoint("bn", fr, p[1]))

(* The answer says whether the product of the pairings is one. *)
alt_bn128_pairing(e, version, input) ==
  LET element == SizeOf("G1") + SizeOf("G2")
      at(i) == SubSeq(input, element * (i - 1) + 1, element * i)
      g1(i) == into_affine("G1", FromBytes("G1", e, SubSeq(at(i), 1, SizeOf("G1"))), TRUE)
      g2(i) == into_affine("G2", FromBytes("G2", e, SubSeq(at(i), SizeOf("G1") + 1, element)), TRUE)
      chunks == 1 .. Len(input) \div element
  IN  IF version = "V0" \/ Len(input) % element # 0
         \/ \E i \in chunks : g1(i) = None \/ g2(i) = None
      THEN None
      ELSE LET one == IF PairingExponent("bn", [i \in chunks |-> <<g1(i)[1], g2(i)[1]>>]) = 0
                      THEN 1 ELSE 0
           IN  Some(IF e = "BE" THEN <<0, one>> ELSE <<one, 0>>)
-----------------------------------------------------------------------------
VARIABLES
  curve, group,  (* where the program works                                *)
  point,         (* the point it has computed, Infinity at first           *)
  held,          (* that point's encoding in each byte order, from the     *)
                 (* last answer                                            *)
  call,          (* the last call: what it should say and what it said     *)
  calls          (* how many there were                                    *)

vars == <<curve, group, point, held, call, calls>>

NoCall == [name |-> "none", layout |-> <<"bls", "G1">>,
           expected |-> [e \in Endianness |-> None],
           answers  |-> [e \in Endianness |-> None]]

Init ==
  /\ curve \in Curves /\ group \in Groups
  /\ point = Infinity
  /\ held = [e \in Endianness |-> Encode(curve, group, e, DocOf(curve, group, Infinity))]
  /\ call = NoCall
  /\ calls = 0

Record(name, layout, expected, answers) ==
  /\ calls < MaxCalls /\ calls' = calls + 1
  /\ call' = [name |-> name, layout |-> layout, expected |-> expected, answers |-> answers]
  /\ UNCHANGED <<curve, group>>

(* The program keeps the point of the answers, if both calls gave one. *)
Keep(P) ==
  IF \A e \in Endianness : call'.answers[e] # None
  THEN point' = P /\ held' = [e \in Endianness |-> call'.answers[e][1]]
  ELSE UNCHANGED <<point, held>>

Constantly(x) == [e \in Endianness |-> x]
Doc(P) == DocOf(curve, group, P)
-----------------------------------------------------------------------------
(* Operands: points in and out of the prime-order subgroup, and encodings  *)
(* with other flags, with a coefficient past the prime, and off the curve. *)
SamplePoints ==
  [c \in Curves |-> [g \in Groups |->
    LET G == Generator[c][g]
        outside == PointsOf[c][g] \ DOMAIN Log[c][g]  \* of another order
    IN  {Infinity, G, PlusPoint(c, G, G), Negate(c, G)}
          \union (IF outside = {} THEN {} ELSE {CHOOSE P \in outside : TRUE})]]

Variations(c, doc) ==
  LET unit == FlagUnit[c]
  IN  {doc}
        \union {[doc EXCEPT !.coefficients[k] = (@ + d) % unit] :
                  k \in DOMAIN doc.coefficients, d \in {1, Prime[c]}}
        \union {[doc EXCEPT !.flags = f] : f \in 0 .. (256 \div unit) - 1}

(* A coordinate past the prime that runs into the flags, and coordinates   *)
(* off the curve or past the prime under each flag.                        *)
Flagged(g, P) ==
  LET doc == DocOf("bn", g, P)
      n == Len(doc.coefficients)
      past == doc.coefficients[n] + Prime.bn
  IN  {[flags |-> past \div 64, coefficients |-> [doc.coefficients EXCEPT ![n] = past % 64]]}
        \union {[flags |-> f, coefficients |-> [doc.coefficients EXCEPT ![k] = v]] :
                  f \in 1 .. 3, k \in {1, n}, v \in {1, Prime.bn}}

Docs ==
  [c \in Curves |-> [g \in Groups |->
    {DocOf(c, g, P) : P \in SamplePoints[c][g]}
      \union Variations(c, DocOf(c, g, Generator[c][g]))
      \union Variations(c, DocOf(c, g, Infinity))
      \union (IF c = "bn" THEN Flagged(g, Generator.bn[g])
                                 \union Flagged(g, Negate("bn", Generator.bn[g]))
              ELSE {})]]

CompressedDoc(g, P) ==
  IF P = Infinity
  THEN [flags        |-> Flags.compressed + Flags.infinity,
        coefficients |-> IF g = "G1" THEN <<0>> ELSE <<0, 0>>]
  ELSE [flags        |-> Flags.compressed + (IF Larger(P[2]) THEN Flags.sort ELSE 0),
        coefficients |-> IF g = "G1" THEN <<P[1][1]>> ELSE P[1]]

CompressedDocs ==
  [g \in Groups |->
    {CompressedDoc(g, P) : P \in SamplePoints.bls[g]}
      \union Variations("bls", CompressedDoc(g, Generator.bls[g]))
      \union Variations("bls", CompressedDoc(g, Infinity))]

Scalars == [bls |-> {0, 1, 3, 6, 7, 8}, bn |-> {0, 1, 5, 30, 31, 32}]
Scalar(e, s) == IF e = "BE" THEN <<s \div 16, s % 16>> ELSE <<s % 16, s \div 16>>
-----------------------------------------------------------------------------
bls == <<"bls", group>>

BlsAdd ==
  /\ curve = "bls"
  /\ \E doc \in Docs.bls[group] :
       LET q == Decode("bls", group, doc)
           sum == IF q = None THEN None ELSE Some(PlusPoint("bls", point, q[1]))
       IN  /\ Record("add", bls, Constantly(IF q = None THEN None ELSE Some(Doc(sum[1]))),
                     [e \in Endianness |->
                       bls12_381_addition(group, e, held[e], Encode("bls", group, e, doc))])
           /\ Keep(IF sum = None THEN point ELSE sum[1])

BlsSubtract ==
  /\ curve = "bls"
  /\ \E doc \in Docs.bls[group] :
       LET q == Decode("bls", group, doc)
           difference == IF q = None THEN None
                         ELSE Some(PlusPoint("bls", point, Negate("bls", q[1])))
       IN  /\ Record("subtract", bls,
                     Constantly(IF q = None THEN None ELSE Some(Doc(difference[1]))),
                     [e \in Endianness |->
                       bls12_381_subtraction(group, e, held[e], Encode("bls", group, e, doc))])
           /\ Keep(IF difference = None THEN point ELSE difference[1])

BlsMultiply ==
  /\ curve = "bls"
  /\ \E s \in Scalars.bls :
       LET ok == s < Order.bls /\ TorsionFree("bls", point)
       IN  /\ Record("multiply", bls,
                     Constantly(IF ok THEN Some(Doc(TimesPoint("bls", s, point))) ELSE None),
                     [e \in Endianness |->
                       bls12_381_multiplication(group, e, held[e], Scalar(e, s))])
           /\ Keep(TimesPoint("bls", s, point))

BlsDecompress ==
  /\ curve = "bls"
  /\ \E doc \in CompressedDocs[group] :
       LET P == {P \in PointsOf.bls[group] :
                   CompressedDoc(group, P) = doc /\ TorsionFree("bls", P)}
       IN  /\ Record("decompress", bls,
                     Constantly(IF P = {} THEN None ELSE Some(Doc(CHOOSE x \in P : TRUE))),
                     [e \in Endianness |->
                       bls12_381_decompress(group, e, Encode("bls", group, e, doc))])
           /\ Keep(IF P = {} THEN point ELSE CHOOSE x \in P : TRUE)

(* A validation answers the encoding itself, or nothing. *)
BlsValidate ==
  /\ curve = "bls"
  /\ Record("validate", bls,
            Constantly(IF TorsionFree("bls", point) THEN Some(Doc(point)) ELSE None),
            [e \in Endianness |->
              IF bls12_381_point_validation(group, e, held[e]) THEN Some(held[e]) ELSE None])
  /\ Keep(point)

PairingPoints ==
  {<<>>} \union
  {<<P>> : P \in SamplePoints.bls.G2} \union
  {<<Generator.bls.G2, P>> : P \in SamplePoints.bls.G2} \union
  {<<Generator.bls.G2, Generator.bls.G2, Generator.bls.G2>>}

(* The program's point against n points of G2, n at most one past the      *)
(* limit, with and without as many points of G1.                           *)
BlsPairing ==
  /\ curve = "bls" /\ group = "G1"
  /\ \E qs \in PairingPoints, n \in 0 .. MAX_PAIRING_LENGTH + 1 :
       LET ok == /\ n = Len(qs) /\ n <= MAX_PAIRING_LENGTH
                 /\ n > 0 => TorsionFree("bls", point)
                 /\ \A i \in DOMAIN qs : TorsionFree("bls", qs[i])
           pairs == [i \in DOMAIN qs |-> <<point, qs[i]>>]
       IN  /\ Record("pairing", <<"bn", "G2">>,
                     Constantly(IF ok THEN Some([flags |-> 0, coefficients |->
                                  GtCoefficients(PairingExponent("bls", pairs))])
                                ELSE None),
                     [e \in Endianness |->
                       bls12_381_pairing_map(e, [i \in 1 .. n |-> held[e]],
                         [i \in DOMAIN qs |-> Encode("bls", "G2", e, DocOf("bls", "G2", qs[i]))])])
           /\ UNCHANGED <<point, held>>
-----------------------------------------------------------------------------
(* A BN254 call takes one buffer, which may be shorter or longer than the  *)
(* operands; what is missing counts as zeros where a short one is allowed. *)
Resized(b, n) == SubSeq(Padded(b, n), 1, n)

Allowed(e, n, size) == n = size \/ (n < size /\ group = "G1" /\ e = "BE")

DecodePart(e, b, first) ==
  Decode("bn", group, Content("bn", group, e, SubSeq(b, first, first + SizeOf(group) - 1)))

BnOperands(e, b, n) ==
  LET bytes == Padded(Resized(b, n), 2 * SizeOf(group))
      p == DecodePart(e, bytes, 1)
      q == DecodePart(e, bytes, SizeOf(group) + 1)
  IN  IF Allowed(e, n, 2 * SizeOf(group)) /\ p # None /\ q # None
      THEN Some(PlusPoint("bn", p[1], q[1])) ELSE None

BnAdd ==
  /\ curve = "bn"
  /\ \E doc \in Docs.bn[group], cut \in {-1, 0, 1, 3, SizeOf(group), 2 * SizeOf(group)} :
       LET n == 2 * SizeOf(group) - cut
           input == [e \in Endianness |-> held[e] \o Encode("bn", group, e, doc)]
           sum == [e \in Endianness |-> BnOperands(e, input[e], n)]
       IN  /\ group = "G2" => cut \in {-1, 0, 1}
           /\ Record("add", <<"bn", group>>,
                     [e \in Endianness |-> IF sum[e] = None THEN None ELSE Some(Doc(sum[e][1]))],
                     [e \in Endianness |-> alt_bn128_addition(group, e, Resized(input[e], n))])
           /\ Keep(IF sum.BE = None THEN point ELSE sum.BE[1])

(* The held point, or any other encoding. *)
EncodingsOf(g, doc) == [e \in Endianness |-> Encode("bn", g, e, doc)]
Operands == {held} \union {EncodingsOf(group, doc) : doc \in Docs.bn[group]}

BnMultiply ==
  /\ curve = "bn"
  /\ \E operand \in Operands, s \in Scalars.bn, version \in {"V0", "V1"}, cut \in {-1, 0, 1} :
       LET n == SizeOf(group) + 2 - cut
           p == DecodePart("BE", operand.BE, 1)
           admitted == /\ p # None /\ TorsionFree("bn", p[1])
                       /\ group = "G1" => version = "V1"
           ok(e) == admitted /\ Allowed(e, n, SizeOf(group) + 2)
           factor == IF cut = 1 THEN 16 * (s \div 16) ELSE s
           product == TimesPoint("bn", factor, p[1])
       IN  /\ operand # held => s = 5 /\ cut = 0
           /\ Record("multiply", <<"bn", group>>,
                     [e \in Endianness |-> IF ok(e) THEN Some(Doc(product)) ELSE None],
                     [e \in Endianness |->
                       alt_bn128_multiplication(group, e, version,
                         Resized(operand[e] \o Scalar(e, s), n))])
           /\ Keep(IF p = None THEN point ELSE product)

(* A first operand, and points of G2 it is paired with; one of the two may *)
(* be any encoding.                                                        *)
PairingDocs ==
  LET doc(P) == DocOf("bn", "G2", P)
      G == Generator.bn.G2
  IN  {<<>>} \union {<<d>> : d \in Docs.bn.G2}
        \union {<<doc(G), doc(P)>> : P \in SamplePoints.bn.G2}
        \union {<<doc(G), doc(G), doc(G)>>}

BnPairing ==
  /\ curve = "bn" /\ group = "G1"
  /\ \E operand \in Operands, qs \in PairingDocs, version \in {"V0", "V1"}, cut \in {0, 1} :
       LET p == DecodePart("BE", operand.BE, 1)
           q == [i \in DOMAIN qs |-> Decode("bn", "G2", qs[i])]
           ok == /\ version = "V1" /\ (cut = 0 \/ qs = <<>>)
                 /\ \A i \in DOMAIN qs : p # None /\ q[i] # None /\ TorsionFree("bn", q[i][1])
           one == IF PairingExponent("bn", [i \in DOMAIN qs |-> <<p[1], q[i][1]>>]) = 0
                  THEN 1 ELSE 0
           whole == [e \in Endianness |-> FlattenSeq([i \in DOMAIN qs |->
                       operand[e] \o Encode("bn", "G2", e, qs[i])])]
       IN  /\ operand # held => qs = <<DocOf("bn", "G2", Generator.bn.G2)>>
           /\ Record("pairing", <<"bn", "G1">>,
                     Constantly(IF ok THEN Some([flags |-> 0, coefficients |-> <<one>>])
                                ELSE None),
                     [e \in Endianness |->
                       alt_bn128_pairing(e, version,
                         SubSeq(whole[e], 1, Len(whole[e]) - cut))])
           /\ UNCHANGED <<point, held>>

Next ==
  \/ BlsAdd \/ BlsSubtract \/ BlsMultiply \/ BlsDecompress \/ BlsValidate \/ BlsPairing
  \/ BnAdd \/ BnMultiply \/ BnPairing

Spec == Init /\ [][Next]_vars
-----------------------------------------------------------------------------
(* Every call answers exactly when its operands are encodings of points it *)
(* admits, in either byte order, and then the answer reads, in that order, *)
(* as the one canonical encoding of the group operation's result: no check *)
(* is lost, no flag or coefficient misplaced between the library's order   *)
(* and the caller's.  What an operand may be is StandsFor: one encoding of *)
(* each BLS12-381 point, and for BN254 those under a flag of the last byte *)
(* of y too, which the byte its callers append does not rule out.          *)
AnswersAreExact ==
  \A e \in Endianness :
    [i \in DOMAIN call.answers[e] |->
       Content(call.layout[1], call.layout[2], e, call.answers[e][i])]
      = call.expected[e]

(* After any sequence of calls that feed answers to calls, what the        *)
(* program holds in either byte order is the encoding of the point that    *)
(* the group operations give: answers are inputs of every later call, and  *)
(* the two programs never part.                                            *)
HeldIsEncoded ==
  \A e \in Endianness : Content(curve, group, e, held[e]) = Doc(point)
=============================================================================

---------------------------- MODULE ScalarLimbs -----------------------------
(***************************************************************************)
(* UnpackedScalar, the Scalar52 of backend/serial/u64/scalar.rs: integers  *)
(* modulo L in limbs of 52 bits, whose products are divided by R, the      *)
(* power of two past the last limb, modulo L (Montgomery's reduction). And *)
(* the Scalar of scalar.rs: 32 bytes, kept as the integer they spell, that *)
(* every operation unpacks into limbs and packs again. All Scalars but     *)
(* those of from_bits are below L.                                         *)
(***************************************************************************)
EXTENDS FieldLimbs

CONSTANTS
  ScalarLimbCount,  (* 5                                                   *)
  ScalarLimbBits,   (* 52                                                  *)
  ScalarBits,       (* the bits of a Scalar's 32 bytes, 256                *)
  LInteger,         (* BASEPOINT_ORDER                                     *)
  Windows           (* the windows of montgomery_invert, see there         *)

RInteger == 2^(ScalarLimbCount * ScalarLimbBits)
LLimbs == LimbsOf(LInteger, ScalarLimbCount, ScalarLimbBits)
LFACTOR ==
  CHOOSE f \in 0 .. 2^ScalarLimbBits - 1 : (f * LLimbs[1] + 1) % 2^ScalarLimbBits = 0
MontR == LimbsOf(RInteger % LInteger, ScalarLimbCount, ScalarLimbBits)
MontRR ==
  LimbsOf(MulMod(RInteger % LInteger, RInteger % LInteger, LInteger),
          ScalarLimbCount, ScalarLimbBits)

ASSUME ScalarLimbsAssumption ==
  /\ LInteger \in Nat /\ LInteger % 2 = 1 /\ LInteger < 2^ScalarBits
  /\ 2^ScalarBits <= RInteger /\ RInteger <= 2^30

ScLimbs(f(_)) == Tuple(ScalarLimbCount, f)
ScLimb(n) == Low(n, ScalarLimbBits)
ScCarry(n) == High(n, ScalarLimbBits)
ScZero == ScLimbs(LAMBDA i : 0)
ScValue(a) == Spelled(a, ScalarLimbBits)

(* from_bytes and to_bytes; to_bytes drops what is longer than 256 bits.   *)
Unpack(s) == LimbsOf(s, ScalarLimbCount, ScalarLimbBits)
Pack(a) == Low(ScValue(a), ScalarBits)

(* conditional_add_l: the last carry stays above the limbs and is lost.    *)
ConditionalAddL(a, condition) ==
  LET sum[i \in 1 .. ScalarLimbCount] ==
        a[i] + (IF condition THEN LLimbs[i] ELSE 0)
             + IF i = 1 THEN 0 ELSE ScCarry(sum[i - 1])
  IN  ScLimbs(LAMBDA i : ScLimb(sum[i]))

(* Mutant of ScSub: L is never added. *)
ScSubWrapping(a, b) ==
  LET diff[i \in 1 .. ScalarLimbCount] ==
        a[i] - b[i] - IF i = 1 \/ diff[i - 1] >= 0 THEN 0 ELSE 1
  IN  ScLimbs(LAMBDA i : ScLimb(diff[i]))
(* sub: limbs borrow from the next one; if the last one borrows, L is added*)
ScSub(a, b) ==
  LET diff[i \in 1 .. ScalarLimbCount] ==
        a[i] - b[i] - IF i = 1 \/ diff[i - 1] >= 0 THEN 0 ELSE 1
  IN  ConditionalAddL(ScLimbs(LAMBDA i : ScLimb(diff[i])), diff[ScalarLimbCount] < 0)

(* add: the sum, and L off it if it is not smaller. *)
ScAdd(a, b) ==
  LET sum[i \in 1 .. ScalarLimbCount] ==
        a[i] + b[i] + IF i = 1 THEN 0 ELSE ScCarry(sum[i - 1])
  IN  ScSub(ScLimbs(LAMBDA i : ScLimb(sum[i])), LLimbs)

(* shr1_assign, from the highest limb down. *)
Shr1(a) ==
  ScLimbs(LAMBDA i :
    a[i] \div 2 + IF i < ScalarLimbCount /\ a[i + 1] % 2 = 1
                  THEN 2^(ScalarLimbBits - 1) ELSE 0)

(* mul_internal and square_internal: 2n - 1 products of limbs.             *)
Products(a, b) ==
  LET n == ScalarLimbCount
      within(i, k) == k + 1 - i \in 1 .. n
  IN  Tuple(2 * n - 1, LAMBDA k : Total(n, LAMBDA i :
        IF within(i, k) THEN a[i] * b[k + 1 - i] ELSE 0))
Squares(a) ==
  LET n == ScalarLimbCount
      term(i, j) == IF ~ (i <= j /\ j <= n) THEN 0
                    ELSE IF i = j THEN a[i] * a[i] ELSE (2 * a[i]) * a[j]
  IN  Tuple(2 * n - 1, LAMBDA k : Total(n, LAMBDA i : term(i, k + 1 - i)))

(* montgomery_reduce: the multiple nfs * L that makes the lower limbs 0 is *)
(* found limb by limb and added; the upper limbs are the quotient by R, of *)
(* which L is taken once.                                                  *)
PartSum(prior, limbs, k) ==
  prior[1] + limbs[k]
    + Total(ScalarLimbCount, LAMBDA i :
        IF i < k /\ k + 1 - i <= ScalarLimbCount THEN prior[2][i] * LLimbs[k + 1 - i] ELSE 0)
Part1(sum, nfs, nf) == <<ScCarry(sum + nf * LLimbs[1]), Append(nfs, nf)>>
Part(sum, nfs, k) ==
  IF k <= ScalarLimbCount THEN Part1(sum, nfs, ScLimb(ScLimb(sum) * LFACTOR))
  ELSE <<ScCarry(sum), Append(nfs, ScLimb(sum))>>
UpperLimbs(part) ==
  ScLimbs(LAMBDA i : IF i < ScalarLimbCount THEN part[2][ScalarLimbCount + i] ELSE part[1])
MontgomeryReduce(limbs) ==
  LET (* <<carry, limbs>> at k; the limb is of nfs below n, then of the result *)
      part[k \in 0 .. 2 * ScalarLimbCount - 1] ==
        IF k = 0 THEN <<0, <<>>>>
        ELSE LET prior == part[k - 1]
             IN  Part(PartSum(prior, limbs, k), prior[2], k)
  IN  ScSub(UpperLimbs(part[2 * ScalarLimbCount - 1]), LLimbs)

(* Functions, so that chains of them are evaluated from the inside. *)
MontgomeryMul[a, b \in Seq(Nat)] == MontgomeryReduce(Products(a, b))
MontgomerySquare[a \in Seq(Nat)] == MontgomeryReduce(Squares(a))
ScMul(a, b) == MontgomeryMul[MontgomeryMul[a, b], MontRR]
ScSquare(a) == MontgomeryMul[MontgomerySquare[a], MontRR]
AsMontgomery(a) == MontgomeryMul[a, MontRR]
FromMontgomery(a) ==
  MontgomeryReduce(Tuple(2 * ScalarLimbCount - 1,
                         LAMBDA k : IF k <= ScalarLimbCount THEN a[k] ELSE 0))

(* from_bytes_wide: limbs of twice the length, hi * R + lo *)
FromWide(lo, hi) ==
  ScAdd(MontgomeryMul[Unpack(hi), MontRR], MontgomeryMul[Unpack(lo), MontR])

(* montgomery_invert: the bits of L - 2 in windows <<length, power>>.  The *)
(* first power is computed; the others are multiplied in after as many     *)
(* squarings as they are long.                                             *)
SquareMultiply(y, squarings, x) ==
  LET t[k \in 0 .. squarings] == IF k = 0 THEN y ELSE MontgomerySquare[t[k - 1]]
  IN  MontgomeryMul[t[squarings], x]
MontgomeryPower(a, n) ==
  LET t[k \in 1 .. n] == IF k = 1 THEN a ELSE MontgomeryMul[t[k - 1], a] IN t[n]
MontgomeryInvert(a) ==
  LET y[k \in 1 .. Len(Windows)] ==
        LET power == MontgomeryPower(a, Windows[k][2]) IN
        IF k = 1 THEN power ELSE SquareMultiply(y[k - 1], Windows[k][1], power)
  IN  y[Len(Windows)]
ScInvert(a) == FromMontgomery(MontgomeryInvert(AsMontgomery(a)))

(* The windows of the code, and the order of the basepoint less 2, in      *)
(* nibbles: both spell the same 253 bits.                                  *)
CodeWindows ==
    <<<<5, 16>>, <<126, 5>>, <<4, 3>>, <<5, 15>>, <<5, 15>>, <<4, 9>>,
      <<2, 3>>, <<5, 15>>, <<4, 5>>, <<6, 5>>, <<3, 7>>, <<5, 15>>,
      <<5, 7>>, <<4, 3>>, <<5, 11>>, <<6, 11>>, <<10, 9>>, <<4, 3>>,
      <<5, 3>>, <<5, 3>>, <<5, 9>>, <<4, 7>>, <<6, 15>>, <<5, 11>>,
      <<3, 5>>, <<6, 15>>, <<3, 5>>, <<3, 3>>>>
CodeOrderLess2 ==
  <<1, 0, 0, 0, 0, 0, 0, 0, 0, 0, 0, 0, 0, 0, 0, 0, 0, 0, 0, 0, 0, 0, 0, 0, 0, 0, 0, 0,
    0, 0, 0, 0, 1, 4, 13, 14, 15, 9, 13, 14, 10, 2, 15, 7, 9, 12, 13, 6, 5, 8, 1, 2, 6,
    3, 1, 10, 5, 12, 15, 5, 13, 3, 14, 11>>
BitsOf(length, n) ==
  Tuple(length, LAMBDA k : IF length - k < 31 THEN High(n, length - k) % 2 ELSE 0)
BitsOfWindows(s) ==
  LET t[k \in 0 .. Len(s)] == IF k = 0 THEN <<>> ELSE t[k - 1] \o BitsOf(s[k][1], s[k][2])
  IN  t[Len(s)]

ASSUME WindowsAssumption ==
  /\ BitsOfWindows(Windows) = BitsOf(Len(BitsOfWindows(Windows)), LInteger - 2)
  /\ BitsOfWindows(CodeWindows)
       = SubSeq(BitsOfWindows([k \in 1 .. 64 |-> <<4, CodeOrderLess2[k]>>]), 4, 256)
-----------------------------------------------------------------------------
NoScalar == -1

(* reduce, and from_bytes_mod_order *)
Reduce(s) == Pack(MontgomeryReduce(Products(Unpack(s), MontR)))
IsCanonical(s) == s = Reduce(s)
HighBit(s) == High(s, ScalarBits - 1) = 1

(* from_canonical_bytes, from_repr_vartime *)
FromCanonicalBytes(s) == IF ~ HighBit(s) /\ IsCanonical(s) THEN s ELSE NoScalar
(* to_bytes and Serialize; Deserialize, where a sequence that ends before  *)
(* the last byte is an error; bits_le.                                     *)
ToBytes(s) == LimbsOf(s, ScalarBits \div 8, 8)
SerializeScalar(s) == ToBytes(s)
VisitScalar(bytes) ==
  IF Len(bytes) < ScalarBits \div 8 THEN NoScalar
  ELSE FromCanonicalBytes(Spelled(bytes, 8))
BitsLE(s) == LimbsOf(s, ScalarBits, 1)
FromBits(s) == Low(s, ScalarBits - 1)
FromBytesModOrderWide(lo, hi) == Pack(FromWide(lo, hi))

(* clamp_integer: the three lowest bits and the highest are cleared, the   *)
(* second highest is set.                                                  *)
ClampInteger(s) ==
  2^(ScalarBits - 2) + Low(s, ScalarBits - 2) - Low(s, 3)

SAdd(a, b) == Pack(ScAdd(Unpack(a), Unpack(b)))
SSub(a, b) == Pack(ScSub(Unpack(a), Unpack(b)))
SMul[a, b \in Nat] == Pack(ScMul(Unpack(a), Unpack(b)))
SNeg(a) == Pack(ScSub(ScZero, MontgomeryReduce(Products(Unpack(a), MontR))))
SInvert(a) == Pack(ScInvert(Unpack(a)))
Fold(op(_, _), start, s) ==
  LET t[k \in 0 .. Len(s)] == IF k = 0 THEN start ELSE op(t[k - 1], s[k]) IN t[Len(s)]
SProduct(s) == Fold(LAMBDA a, b : SMul[a, b], 1, s)
SSum(s) == Fold(SAdd, 0, s)
SSelect(a, b, choice) == IF choice THEN b ELSE a

(* From<u8>, .., From<u128>: the bytes of an integer, then zeros. *)
FromInteger(n) == n

(* ff's Field and PrimeField.  invert refuses 0; ROOT_OF_UNITY generates   *)
(* the roots of order 2^S, S = 2, DELTA the elements of the order t, where *)
(* L - 1 = t * 2^S.                                                        *)
InvertOption(a) == IF a = 0 THEN NoScalar ELSE SInvert(a)
SPower(a, n) ==
  LET t[k \in 0 .. ScalarBits] ==   (* the bits of n from the highest down *)
        IF k = 0 THEN 1
        ELSE LET prior == t[k - 1]  sq == SMul[prior, prior] IN
             IF High(n, ScalarBits - k) % 2 = 1 THEN SMul[sq, a] ELSE sq
  IN  t[ScalarBits]
OddOrder == (LInteger - 1) \div 4
MULTIPLICATIVE_GENERATOR == 2
TWO_INV == (LInteger + 1) \div 2
ROOT_OF_UNITY == SPower(MULTIPLICATIVE_GENERATOR, OddOrder)
ROOT_OF_UNITY_INV == SInvert(ROOT_OF_UNITY)
DELTA == MULTIPLICATIVE_GENERATOR^4

(* sqrt: ff's Tonelli and Shanks with S = 2 and the exponent (t - 1) / 2.  *)
(* A root of 1 of order 2, which would be left for a second round, is -1   *)
(* and then there is no root.                                              *)
RootOrNone(a, r) == IF SMul[r, r] = a THEN r ELSE NoScalar
SqrtOf(a, x, w) == RootOrNone(a, IF SMul[x, w] = 1 THEN x ELSE SMul[x, ROOT_OF_UNITY])
SqrtFrom(a, w) == SqrtOf(a, SMul[w, a], w)
SSqrt(a) == SqrtFrom(a, SPower(a, (OddOrder - 1) \div 2))

DivBy2(a) == Pack(Shr1(ConditionalAddL(Unpack(a), a % 2 = 1)))

(* invert_batch_internal: the inputs are left in Montgomery form between   *)
(* the two passes.  It returns the inverses and, last, their product.      *)
BatchProducts(tmp) ==
  LET before[k \in 1 .. Len(tmp) + 1] ==
        IF k = 1 THEN AsMontgomery(Unpack(1)) ELSE MontgomeryMul[before[k - 1], tmp[k - 1]]
  IN  Tuple(Len(tmp) + 1, LAMBDA k : before[k])
WalkBack(tmp, before, inverse) ==
  LET (* <<the inverse of the product of the first k, the inverses after k>> *)
      acc[k \in 0 .. Len(tmp)] ==
        IF k = Len(tmp) THEN <<inverse, <<>>>>
        ELSE LET prior == acc[k + 1] IN
             <<MontgomeryMul[prior[1], tmp[k + 1]],
               <<Pack(MontgomeryMul[prior[1], before[k + 1]])>> \o prior[2]>>
  IN  Append(acc[0][2], Pack(inverse))
BatchInverses(tmp, before) ==
  WalkBack(tmp, before, FromMontgomery(MontgomeryInvert(before[Len(tmp) + 1])))
BatchFrom(tmp) == BatchInverses(tmp, BatchProducts(tmp))
InvertBatchScalars(s) == BatchFrom(Tuple(Len(s), LAMBDA k : AsMontgomery(Unpack(s[k]))))
=============================================================================

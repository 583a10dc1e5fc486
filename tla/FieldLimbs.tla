----------------------------- MODULE FieldLimbs -----------------------------
(***************************************************************************)
(* Arrays of limbs. FieldElement51: an element of the field modulo P =     *)
(* 2^(limbs * bits) - FieldOffset as limbs of 51 bits in words of 64.      *)
(* Limbs may be longer than their bits; sums are not carried at all,       *)
(* differences, products and squares once. And one lane of                 *)
(* FieldElement2625x4: twice as many limbs, of 26 and 25 bits in turn, in  *)
(* words of 32 bits; products take words of 64 bits.                       *)
(***************************************************************************)
EXTENDS Integers, Sequences, FiniteSetsExt

Tuple(n, f(_)) ==
  LET t[k \in 0 .. n] == IF k = 0 THEN <<>> ELSE Append(t[k - 1], f(k))
  IN  t[n]
Total(n, f(_)) == MapThenSumSet(f, 1 .. n)

Low(n, bits) == n % 2^bits
High(n, bits) == n \div 2^bits

(* What limbs of so many bits spell; a limb may exceed its bits. *)
Spelled(a, bits) == Total(Len(a), LAMBDA i : a[i] * 2^(bits * (i - 1)))
LimbsOf(n, limbs, bits) == Tuple(limbs, LAMBDA i : Low(High(n, bits * (i - 1)), bits))

(* x * y modulo m, three bits of y at a time: m may be as long as 27 bits. *)
MulMod(x, y, m) ==
  LET t[k \in 0 .. 9] ==
        IF k = 0 THEN 0
        ELSE (8 * t[k - 1] + x * Low(High(y, 27 - 3 * k), 3)) % m
  IN  t[9]
-----------------------------------------------------------------------------
CONSTANTS
  FieldLimbCount,  (* 5                                                    *)
  FieldLimbBits,   (* 51                                                   *)
  FieldOffset,     (* 19                                                   *)
  WordBits         (* 64                                                   *)

ASSUME FieldLimbsAssumption ==
  /\ FieldLimbCount \in Nat /\ FieldLimbCount > 1
  /\ FieldLimbBits \in Nat /\ FieldLimbBits + 4 < WordBits
  /\ FieldOffset \in 1 .. 2^FieldLimbBits - 1

FieldLimbTuple(f(_)) == Tuple(FieldLimbCount, f)
FieldSize == FieldLimbCount * FieldLimbBits
PrimeOfLimbs == 2^FieldSize - FieldOffset
FeValue(a) == Spelled(a, FieldLimbBits) % PrimeOfLimbs
Word(n) == Low(n, WordBits)

Limb(n) == Low(n, FieldLimbBits)
Carry(n) == High(n, FieldLimbBits)

(* reduce: all carries at once, the last one times 19 into the first limb. *)
WeakReduce(a) ==
  FieldLimbTuple(LAMBDA i :
    Limb(a[i]) + IF i = 1 THEN FieldOffset * Carry(a[FieldLimbCount]) ELSE Carry(a[i - 1]))

FeAdd(a, b) == FieldLimbTuple(LAMBDA i : Word(a[i] + b[i]))

(* 16p, limb by limb: more than any limb a difference may take off.        *)
SixteenP(i) == 16 * (2^FieldLimbBits - IF i = 1 THEN FieldOffset ELSE 1)
FeSub(a, b) == WeakReduce(FieldLimbTuple(LAMBDA i : Word(a[i] + SixteenP(i) - b[i])))
FeNegate(a) == WeakReduce(FieldLimbTuple(LAMBDA i : Word(SixteenP(i) - a[i])))

(* The carry chain of the products c, whose carries are cast to 64 bits.   *)
CarryProducts(c) ==
  LET n == FieldLimbCount
      sums[k \in 1 .. n] == IF k = 1 THEN c[1] ELSE c[k] + Word(Carry(sums[k - 1]))
      out == FieldLimbTuple(LAMBDA i : Limb(sums[i]))
      first == Word(out[1] + Word(FieldOffset * Word(Carry(sums[n]))))
  IN  [out EXCEPT ![1] = Limb(first), ![2] = @ + Carry(first)]

(* Products that reach past the last limb come back times 19: b is         *)
(* multiplied by it in 64 bits first.                                      *)
FeMul(a, b) ==
  LET n == FieldLimbCount
      term(i, k) == IF i <= k THEN a[i] * b[k + 1 - i]
                    ELSE a[i] * Word(FieldOffset * b[n + k + 1 - i])
  IN  CarryProducts(FieldLimbTuple(LAMBDA k : Total(n, LAMBDA i : term(i, k))))

(* A square takes each pair of limbs once, doubled. *)
SquareOnce(a) ==
  LET n == FieldLimbCount
      doubled(i, j) == IF i = j THEN 1 ELSE 2
      term(i, k) ==
        LET j == IF i <= k THEN k + 1 - i ELSE n + k + 1 - i IN
        IF i > j THEN 0
        ELSE doubled(i, j) * a[i] * IF i <= k THEN a[j] ELSE Word(FieldOffset * a[j])
  IN  CarryProducts(FieldLimbTuple(LAMBDA k : Total(n, LAMBDA i : term(i, k))))

FeSelect(a, b, choice) == FieldLimbTuple(LAMBDA i : IF choice THEN b[i] ELSE a[i])
FeMinusOne ==
  FieldLimbTuple(LAMBDA i : 2^FieldLimbBits - IF i = 1 THEN FieldOffset + 1 ELSE 1)

FePow2k(a, k) == LET t[i \in 0 .. k] == IF i = 0 THEN a ELSE SquareOnce(t[i - 1]) IN t[k]
FeSquare2(a) ==
  LET square == FePow2k(a, 1) IN FieldLimbTuple(LAMBDA i : Word(2 * square[i]))

(* from_bytes reads overlapping words of the string, whose highest bit is  *)
(* in none of the limbs.                                                   *)
FeFromBytes(s) == LimbsOf(s, FieldLimbCount, FieldLimbBits)

(* Mutant of FeToBytes: p itself is not subtracted. *)
FeToBytesLate(a) ==
  LET n     == FieldLimbCount
      limbs == WeakReduce(a)
      q[i \in 0 .. n] ==
        IF i = 0 THEN FieldOffset - 1 ELSE Carry(limbs[i] + q[i - 1])
      sums[i \in 1 .. n] ==
        limbs[i] + IF i = 1 THEN FieldOffset * q[n] ELSE Carry(sums[i - 1])
  IN  Spelled(FieldLimbTuple(LAMBDA i : Limb(sums[i])), FieldLimbBits)

(* to_bytes: q is the carry out of h + 19, that is whether h >= p; then    *)
(* h + 19q is carried and its last carry dropped.                          *)
FeToBytes(a) ==
  LET n     == FieldLimbCount
      limbs == WeakReduce(a)
      q[i \in 0 .. n] ==
        IF i = 0 THEN FieldOffset ELSE Carry(limbs[i] + q[i - 1])
      sums[i \in 1 .. n] ==
        limbs[i] + IF i = 1 THEN FieldOffset * q[n] ELSE Carry(sums[i - 1])
  IN  Spelled(FieldLimbTuple(LAMBDA i : Limb(sums[i])), FieldLimbBits)

FeIsNegative(a) == FeToBytes(a) % 2 = 1
FeEq(a, b) == FeToBytes(a) = FeToBytes(b)
-----------------------------------------------------------------------------
CONSTANT NegationShift  (* 37: p times 2^37 is what a square is taken from *)

ASSUME VectorLimbsAssumption ==
  WordBits % 2 = 0 /\ FieldLimbBits % 2 = 1 /\ NegationShift \in 0 .. WordBits

LaneCount == 2 * FieldLimbCount
IsOdd(i) == i % 2 = 0   (* the code counts limbs from 0 *)
EvenBits == (FieldLimbBits + 1) \div 2
LaneBits(i) == IF IsOdd(i) THEN EvenBits - 1 ELSE EvenBits
Lane(f(_)) == Tuple(LaneCount, f)
Half(n) == Low(n, WordBits \div 2)

LaneValue(v) ==
  Total(LaneCount,
        LAMBDA i : v[i] * 2^(FieldLimbBits * ((i - 1) \div 2)
                              + IF IsOdd(i) THEN EvenBits ELSE 0)) % PrimeOfLimbs

LaneLimb(n, i) == Low(n, LaneBits(i))
LaneCarry(n, i) == High(n, LaneBits(i))
Before(i) == IF i = 1 THEN LaneCount ELSE i - 1

(* reduce: every limb takes one carry, of the limbs as they were. *)
LaneReduce(v) ==
  Lane(LAMBDA i :
    Half(LaneLimb(v[i], i)
           + (IF i = 1 THEN FieldOffset ELSE 1) * LaneCarry(v[Before(i)], Before(i))))

(* new and split *)
FromSerial(a) ==
  LaneReduce(Lane(LAMBDA i :
    LET limb == a[(i + 1) \div 2] IN
    IF IsOdd(i) THEN Half(High(limb, EvenBits)) ELSE Low(limb, EvenBits)))
ToSerial(v) ==
  FieldLimbTuple(LAMBDA i : Word(v[2 * i - 1] + v[2 * i] * 2^EvenBits))

(* Multiples of p whose limbs are as long as they can be. *)
TimesP(m, i) == m * (2^LaneBits(i) - IF i = 1 THEN FieldOffset ELSE 1)
NegateLazy(v) == Lane(LAMBDA i : Half(TimesP(2, i) - v[i]))
LaneNeg(v) == LaneReduce(Lane(LAMBDA i : Half(TimesP(16, i) - v[i])))
LaneAdd(v, u) == Lane(LAMBDA i : Half(v[i] + u[i]))

(* reduce64: two chains of carries, from the first and from the middle     *)
(* limb, to the last one, whose carry is multiplied by 19 in two pieces.   *)
CarryAt(z, i) ==
  [z EXCEPT ![i] = LaneLimb(@, i), ![i + 1] = Word(@ + LaneCarry(z[i], i))]
Reduce64(z) ==
  LET middle == FieldLimbCount - 1
      t[k \in 0 .. middle + 1] ==
        IF k = 0 THEN z ELSE CarryAt(CarryAt(t[k - 1], k), middle + k)
      y == t[middle + 1]
      c == LaneCarry(y[LaneCount], LaneCount)
      times19(n) == Half(n) * FieldOffset
      wrapped == [y EXCEPT ![LaneCount] = LaneLimb(@, LaneCount),
                           ![1] = Word(@ + times19(Low(c, EvenBits))),
                           ![2] = Word(@ + times19(High(c, EvenBits)))]
      last == CarryAt(wrapped, 1)
  IN  Lane(LAMBDA i : Half(last[i]))

(* mul32: the low halves of two words of 64 bits, multiplied. *)
Mul32(x, y) == Half(x) * Half(y)

(* The product of two odd limbs counts twice; past the last limb b counts  *)
(* 19 times, multiplied in 32 bits.                                        *)
LaneProducts(x, y) ==
  LET n == LaneCount
      j(i, k) == IF i <= k THEN k + 1 - i ELSE n + k + 1 - i
      left(i, k) == IF IsOdd(i) /\ IsOdd(j(i, k)) THEN Half(2 * x[i]) ELSE x[i]
      right(i, k) == IF i <= k THEN y[j(i, k)] ELSE Half(FieldOffset * y[j(i, k)])
  IN  Lane(LAMBDA k : Word(Total(n, LAMBDA i : Mul32(left(i, k), right(i, k)))))
LaneMul(x, y) == Reduce64(LaneProducts(x, y))
LaneMulSmall(x, constant) == Reduce64(Lane(LAMBDA i : Mul32(x[i], constant)))

LaneSquares(x) ==
  LET n == LaneCount
      j(i, k) == IF i <= k THEN k + 1 - i ELSE n + k + 1 - i
      times(i, k) == (IF IsOdd(i) /\ IsOdd(j(i, k)) THEN 2 ELSE 1)
                       * IF i = j(i, k) THEN 1 ELSE 2
      right(i, k) == IF i <= k THEN x[j(i, k)] ELSE Half(FieldOffset * x[j(i, k)])
  IN  Lane(LAMBDA k : Word(Total(n, LAMBDA i :
        IF i > j(i, k) THEN 0 ELSE times(i, k) * x[i] * right(i, k))))

(* Of square_and_negate_D, the lane D: the products are taken from p,      *)
(* shifted so far that none of its limbs is smaller.                       *)
LaneSquare(x) == Reduce64(LaneSquares(x))
LaneSquareNegated(x) ==
  LET z == LaneSquares(x) IN
  Reduce64(Lane(LAMBDA i : Word(TimesP(2^NegationShift, i) - z[i])))
=============================================================================

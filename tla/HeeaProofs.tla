----------------------------- MODULE HeeaProofs -----------------------------
(***************************************************************************)
(* Proofs about the half-extended Euclidean loop, for every order L, bit   *)
(* length BL, threshold Half and width Width allowed by HeeaAssumption.    *)
(*                                                                         *)
(* LoopInv is the inductive invariant.  Congruence and the determinant are *)
(* preserved by ring arithmetic (RowAlgebra); the size of the cofactors is *)
(* preserved by CofactorInv, whose step is the inequality CofactorStep.    *)
(* The half-size bound on tau follows from CofactorInv and r0 > 2^Half.    *)
(*                                                                         *)
(* The second half is about LimbHeea, for every width LimbBits of a limb:  *)
(* each operation on I256 values is the operation on the integers they     *)
(* stand for whenever the result fits (LimbCombineIs, BitLengthI256Is),    *)
(* NoLimbOverflow says that it does, and so LimbHeea implements Heea.      *)
(***************************************************************************)
EXTENDS LimbHeea, PowersProofs

(* The arithmetic of one row operation on the remainders' magnitudes: a is *)
(* |r0|, b is |r1| shifted to r0's length, P the power of two both reach,  *)
(* N and M the product of r0 and t1, taken with the determinant's sign,    *)
(* before and after.                                                       *)
RowOperation(a, b, P, d, N, M) ==
  /\ a \in Int /\ b \in Int /\ P \in Int /\ d \in Int /\ N \in Int /\ M \in Int
  /\ 0 < P /\ P <= a /\ a < 2 * P /\ P <= b /\ b < 2 * P
  /\ 0 < d /\ N <= 2 * d
  /\ N * (2 * P - a) <= d * a
  /\ -(N * P) <= d * (b - P)
  /\ a * M = (a - b) * N

LEMMA CofactorStep ==
  ASSUME NEW a, NEW b, NEW P, NEW d, NEW N, NEW M,
         RowOperation(a, b, P, d, N, M)
  PROVE  M <= d /\ -(M * P) <= d * (b - P)
<1> USE DEF RowOperation
<1>1. CASE b <= a /\ 0 <= N
  <2>1. 0 <= a - b /\ 2 * (a - b) <= a
    BY <1>1
  <2>2. (a - b) * N <= (a - b) * (2 * d)
    BY <1>1, <2>1, MulMonotone
  <2>3. d * (2 * (a - b)) <= d * a
    BY <2>1, MulMonotone
  <2>4. a * M <= a * d
    BY <2>2, <2>3
  <2>5. M <= d
    BY <2>4, MulCancel
  <2>6. a * 0 <= a * M
    <3>1. (a - b) * 0 <= (a - b) * N
      BY <1>1, <2>1, MulMonotone
    <3>2. QED BY <3>1
  <2>7. 0 <= M
    BY <2>6, MulCancel
  <2>8. 0 <= M * P /\ 0 <= d * (b - P)
    BY <2>7
  <2>9. QED BY <2>5, <2>8
<1>2. CASE b <= a /\ N < 0
  <2>1. 0 <= a - b
    BY <1>2
  <2>2. (a - b) * N <= (a - b) * 0
    BY <1>2, <2>1, MulMonotone
  <2>3. a * M <= a * 0
    BY <2>2
  <2>4. M <= 0
    BY <2>3, MulCancel
  <2>5. (-N) * (a - b) <= (-N) * a
    BY <1>2, MulMonotone
  <2>6. a * (-M) <= a * (-N)
    <3>1. a * (-M) = (-N) * (a - b)
      OBVIOUS
    <3>2. QED BY <2>5, <3>1
  <2>7. -M <= -N
    BY <2>6, MulCancel
  <2>8. P * (-M) <= P * (-N)
    BY <2>7, MulMonotone
  <2>9. QED BY <2>4, <2>8
<1>3. CASE a < b /\ 0 <= N
  <2>1. 0 <= b - a
    BY <1>3
  <2>2. (b - a) * 0 <= (b - a) * N
    BY <1>3, <2>1, MulMonotone
  <2>3. a * M <= a * 0
    <3>1. a * M = - ((b - a) * N)
      OBVIOUS
    <3>2. QED BY <2>2, <3>1
  <2>4. M <= 0
    BY <2>3, MulCancel
  <2> DEFINE c == 2 * P - a
  <2>5. c \in Int /\ 0 < c
    OBVIOUS
  <2>6. (b - a) * (N * c) <= (b - a) * (d * a)
    BY <2>1, <2>5, MulMonotone
  <2>7. a * ((-M) * c) = (b - a) * (N * c)
    <3>1. a * (-M) = (b - a) * N
      OBVIOUS
    <3> HIDE DEF c
    <3>2. (a * (-M)) * c = ((b - a) * N) * c
      BY <3>1
    <3>3. QED BY <3>2, <2>5
  <2>8. a * ((-M) * c) <= a * ((b - a) * d)
    <3> HIDE DEF c
    <3>1. (b - a) * (d * a) = a * ((b - a) * d)
      OBVIOUS
    <3>2. QED BY <2>6, <2>7, <3>1
  <2>9. (-M) * c <= (b - a) * d
    <3> HIDE DEF c
    <3>1. (-M) * c \in Int /\ (b - a) * d \in Int
      BY <2>5
    <3>2. QED BY <2>8, <3>1, MulCancel
  <2>10. (b - a) * P <= (b - P) * c
    <3>1. 0 <= (a - P) * (2 * P - b)
      OBVIOUS
    <3>2. (b - P) * c - (b - a) * P = (a - P) * (2 * P - b)
      OBVIOUS
    <3> HIDE DEF c
    <3>3. (b - P) * c \in Int /\ (b - a) * P \in Int /\ (a - P) * (2 * P - b) \in Int
      BY <2>5
    <3>4. QED BY <3>1, <3>2, <3>3
  <2>11. c * (-(M * P)) <= c * (d * (b - P))
    <3> HIDE DEF c
    <3>1. P * ((-M) * c) <= P * ((b - a) * d)
      <4>1. (-M) * c \in Int /\ (b - a) * d \in Int
        BY <2>5
      <4>2. QED BY <2>9, <4>1, MulMonotone
    <3>2. d * ((b - a) * P) <= d * ((b - P) * c)
      <4>1. (b - a) * P \in Int /\ (b - P) * c \in Int
        BY <2>5
      <4>2. QED BY <2>10, <4>1, MulMonotone
    <3>3. P * ((-M) * c) = c * (-(M * P))
      BY <2>5
    <3>4. P * ((b - a) * d) = d * ((b - a) * P)
      OBVIOUS
    <3>5. d * ((b - P) * c) = c * (d * (b - P))
      BY <2>5
    <3>6. QED BY <3>1, <3>2, <3>3, <3>4, <3>5, <2>5
  <2>12. -(M * P) <= d * (b - P)
    <3> HIDE DEF c
    <3>1. -(M * P) \in Int /\ d * (b - P) \in Int
      OBVIOUS
    <3>2. QED BY <2>5, <2>11, <3>1, MulCancel
  <2>13. QED BY <2>4, <2>12
<1>4. CASE a < b /\ N < 0
  <2>1. 0 <= b - a /\ b - a <= a
    BY <1>4
  <2>2. a * M = (b - a) * (-N)
    OBVIOUS
  <2>3. (-N) * 0 <= (-N) * (b - a) /\ (-N) * (b - a) <= (-N) * a
    BY <1>4, <2>1, MulMonotone
  <2>4. a * 0 <= a * M /\ a * M <= a * (-N)
    BY <2>2, <2>3
  <2>5. 0 <= M /\ M <= -N
    BY <2>4, MulCancel
  <2>6. P * (-N) <= P * d
    <3>1. d * (b - P) <= d * P
      BY MulMonotone
    <3>2. QED BY <3>1
  <2>7. -N <= d
    BY <2>6, MulCancel
  <2>8. 0 <= M * P /\ 0 <= d * (b - P)
    BY <2>5
  <2>9. QED BY <2>5, <2>7, <2>8
<1>5. QED BY <1>1, <1>2, <1>3, <1>4
-----------------------------------------------------------------------------
(* One row operation, in the terms of CofactorStep. *)
Multiplier ==
  IF (r0 < 0) = (r1 < 0) THEN Pow2[bl_r0 - bl_r1] ELSE -Pow2[bl_r0 - bl_r1]
NewR == r0 - Multiplier * r1
NewT == t0 - Multiplier * t1
Shifted == Abs(r1) * Pow2[bl_r0 - bl_r1]
Top == Pow2[bl_r0 - 1]
NewProduct == IF Determinant > 0 THEN NewR * t1 ELSE -(NewR * t1)

(* Congruence modulo L with its quotients. *)
Congruent ==
  \E q0, q1 \in Int : r0 = t0 * v + q0 * L /\ r1 = t1 * v + q1 * L

(* The inductive invariant of the loop. *)
LoopInv ==
  /\ TypeOK
  /\ CachedLengths
  /\ Abs(r1) < L
  /\ Congruent
  /\ UnitDeterminant
  /\ CofactorInv

LEMMA LoopLengths ==
  ASSUME TypeOK, CachedLengths
  PROVE  /\ bl_r0 \in Nat /\ bl_r1 \in Nat /\ bl_r0 - bl_r1 \in Nat
         /\ bl_r0 - 1 \in Nat /\ bl_r0 >= 1
         /\ bl_r1 > 0 => bl_r1 - 1 \in Nat
         /\ Pow2[bl_r0 - bl_r1] \in Nat /\ Pow2[bl_r0 - bl_r1] >= 1
BY HeeaAssumption, Pow2Positive DEF TypeOK, CachedLengths

LEMMA CombineRows ==
  ASSUME TypeOK, CachedLengths
  PROVE  /\ Multiplier \in Int /\ NewR \in Int /\ NewT \in Int
         /\ Combine(r0, r1) = NewR
         /\ Combine(t0, t1) = NewT
<1>1. Pow2[bl_r0 - bl_r1] \in Nat
  BY LoopLengths
<1>2. r0 \in Int /\ r1 \in Int /\ t0 \in Int /\ t1 \in Int
  BY DEF TypeOK
<1>3. Multiplier \in Int /\ NewR \in Int /\ NewT \in Int
  BY <1>1, <1>2 DEF Multiplier, NewR, NewT
<1>4. CASE (r0 < 0) = (r1 < 0)
  BY <1>1, <1>2, <1>4 DEF Combine, Shl, Multiplier, NewR, NewT
<1>5. CASE (r0 < 0) # (r1 < 0)
  <2>1. Multiplier = -Pow2[bl_r0 - bl_r1]
    BY <1>5 DEF Multiplier
  <2>2. /\ Combine(r0, r1) = r0 + r1 * Pow2[bl_r0 - bl_r1]
        /\ Combine(t0, t1) = t0 + t1 * Pow2[bl_r0 - bl_r1]
    BY <1>5 DEF Combine, Shl
  <2>3. QED BY <1>1, <1>2, <1>3, <2>1, <2>2 DEF NewR, NewT
<1>6. QED BY <1>3, <1>4, <1>5

(* Both remainders, r1 once shifted, lie between Top and 2 * Top. *)
LEMMA Brackets ==
  ASSUME TypeOK, CachedLengths, bl_r1 > Half
  PROVE  /\ Top \in Int /\ 0 < Top
         /\ Abs(r0) \in Int /\ Top <= Abs(r0) /\ Abs(r0) < 2 * Top
         /\ Shifted \in Int /\ Top <= Shifted /\ Shifted < 2 * Top
         /\ Top = Pow2[bl_r1 - 1] * Pow2[bl_r0 - bl_r1]
<1> DEFINE p == Pow2[bl_r0 - bl_r1]
           P1 == Pow2[bl_r1 - 1]
<1>1. bl_r1 > 0 /\ bl_r1 - 1 \in Nat
  BY LoopLengths, HeeaAssumption
<1>2. /\ p \in Nat /\ p >= 1 /\ P1 \in Nat /\ P1 >= 1
      /\ Top \in Nat /\ Top >= 1
  BY <1>1, LoopLengths, Pow2Positive DEF Top
<1>3. Top = P1 * p
  <2>1. bl_r0 - 1 = (bl_r1 - 1) + (bl_r0 - bl_r1)
    BY LoopLengths
  <2>2. QED BY <2>1, <1>1, LoopLengths, Pow2Sum DEF Top
<1>4. Pow2[bl_r0] = 2 * Top /\ Pow2[bl_r1] = 2 * P1
  <2>1. (bl_r0 - 1) + 1 = bl_r0 /\ (bl_r1 - 1) + 1 = bl_r1
    BY LoopLengths
  <2>2. Pow2[(bl_r0 - 1) + 1] = 2 * Pow2[bl_r0 - 1]
    BY LoopLengths, Pow2Def
  <2>3. Pow2[(bl_r1 - 1) + 1] = 2 * Pow2[bl_r1 - 1]
    BY <1>1, Pow2Def
  <2>4. QED BY <2>1, <2>2, <2>3 DEF Top
<1>5. /\ Abs(r0) \in Nat /\ Top <= Abs(r0) /\ Abs(r0) < 2 * Top
      /\ Abs(r1) \in Nat /\ P1 <= Abs(r1) /\ Abs(r1) < 2 * P1
  BY <1>1, <1>4, LoopLengths, BitLengthDef DEF TypeOK, CachedLengths, Top
<1>6. p * P1 <= p * Abs(r1) /\ p * (Abs(r1) + 1) <= p * (2 * P1)
  BY <1>2, <1>5, MulMonotone
<1>7. /\ Shifted = p * Abs(r1) /\ Shifted \in Int
      /\ p * (Abs(r1) + 1) = p * Abs(r1) + p
      /\ p * (2 * P1) = 2 * (P1 * p) /\ p * P1 = P1 * p
  BY <1>2, <1>5 DEF Shifted
<1>8. QED BY <1>2, <1>3, <1>5, <1>6, <1>7

(* The new remainder is the difference of the two magnitudes, so it is     *)
(* shorter than r0.                                                        *)
LEMMA NewRemainder ==
  ASSUME TypeOK, CachedLengths, bl_r1 > Half
  PROVE  /\ Abs(r0) * NewR = (Abs(r0) - Shifted) * r0
         /\ Abs(NewR) \in Int /\ Abs(NewR) < Top
         /\ BitLength(NewR) \in Nat /\ BitLength(NewR) <= bl_r0 - 1
<1> DEFINE p == Pow2[bl_r0 - bl_r1]
<1>1. r0 \in Int /\ r1 \in Int /\ p \in Nat
  BY LoopLengths DEF TypeOK
<1>2. Multiplier * r1 = IF r0 < 0 THEN -Shifted ELSE Shifted
  <2>1. CASE r0 < 0 /\ r1 < 0
    <3>1. Multiplier = p /\ Abs(r1) = -r1
      BY <2>1 DEF Multiplier, Abs
    <3>2. QED BY <1>1, <2>1, <3>1 DEF Shifted
  <2>2. CASE r0 < 0 /\ ~ (r1 < 0)
    <3>1. Multiplier = -p /\ Abs(r1) = r1
      BY <2>2 DEF Multiplier, Abs
    <3>2. QED BY <1>1, <2>2, <3>1 DEF Shifted
  <2>3. CASE ~ (r0 < 0) /\ r1 < 0
    <3>1. Multiplier = -p /\ Abs(r1) = -r1
      BY <2>3 DEF Multiplier, Abs
    <3>2. QED BY <1>1, <2>3, <3>1 DEF Shifted
  <2>4. CASE ~ (r0 < 0) /\ ~ (r1 < 0)
    <3>1. Multiplier = p /\ Abs(r1) = r1
      BY <2>4 DEF Multiplier, Abs
    <3>2. QED BY <1>1, <2>4, <3>1 DEF Shifted
  <2>5. QED BY <2>1, <2>2, <2>3, <2>4
<1>3. /\ Top \in Int /\ Abs(r0) \in Int /\ Shifted \in Int
      /\ Top <= Abs(r0) /\ Abs(r0) < 2 * Top
      /\ Top <= Shifted /\ Shifted < 2 * Top
  BY Brackets
<1>4. CASE r0 < 0
  <2>1. Abs(r0) = -r0 /\ NewR = r0 + Shifted
    BY <1>1, <1>2, <1>3, <1>4 DEF NewR, Abs
  <2>2. (-r0) * (r0 + Shifted) = (-r0 - Shifted) * r0
    BY <1>1, <1>3
  <2>3. NewR \in Int /\ Abs(NewR) \in Int /\ Abs(NewR) < Top
    BY <1>1, <1>3, <2>1 DEF Abs
  <2>4. QED BY <2>1, <2>2, <2>3, LoopLengths, BitLengthAtMost, BitLengthDef DEF Top
<1>5. CASE ~ (r0 < 0)
  <2>1. Abs(r0) = r0 /\ NewR = r0 - Shifted
    BY <1>1, <1>2, <1>3, <1>5 DEF NewR, Abs
  <2>2. r0 * (r0 - Shifted) = (r0 - Shifted) * r0
    BY <1>1, <1>3
  <2>3. NewR \in Int /\ Abs(NewR) \in Int /\ Abs(NewR) < Top
    BY <1>1, <1>3, <2>1 DEF Abs
  <2>4. QED BY <2>1, <2>2, <2>3, LoopLengths, BitLengthAtMost, BitLengthDef DEF Top
<1>6. QED BY <1>4, <1>5

LEMMA LPositive == L \in Nat /\ L >= 1
<1>1. BL - 1 \in Nat
  BY HeeaAssumption
<1>2. Pow2[BL - 1] \in Nat
  BY <1>1, Pow2Def
<1>3. QED BY <1>2, HeeaAssumption

(* CofactorStep applied to the loop's state. *)
LEMMA NewProductBounds ==
  ASSUME LoopInv, bl_r1 > Half
  PROVE  /\ NewProduct \in Int
         /\ NewProduct <= L
         /\ -(NewProduct * Top) <= L * (Shifted - Top)
<1>1. TypeOK /\ CachedLengths /\ CofactorInv
  BY DEF LoopInv
<1>2. /\ r0 \in Int /\ r1 \in Int /\ t0 \in Int /\ t1 \in Int
      /\ NewR \in Int
  BY <1>1, CombineRows DEF TypeOK
<1>3. /\ Top \in Int /\ 0 < Top /\ Abs(r0) \in Int /\ Shifted \in Int
      /\ Top <= Abs(r0) /\ Abs(r0) < 2 * Top
      /\ Top <= Shifted /\ Shifted < 2 * Top
      /\ Top = Pow2[bl_r1 - 1] * Pow2[bl_r0 - bl_r1]
  BY <1>1, Brackets
<1>4. Product \in Int /\ NewProduct \in Int
  BY <1>2 DEF Product, NewProduct
<1>5. Abs(r0) * NewProduct = (Abs(r0) - Shifted) * Product
  <2>1. Abs(r0) * NewR = (Abs(r0) - Shifted) * r0
    BY <1>1, NewRemainder
  <2>2. (Abs(r0) * NewR) * t1 = ((Abs(r0) - Shifted) * r0) * t1
    BY <2>1
  <2>3. Abs(r0) * (NewR * t1) = (Abs(r0) - Shifted) * (r0 * t1)
    BY <1>2, <1>3, <2>2
  <2>4. CASE Determinant > 0
    BY <2>3, <2>4 DEF Product, NewProduct
  <2>5. CASE ~ (Determinant > 0)
    <3>1. NewProduct = -(NewR * t1) /\ Product = -(r0 * t1)
      BY <2>5 DEF Product, NewProduct
    <3>2. /\ Abs(r0) * (-(NewR * t1)) = -(Abs(r0) * (NewR * t1))
          /\ (Abs(r0) - Shifted) * (-(r0 * t1))
               = -((Abs(r0) - Shifted) * (r0 * t1))
      <4>1. /\ NewR * t1 \in Int /\ r0 * t1 \in Int
            /\ Abs(r0) \in Int /\ Abs(r0) - Shifted \in Int
        BY <1>2, <1>3
      <4>2. QED BY <4>1, MulNegate
    <3>3. QED BY <2>3, <3>1, <3>2
  <2>6. QED BY <2>4, <2>5
<1>6. -(Product * Top) <= L * (Shifted - Top)
  <2> DEFINE p == Pow2[bl_r0 - bl_r1]
             P1 == Pow2[bl_r1 - 1]
  <2>1. bl_r1 > 0 /\ bl_r1 - 1 \in Nat
    BY <1>1, LoopLengths, HeeaAssumption
  <2>2. p \in Nat /\ P1 \in Nat /\ Abs(r1) \in Int
    BY <1>1, <1>2, <2>1, LoopLengths, Pow2Def DEF Abs
  <2>3. -(Product * P1) <= L * (Abs(r1) - P1)
    BY <1>1, <2>1 DEF CofactorInv
  <2>4. p * (-(Product * P1)) <= p * (L * (Abs(r1) - P1))
    <3>1. -(Product * P1) \in Int /\ L * (Abs(r1) - P1) \in Int
      BY <1>4, <2>2, LPositive
    <3>2. QED BY <2>2, <2>3, <3>1, MulMonotone
  <2>5. p * (-(Product * P1)) = -(Product * (P1 * p))
    BY <1>4, <2>2
  <2>6. p * (L * (Abs(r1) - P1)) = L * (Abs(r1) * p - P1 * p)
    BY <2>2, LPositive
  <2>7. Top = P1 * p /\ Shifted = Abs(r1) * p
    BY <1>3 DEF Shifted
  <2>8. QED BY <2>4, <2>5, <2>6, <2>7
<1>7. /\ Product <= 2 * L
      /\ Product * (2 * Top - Abs(r0)) <= L * Abs(r0)
  BY <1>1 DEF CofactorInv, Top
<1>8. L \in Int /\ 0 < L
  BY LPositive
<1>9. RowOperation(Abs(r0), Shifted, Top, L, Product, NewProduct)
  BY <1>3, <1>4, <1>5, <1>6, <1>7, <1>8 DEF RowOperation
<1>10. QED BY <1>4, <1>9, CofactorStep

-----------------------------------------------------------------------------
(* The arithmetic that re-establishes CofactorInv after a row operation    *)
(* whose product M is bounded as CofactorStep tells: A is the magnitude of *)
(* the new remainder, Q its leading power of two.                          *)
LEMMA KeepArithmetic ==
  ASSUME NEW M \in Int, NEW d \in Int, NEW A \in Int, NEW Q \in Int,
         0 < d, M <= d, 0 < Q, Q <= A, A < 2 * Q
  PROVE  M * (2 * Q - A) <= d * A
<1> DEFINE e == 2 * Q - A
<1>1. e \in Int /\ 0 < e /\ e <= A
  OBVIOUS
<1>2. e * M <= e * d
  BY <1>1, MulMonotone
<1>3. d * e <= d * A
  BY <1>1, MulMonotone
<1>4. QED BY <1>1, <1>2, <1>3

LEMMA SwapArithmetic ==
  ASSUME NEW M \in Int, NEW d \in Int, NEW P \in Int, NEW b \in Int,
         0 < d, M <= d, 0 < P, P <= b, b < 2 * P,
         -(M * P) <= d * (b - P)
  PROVE  -d <= M /\ (d - M) * (2 * P - b) <= d * b
<1>1. d * (b - P) <= d * P
  BY MulMonotone
<1>2. P * (-M) <= P * d
  BY <1>1
<1>3. -M <= d
  BY <1>2, MulCancel
<1> DEFINE c == 2 * P - b
<1>4. c \in Int /\ 0 < c /\ c <= P
  OBVIOUS
<1>5. d * c <= d * b
  BY <1>4, MulMonotone
<1>6. CASE 0 <= M
  <2>1. c * (d - M) <= c * d
    BY <1>4, <1>6, MulMonotone
  <2>2. QED BY <1>3, <1>4, <1>5, <2>1
<1>7. CASE M < 0
  <2>1. (-M) * c <= (-M) * P
    BY <1>4, <1>7, MulMonotone
  <2>2. d * P <= d * b
    BY MulMonotone
  <2>3. (-M) * P <= d * (b - P)
    OBVIOUS
  <2>4. (d - M) * c = d * (2 * P - b) + (-M) * c
    OBVIOUS
  <2>5. d * (2 * P - b) + d * (b - P) = d * P
    OBVIOUS
  <2> HIDE DEF c
  <2>6. (-M) * c \in Int /\ (d - M) * c \in Int
    BY <1>4
  <2>7. (-M) * c <= d * (b - P)
    BY <2>1, <2>3, <2>6
  <2>8. (d - M) * c <= d * b
    BY <2>2, <2>4, <2>5, <2>6, <2>7
  <2>9. QED BY <1>3, <2>8 DEF c
<1>8. QED BY <1>6, <1>7

(* The row operation keeps the congruence and, up to sign, the determinant.*)
LEMMA RowAlgebra ==
  ASSUME LoopInv
  PROVE  /\ \E q \in Int : NewR = NewT * v + q * L
         /\ NewR * t1 - r1 * NewT = Determinant
<1>1. /\ r0 \in Int /\ r1 \in Int /\ t0 \in Int /\ t1 \in Int
      /\ v \in Int /\ L \in Int /\ Multiplier \in Int
  BY CombineRows, HeeaAssumption DEF LoopInv, TypeOK
<1>2. PICK q0 \in Int, q1 \in Int : r0 = t0 * v + q0 * L /\ r1 = t1 * v + q1 * L
  BY DEF LoopInv, Congruent
<1>3. NewR = NewT * v + (q0 - Multiplier * q1) * L
  <2>1. Multiplier * r1 = (Multiplier * t1) * v + (Multiplier * q1) * L
    BY <1>1, <1>2
  <2>2. NewT * v = t0 * v - (Multiplier * t1) * v
    BY <1>1 DEF NewT
  <2>3. (q0 - Multiplier * q1) * L = q0 * L - (Multiplier * q1) * L
    BY <1>1
  <2>4. QED BY <1>1, <1>2, <2>1, <2>2, <2>3 DEF NewR
<1>4. q0 - Multiplier * q1 \in Int
  BY <1>1
<1>5. NewR * t1 - r1 * NewT = Determinant
  <2>1. NewR * t1 = r0 * t1 - Multiplier * (r1 * t1)
    BY <1>1 DEF NewR
  <2>2. r1 * NewT = r1 * t0 - Multiplier * (r1 * t1)
    BY <1>1 DEF NewT
  <2>3. QED BY <1>1, <2>1, <2>2 DEF Determinant
<1>6. QED BY <1>3, <1>4, <1>5

-----------------------------------------------------------------------------
OutputInv ==
  done => /\ bl_r1 <= Half
          /\ out = [rho    |-> Abs(r1),
                    tau    |-> Abs(t1),
                    flip_h |-> (r1 < 0) # (t1 < 0)]

IInv == LoopInv /\ OutputInv

LEMMA AbsType == \A x \in Int : Abs(x) \in Nat
BY DEF Abs

(* A challenge below L has at most BL bits, and L has exactly BL. *)
LEMMA InitLengths ==
  /\ BitLength(L) = BL
  /\ \A x \in 0 .. L - 1 : BitLength(x) \in 0 .. BL
<1>1. BL \in Nat /\ BL - 1 \in Nat /\ L \in Int /\ Abs(L) = L
  BY HeeaAssumption, LPositive DEF Abs
<1>2. BitLength(L) <= BL /\ BitLength(L) > BL - 1
  <2>1. Pow2[BL - 1] \in Nat /\ Pow2[BL - 1] <= Abs(L) /\ Abs(L) < Pow2[BL]
    BY <1>1, HeeaAssumption, Pow2Def, LPositive
  <2>2. QED BY <1>1, <2>1, BitLengthAtMost, BitLengthMoreThan
<1>3. ASSUME NEW x \in 0 .. L - 1
      PROVE  BitLength(x) \in 0 .. BL
  <2>1. x \in Int /\ Abs(x) = x /\ x < L
    BY <1>1 DEF Abs
  <2>2. Pow2[BL] \in Nat
    BY <1>1, Pow2Def
  <2>3. Abs(x) < Pow2[BL]
    BY <1>1, <2>1, <2>2, HeeaAssumption
  <2>4. BitLength(x) <= BL
    BY <1>1, <2>1, <2>3, BitLengthAtMost
  <2>5. QED BY <1>1, <2>1, <2>4, BitLengthDef
<1>4. BitLength(L) \in Nat
  BY <1>1, BitLengthDef
<1>5. BitLength(L) = BL
  BY <1>1, <1>2, <1>4
<1>6. QED BY <1>3, <1>5

LEMMA InitInv == Init => IInv
<1> SUFFICES ASSUME Init PROVE IInv
  OBVIOUS
<1>1. /\ r0 = L /\ t0 = 0 /\ r1 = v /\ t1 = 1
      /\ bl_r0 = BL /\ bl_r1 = BitLength(v)
      /\ done = FALSE /\ out = NoOutput
      /\ v \in 0 .. L - 1 /\ v \in Challenges
      /\ L \in Int /\ L >= 1 /\ BL \in Nat /\ BL - 1 \in Nat
  BY HeeaAssumption, LPositive DEF Init
<1>2. BitLength(v) \in 0 .. BL /\ BitLength(L) = BL
  BY <1>1, InitLengths
<1>3. TypeOK
  <2>1. out \in [rho : Nat, tau : Nat, flip_h : BOOLEAN]
    BY <1>1 DEF NoOutput
  <2>2. r0 \in Int /\ r1 \in Int /\ t0 \in Int /\ t1 \in Int
    BY <1>1
  <2>3. bl_r0 \in 0 .. BL /\ bl_r1 \in 0 .. BL
    BY <1>1, <1>2
  <2>4. QED BY <1>1, <2>1, <2>2, <2>3 DEF TypeOK
<1>4. CachedLengths
  BY <1>1, <1>2, HeeaAssumption DEF CachedLengths
<1>5. Abs(r1) = v /\ Abs(r1) < L /\ Abs(r0) = L
  BY <1>1 DEF Abs
<1>6. Congruent
  <2>1. r0 = t0 * v + 1 * L /\ r1 = t1 * v + 0 * L
    BY <1>1
  <2>2. QED BY <2>1 DEF Congruent
<1>7. Determinant = L /\ Product = L
  BY <1>1 DEF Determinant, Product
<1>8. UnitDeterminant
  BY <1>7 DEF UnitDeterminant
<1>9. CofactorInv
  <2>1. /\ Pow2[BL - 1] \in Nat /\ Pow2[BL - 1] >= 1
        /\ Pow2[BL - 1] < L /\ L < Pow2[BL]
        /\ Pow2[BL] = 2 * Pow2[BL - 1]
    <3>1. (BL - 1) + 1 = BL
      BY <1>1
    <3>2. Pow2[(BL - 1) + 1] = 2 * Pow2[BL - 1]
      BY <1>1, Pow2Def
    <3>3. QED BY <1>1, <3>1, <3>2, Pow2Positive, HeeaAssumption
  <2>2. L * (2 * Pow2[BL - 1] - L) <= L * L
    <3>1. Pow2[BL - 1] \in Int /\ Pow2[BL - 1] <= L /\ L < 2 * Pow2[BL - 1] /\ 0 < L
          /\ 0 < Pow2[BL - 1]
      BY <1>1, <2>1
    <3>2. QED BY <1>1, <3>1, KeepArithmetic
  <2>3. ASSUME bl_r1 > 0
        PROVE  -(L * Pow2[bl_r1 - 1]) <= L * (v - Pow2[bl_r1 - 1])
    <3>1. bl_r1 - 1 \in Nat
      BY <1>1, <1>2, <2>3
    <3>2. Pow2[bl_r1 - 1] \in Int /\ v \in Int /\ 0 <= v
      BY <1>1, <3>1, Pow2Def
    <3>3. L * (v - Pow2[bl_r1 - 1]) = L * v - L * Pow2[bl_r1 - 1] /\ 0 <= L * v
      BY <1>1, <3>2
    <3>4. QED BY <1>1, <3>2, <3>3
  <2>4. QED BY <1>1, <1>5, <1>7, <2>2, <2>3 DEF CofactorInv
<1>10. OutputInv
  BY <1>1 DEF OutputInv
<1>11. QED BY <1>3, <1>4, <1>5, <1>6, <1>8, <1>9, <1>10 DEF IInv, LoopInv

LEMMA KeepInv == IInv /\ Keep => IInv'
<1> SUFFICES ASSUME IInv, Keep PROVE IInv'
  OBVIOUS
<1>1. LoopInv /\ TypeOK /\ CachedLengths /\ UnitDeterminant /\ bl_r1 > Half
  BY DEF IInv, LoopInv, Keep
<1>2. /\ r0' = NewR /\ t0' = NewT /\ bl_r0' = BitLength(NewR)
      /\ BitLength(NewR) > bl_r1
      /\ v' = v /\ r1' = r1 /\ t1' = t1 /\ bl_r1' = bl_r1
      /\ done' = FALSE /\ out' = out
  BY <1>1, CombineRows DEF Keep, TypeOK
<1>3. NewR \in Int /\ NewT \in Int /\ Multiplier \in Int
  BY <1>1, CombineRows
<1>4. BitLength(NewR) \in Nat /\ BitLength(NewR) <= bl_r0 - 1
  BY <1>1, NewRemainder
<1>5. TypeOK'
  <2>1. bl_r0' \in 0 .. BL
    BY <1>1, <1>2, <1>4, HeeaAssumption DEF TypeOK
  <2>2. QED BY <1>1, <1>2, <1>3, <2>1 DEF TypeOK
<1>6. CachedLengths'
  BY <1>1, <1>2, <1>4, HeeaAssumption DEF CachedLengths, TypeOK
<1>7. Abs(r1)' < L
  BY <1>1, <1>2 DEF LoopInv
<1>8. Congruent'
  <2>1. PICK q \in Int : NewR = NewT * v + q * L
    BY <1>1, RowAlgebra
  <2>2. PICK q0 \in Int, q1 \in Int : r0 = t0 * v + q0 * L /\ r1 = t1 * v + q1 * L
    BY <1>1 DEF LoopInv, Congruent
  <2>3. r0' = t0' * v' + q * L /\ r1' = t1' * v' + q1 * L
    BY <1>2, <2>1, <2>2
  <2>4. QED BY <2>3 DEF Congruent
<1>9. Determinant' = Determinant
  BY <1>1, <1>2, RowAlgebra DEF Determinant
<1>10. UnitDeterminant'
  BY <1>1, <1>9 DEF UnitDeterminant
<1>11. Product' = NewProduct
  BY <1>2, <1>9 DEF Product, NewProduct
<1>12. CofactorInv'
  <2>1. /\ NewProduct \in Int /\ NewProduct <= L
        /\ -(NewProduct * Top) <= L * (Shifted - Top)
    BY <1>1, NewProductBounds
  <2>2. L \in Int /\ 0 < L
    BY LPositive
  <2> DEFINE A == Abs(NewR)
             Q == Pow2[BitLength(NewR) - 1]
             P1 == Pow2[bl_r1 - 1]
             p == Pow2[bl_r0 - bl_r1]
  <2>3. A \in Int /\ Q \in Int /\ 0 < Q /\ Q <= A /\ A < 2 * Q
    <3>1. BitLength(NewR) > 0
      BY <1>1, <1>2, <1>4, HeeaAssumption DEF TypeOK
    <3>2. BitLength(NewR) - 1 \in Nat /\ Q <= A /\ A \in Nat
          /\ A < Pow2[BitLength(NewR)]
      BY <1>3, <3>1, BitLengthDef
    <3>3. Pow2[(BitLength(NewR) - 1) + 1] = 2 * Q
      BY <3>2, Pow2Def
    <3>4. (BitLength(NewR) - 1) + 1 = BitLength(NewR)
      BY <1>4
    <3>5. Q \in Nat /\ Q >= 1
      BY <3>2, Pow2Positive
    <3>6. QED BY <3>2, <3>3, <3>4, <3>5
  <2>4. NewProduct * (2 * Q - A) <= L * A
    <3> HIDE DEF A, Q
    <3>1. QED BY <2>1, <2>2, <2>3, KeepArithmetic
  <2>5. -(NewProduct * P1) <= L * (Abs(r1) - P1)
    <3>1. bl_r1 > 0 /\ bl_r1 - 1 \in Nat
      BY <1>1, LoopLengths, HeeaAssumption
    <3>2. /\ p \in Int /\ 0 < p /\ P1 \in Int /\ Abs(r1) \in Int
      BY <1>1, <3>1, LoopLengths, Pow2Def, AbsType DEF TypeOK
    <3>3. Top = P1 * p /\ Shifted = Abs(r1) * p
      BY <1>1, Brackets DEF Shifted
    <3> HIDE DEF P1, p
    <3>4. p * (-(NewProduct * P1)) = -(NewProduct * Top)
      BY <2>1, <3>2, <3>3
    <3>5. p * (L * (Abs(r1) - P1)) = L * (Shifted - Top)
      BY <2>2, <3>2, <3>3
    <3>6. -(NewProduct * P1) \in Int /\ L * (Abs(r1) - P1) \in Int
      BY <2>1, <2>2, <3>2
    <3>7. QED BY <2>1, <3>2, <3>4, <3>5, <3>6, MulCancel
  <2>6. bl_r1 > 0
    BY <1>1, HeeaAssumption DEF TypeOK
  <2>7. /\ Product' = NewProduct
        /\ Pow2[bl_r0 - 1]' = Q /\ Abs(r0)' = A
        /\ Pow2[bl_r1 - 1]' = P1 /\ Abs(r1)' = Abs(r1)
        /\ bl_r1' = bl_r1
    BY <1>2, <1>11
  <2>8. NewProduct <= 2 * L
    BY <2>1, <2>2
  <2> HIDE DEF A, Q, P1, p
  <2>9. QED BY <2>4, <2>5, <2>6, <2>7, <2>8 DEF CofactorInv
<1>13. OutputInv'
  BY <1>2 DEF OutputInv
<1>14. QED
  BY <1>5, <1>6, <1>7, <1>8, <1>10, <1>12, <1>13 DEF IInv, LoopInv

LEMMA SwapInv == IInv /\ Swap => IInv'
<1> SUFFICES ASSUME IInv, Swap PROVE IInv'
  OBVIOUS
<1>1. LoopInv /\ TypeOK /\ CachedLengths /\ UnitDeterminant /\ bl_r1 > Half
  BY DEF IInv, LoopInv, Swap
<1>2. /\ r0' = r1 /\ t0' = t1 /\ bl_r0' = bl_r1
      /\ r1' = NewR /\ t1' = NewT /\ bl_r1' = BitLength(NewR)
      /\ BitLength(NewR) <= bl_r1
      /\ v' = v /\ done' = FALSE /\ out' = out
  BY <1>1, CombineRows DEF Swap, TypeOK
<1>3. /\ NewR \in Int /\ NewT \in Int
      /\ r1 \in Int /\ t1 \in Int /\ r0 \in Int /\ t0 \in Int
  BY <1>1, CombineRows DEF TypeOK
<1>4. BitLength(NewR) \in Nat /\ Abs(NewR) < Top
  BY <1>1, NewRemainder
<1>5. TypeOK'
  <2>1. bl_r1' \in 0 .. BL /\ bl_r0' \in 0 .. BL
    BY <1>1, <1>2, <1>4, HeeaAssumption DEF TypeOK
  <2>2. QED BY <1>1, <1>2, <1>3, <2>1 DEF TypeOK
<1>6. CachedLengths'
  BY <1>1, <1>2, <1>4 DEF CachedLengths
<1>7. Abs(r1)' < L
  <2>1. Top <= Pow2[BL - 1]
    <3>1. BL - 1 \in Nat /\ bl_r0 - 1 <= BL - 1
      BY <1>1, HeeaAssumption, LoopLengths DEF TypeOK
    <3>2. QED BY <1>1, <3>1, LoopLengths, Pow2Monotone DEF Top
  <2>2. Pow2[BL - 1] \in Int /\ Top \in Int /\ Abs(NewR) \in Int
    <3>1. BL - 1 \in Nat
      BY HeeaAssumption
    <3>2. QED BY <1>1, <1>3, <3>1, Pow2Def, Brackets, AbsType
  <2>3. QED BY <1>2, <1>4, <2>1, <2>2, HeeaAssumption
<1>8. Congruent'
  <2>1. PICK q \in Int : NewR = NewT * v + q * L
    BY <1>1, RowAlgebra
  <2>2. PICK q0 \in Int, q1 \in Int : r0 = t0 * v + q0 * L /\ r1 = t1 * v + q1 * L
    BY <1>1 DEF LoopInv, Congruent
  <2>3. r0' = t0' * v' + q1 * L /\ r1' = t1' * v' + q * L
    BY <1>2, <2>1, <2>2
  <2>4. QED BY <2>3 DEF Congruent
<1>9. Determinant' = -Determinant
  <2>1. NewR * t1 - r1 * NewT = Determinant
    BY <1>1, RowAlgebra
  <2>2. Determinant' = r1 * NewT - NewR * t1
    BY <1>2 DEF Determinant
  <2>3. QED BY <1>3, <2>1, <2>2
<1>10. L \in Int /\ 0 < L /\ Determinant \in {L, -L}
  BY <1>1, LPositive DEF UnitDeterminant
<1>11. UnitDeterminant'
  BY <1>9, <1>10 DEF UnitDeterminant
<1>12. Product' = L - NewProduct
  <2>1. r1 * NewT = NewR * t1 - Determinant
    <3>1. NewR * t1 - r1 * NewT = Determinant
      BY <1>1, RowAlgebra
    <3>2. NewR * t1 \in Int /\ r1 * NewT \in Int
      BY <1>3
    <3>3. QED BY <3>1, <3>2
  <2>2. Product' = IF -Determinant > 0 THEN r1 * NewT ELSE -(r1 * NewT)
    BY <1>2, <1>9 DEF Product
  <2>3. NewR * t1 \in Int
    BY <1>3
  <2>4. CASE Determinant = L
    BY <1>10, <2>1, <2>2, <2>3, <2>4 DEF NewProduct
  <2>5. CASE Determinant = -L
    BY <1>10, <2>1, <2>2, <2>3, <2>5 DEF NewProduct
  <2>6. QED BY <1>10, <2>4, <2>5
<1>13. CofactorInv'
  <2>1. /\ NewProduct \in Int /\ NewProduct <= L
        /\ -(NewProduct * Top) <= L * (Shifted - Top)
    BY <1>1, NewProductBounds
  <2>2. /\ Top \in Int /\ 0 < Top
        /\ Shifted \in Int /\ Top <= Shifted /\ Shifted < 2 * Top
    BY <1>1, Brackets
  <2>3. -L <= NewProduct /\ (L - NewProduct) * (2 * Top - Shifted) <= L * Shifted
    BY <1>10, <2>1, <2>2, SwapArithmetic
  <2> DEFINE P1 == Pow2[bl_r1 - 1]
             p == Pow2[bl_r0 - bl_r1]
             A == Abs(NewR)
             Q == Pow2[BitLength(NewR) - 1]
  <2>4. (L - NewProduct) * (2 * P1 - Abs(r1)) <= L * Abs(r1)
    <3>1. bl_r1 - 1 \in Nat
      BY <1>1, LoopLengths, HeeaAssumption
    <3>2. /\ p \in Int /\ 0 < p /\ P1 \in Int /\ Abs(r1) \in Int
      BY <1>1, <1>3, <3>1, LoopLengths, Pow2Def, AbsType
    <3>3. Top = P1 * p /\ Shifted = Abs(r1) * p
      BY <1>1, Brackets DEF Shifted
    <3> HIDE DEF P1, p
    <3>4. p * ((L - NewProduct) * (2 * P1 - Abs(r1)))
            = (L - NewProduct) * (2 * Top - Shifted)
      BY <1>10, <2>1, <3>2, <3>3
    <3>5. p * (L * Abs(r1)) = L * Shifted
      BY <1>10, <3>2, <3>3
    <3>6. (L - NewProduct) * (2 * P1 - Abs(r1)) \in Int /\ L * Abs(r1) \in Int
      BY <1>10, <2>1, <3>2
    <3>7. QED BY <2>3, <3>2, <3>4, <3>5, <3>6, MulCancel
  <2>5. ASSUME BitLength(NewR) > 0
        PROVE  -((L - NewProduct) * Q) <= L * (A - Q)
    <3>1. /\ BitLength(NewR) - 1 \in Nat /\ Q <= A /\ A \in Nat
      BY <1>3, <2>5, BitLengthDef
    <3>2. Q \in Nat
      BY <3>1, Pow2Def
    <3> HIDE DEF A, Q
    <3>3. 0 <= (L - NewProduct) * Q /\ 0 <= L * (A - Q)
      BY <1>10, <2>1, <3>1, <3>2
    <3>4. (L - NewProduct) * Q \in Int /\ L * (A - Q) \in Int
      BY <1>10, <2>1, <3>1, <3>2
    <3>5. QED BY <3>3, <3>4
  <2>6. /\ Pow2[bl_r0 - 1]' = P1 /\ Abs(r0)' = Abs(r1)
        /\ Pow2[bl_r1 - 1]' = Q /\ Abs(r1)' = A
        /\ bl_r1' = BitLength(NewR)
    BY <1>2
  <2>7. L - NewProduct <= 2 * L /\ 0 <= L - NewProduct
    BY <1>10, <2>1, <2>3
  <2> HIDE DEF P1, p, A, Q
  <2>8. QED BY <1>12, <2>4, <2>5, <2>6, <2>7 DEF CofactorInv
<1>14. OutputInv'
  BY <1>2 DEF OutputInv
<1>15. QED
  BY <1>5, <1>6, <1>7, <1>8, <1>11, <1>13, <1>14 DEF IInv, LoopInv

LEMMA ReturnInv == IInv /\ Return => IInv'
<1> SUFFICES ASSUME IInv, Return PROVE IInv'
  OBVIOUS
<1>1. UNCHANGED <<v, r0, r1, t0, t1, bl_r0, bl_r1>>
  BY DEF Return, rows
<1>2. TypeOK'
  <2>1. Abs(r1) \in Nat /\ Abs(t1) \in Nat /\ ((r1 < 0) # (t1 < 0)) \in BOOLEAN
    BY AbsType DEF IInv, LoopInv, TypeOK
  <2>2. out' \in [rho : Nat, tau : Nat, flip_h : BOOLEAN]
    BY <2>1 DEF Return
  <2>3. done' = TRUE
    BY DEF Return
  <2>4. QED BY <1>1, <2>2, <2>3 DEF IInv, LoopInv, TypeOK
<1>3. /\ CachedLengths' /\ Abs(r1)' < L /\ Congruent' /\ UnitDeterminant'
      /\ CofactorInv'
  <2>1. CachedLengths'
    BY <1>1 DEF IInv, LoopInv, CachedLengths
  <2>2. Congruent' /\ Abs(r1)' < L
    BY <1>1 DEF IInv, LoopInv, Congruent
  <2>3. Determinant' = Determinant /\ Product' = Product
    BY <1>1 DEF Determinant, Product
  <2>4. UnitDeterminant'
    BY <2>3 DEF IInv, LoopInv, UnitDeterminant
  <2>5. CofactorInv'
    BY <1>1, <2>3 DEF IInv, LoopInv, CofactorInv
  <2>6. QED BY <2>1, <2>2, <2>4, <2>5
<1>4. OutputInv'
  BY <1>1 DEF OutputInv, Return
<1>5. QED BY <1>2, <1>3, <1>4 DEF IInv, LoopInv

LEMMA StutterInv == IInv /\ UNCHANGED vars => IInv'
<1> SUFFICES ASSUME IInv, UNCHANGED vars PROVE IInv'
  OBVIOUS
<1>1. UNCHANGED <<v, r0, r1, t0, t1, bl_r0, bl_r1, done, out>>
  BY DEF vars, rows
<1>2. Determinant' = Determinant /\ Product' = Product
  BY <1>1 DEF Determinant, Product
<1>3. TypeOK' /\ CachedLengths' /\ Abs(r1)' < L /\ Congruent' /\ OutputInv'
  BY <1>1 DEF IInv, LoopInv, TypeOK, CachedLengths, Congruent, OutputInv
<1>4. UnitDeterminant' /\ CofactorInv'
  BY <1>1, <1>2 DEF IInv, LoopInv, UnitDeterminant, CofactorInv
<1>5. QED BY <1>3, <1>4 DEF IInv, LoopInv

(* The inductive invariant holds in every reachable state, for every order *)
(* L, bit length and threshold that satisfy HeeaAssumption.                *)
THEOREM Invariance == Spec => []IInv
<1>1. IInv /\ [Next]_vars => IInv'
  BY KeepInv, SwapInv, ReturnInv, StutterInv DEF Next
<1>2. QED BY <1>1, InitInv, PTL DEF Spec

(* Type correctness of curve25519_heea_vartime and heea_decompose. *)
THEOREM TypeCorrect == Spec => []TypeOK
<1>1. IInv => TypeOK
  BY DEF IInv, LoopInv
<1>2. QED BY <1>1, Invariance, PTL

(* bl_r0 - bl_r1 never underflows and the cached lengths are never stale.  *)
THEOREM LengthsCorrect == Spec => []CachedLengths
<1>1. IInv => CachedLengths
  BY DEF IInv, LoopInv
<1>2. QED BY <1>1, Invariance, PTL

(* Each row stays congruent to a multiple of the challenge modulo L. *)
THEOREM RowsStayCongruent == Spec => []CongruentRows
<1>1. IInv => CongruentRows
  <2> SUFFICES ASSUME IInv PROVE CongruentRows
    OBVIOUS
  <2>1. /\ r0 \in Int /\ r1 \in Int /\ t0 \in Int /\ t1 \in Int /\ v \in Int
        /\ L \in Nat /\ L > 0
    BY LPositive, HeeaAssumption DEF IInv, LoopInv, TypeOK
  <2>2. PICK q0 \in Int, q1 \in Int : r0 = t0 * v + q0 * L /\ r1 = t1 * v + q1 * L
    BY DEF IInv, LoopInv, Congruent
  <2>3. /\ r0 - t0 * v \in Int /\ r0 - t0 * v = q0 * L
        /\ r1 - t1 * v \in Int /\ r1 - t1 * v = q1 * L
    BY <2>1, <2>2
  <2>4. ((r0 - t0 * v) % L) = 0 /\ ((r1 - t1 * v) % L) = 0
    BY <2>1, <2>3, Divisible
  <2>5. QED BY <2>4 DEF CongruentRows
<1>2. QED BY <1>1, Invariance, PTL

(* No row operation loses a factor of the determinant. *)
THEOREM DeterminantIsUnit == Spec => []UnitDeterminant
<1>1. IInv => UnitDeterminant
  BY DEF IInv, LoopInv
<1>2. QED BY <1>1, Invariance, PTL

(* The cofactors stay balanced against the remainders. *)
THEOREM CofactorsBounded == Spec => []CofactorInv
<1>1. IInv => CofactorInv
  BY DEF IInv, LoopInv
<1>2. QED BY <1>1, Invariance, PTL

(* The rows keep their lengths, congruences, determinant and balance. *)
THEOREM RowsInvariant == Spec => []RowsInv
<1>1. CachedLengths /\ CongruentRows /\ UnitDeterminant /\ CofactorInv => RowsInv
  BY DEF RowsInv
<1>2. QED
  BY <1>1, LengthsCorrect, RowsStayCongruent, DeterminantIsUnit, CofactorsBounded, PTL

(* r0 keeps more than Half bits. *)
LEMMA R0IsLong ==
  ASSUME LoopInv
  PROVE  /\ Pow2[Half] \in Nat /\ Pow2[Half] >= 2
         /\ Abs(r0) \in Nat /\ Pow2[Half] <= Abs(r0)
<1>1. /\ r0 \in Int /\ bl_r0 = BitLength(r0) /\ Half < bl_r0
      /\ Half \in Nat /\ Half >= 1 /\ Half - 1 \in Nat
  BY HeeaAssumption DEF LoopInv, TypeOK, CachedLengths
<1>2. /\ bl_r0 - 1 \in Nat /\ Pow2[bl_r0 - 1] <= Abs(r0)
      /\ Abs(r0) \in Nat
  BY <1>1, BitLengthDef
<1>3. Pow2[Half] <= Pow2[bl_r0 - 1]
  <2>1. Half <= bl_r0 - 1
    BY <1>1, LoopLengths DEF LoopInv
  <2>2. QED BY <1>1, <1>2, <2>1, Pow2Monotone
<1>4. Pow2[1] <= Pow2[Half]
  BY <1>1, Pow2Monotone
<1>5. Pow2[1] = 2
  <2>1. Pow2[0 + 1] = 2 * Pow2[0]
    BY Pow2Def
  <2>2. QED BY <2>1, Pow2Def
<1>6. Pow2[bl_r0 - 1] \in Nat /\ Pow2[Half] \in Nat
  BY <1>1, <1>2, Pow2Def
<1>7. QED BY <1>2, <1>3, <1>4, <1>5, <1>6

(* tau is never a multiple of L: multiplying the verification equation by  *)
(* it loses nothing, where a zero tau would accept every signature.        *)
TauInvertible == (t1 % L) # 0

LEMMA InvImpliesTauInvertible == LoopInv => TauInvertible
<1> SUFFICES ASSUME LoopInv, (t1 % L) = 0 PROVE FALSE
  BY DEF TauInvertible
<1>1. /\ r0 \in Int /\ r1 \in Int /\ t0 \in Int /\ t1 \in Int /\ v \in Int
      /\ L \in Nat /\ L > 0
  BY LPositive, HeeaAssumption DEF LoopInv, TypeOK
<1>2. PICK k \in Int : t1 = k * L
  BY <1>1, Divisible
<1>3. PICK q1 \in Int : r1 = t1 * v + q1 * L
  BY DEF LoopInv, Congruent
<1>4. r1 = 0
  <2> DEFINE e == k * v + q1
  <2>1. e \in Int /\ r1 = e * L
    BY <1>1, <1>2, <1>3
  <2>2. -L < r1 /\ r1 < L
    BY <1>1 DEF LoopInv, Abs
  <2>3. e = 0
    <3> HIDE DEF e
    <3>1. QED BY <1>1, <2>1, <2>2, SmallMultiple
  <2>4. QED BY <1>1, <2>1, <2>3
<1>5. (r0 * k) * L \in {L, -L}
  <2>1. r0 * t1 - r1 * t0 \in {L, -L}
    BY DEF LoopInv, UnitDeterminant, Determinant
  <2>2. r0 * t1 - r1 * t0 = (r0 * k) * L
    BY <1>1, <1>2, <1>4
  <2>3. QED BY <2>1, <2>2
<1>6. r0 * k \in {1, -1}
  <2> DEFINE f == r0 * k
  <2>1. f \in Int
    BY <1>1
  <2>2. CASE f * L = L
    <3>1. (f - 1) * L = 0 /\ f - 1 \in Int
      BY <1>1, <2>1, <2>2
    <3>2. QED BY <1>1, <2>1, <3>1, SmallMultiple
  <2>3. CASE f * L = -L
    <3>1. (f + 1) * L = 0 /\ f + 1 \in Int
      BY <1>1, <2>1, <2>3
    <3>2. QED BY <1>1, <2>1, <3>1, SmallMultiple
  <2>4. QED BY <1>5, <2>2, <2>3
<1>7. /\ 2 <= r0 \/ r0 <= -2
      /\ k # 0
  <2>1. Abs(r0) >= 2
    BY R0IsLong
  <2>2. QED BY <1>1, <1>6, <2>1 DEF Abs
<1>8. CASE 2 <= r0
  <2>1. k = 0
    BY <1>1, <1>6, <1>8, SmallMultiple
  <2>2. QED BY <1>7, <2>1
<1>9. CASE r0 <= -2
  <2>1. k * (-r0) \in {1, -1} /\ -r0 \in Int /\ 2 <= -r0
    BY <1>1, <1>6, <1>9
  <2>2. k = 0
    BY <2>1, SmallMultiple
  <2>3. QED BY <1>7, <2>2
<1>10. QED BY <1>7, <1>8, <1>9

(* tau is never a multiple of L, so the transformed verification equation  *)
(* is equivalent to the original one.                                      *)
THEOREM TauStaysInvertible == Spec => []TauInvertible
<1>1. IInv => TauInvertible
  BY InvImpliesTauInvertible DEF IInv
<1>2. QED BY <1>1, Invariance, PTL

-----------------------------------------------------------------------------
LEMMA AbsProduct ==
  ASSUME NEW x \in Int, NEW y \in Int
  PROVE  Abs(x * y) = Abs(x) * Abs(y)
<1>1. CASE 0 <= x /\ 0 <= y
  <2>1. 0 <= x * y /\ x * y \in Int
    BY <1>1
  <2>2. QED BY <1>1, <2>1 DEF Abs
<1>2. CASE x < 0 /\ y < 0
  <2>1. 0 <= (-x) * (-y) /\ (-x) * (-y) = x * y /\ x * y \in Int
    BY <1>2
  <2>2. QED BY <1>2, <2>1 DEF Abs
<1>3. CASE 0 <= x /\ y < 0
  <2>1. 0 <= x * (-y) /\ x * (-y) = -(x * y) /\ x * y \in Int
    BY <1>3
  <2>2. QED BY <1>3, <2>1 DEF Abs
<1>4. CASE x < 0 /\ 0 <= y
  <2>1. 0 <= (-x) * y /\ (-x) * y = -(x * y) /\ x * y \in Int
    BY <1>4
  <2>2. QED BY <1>4, <2>1 DEF Abs
<1>5. QED BY <1>1, <1>2, <1>3, <1>4

(* The consequences of CofactorInv for the two products of the rows. *)
LEMMA CofactorBound ==
  ASSUME LoopInv
  PROVE  Abs(r0) * Abs(t1) <= 2 * L /\ Abs(r1) * Abs(t0) <= 3 * L
<1>1. /\ r0 \in Int /\ r1 \in Int /\ t0 \in Int /\ t1 \in Int
      /\ L \in Int /\ 0 < L /\ bl_r1 \in Nat
      /\ Product \in Int /\ r0 * t1 \in Int /\ r1 * t0 \in Int
  BY LPositive, LoopLengths DEF LoopInv, TypeOK, Product
<1>2. Product <= 2 * L
  BY DEF LoopInv, CofactorInv
<1>3. -L <= Product
  <2>1. CASE bl_r1 = 0
    BY <1>1, <2>1 DEF LoopInv, CofactorInv
  <2>2. CASE bl_r1 > 0
    <3> DEFINE P1 == Pow2[bl_r1 - 1]
    <3>1. bl_r1 - 1 \in Nat /\ bl_r1 = BitLength(r1)
      BY <1>1, <2>2 DEF LoopInv, CachedLengths
    <3>2. P1 \in Nat /\ P1 >= 1 /\ Pow2[bl_r1] = 2 * P1
      <4>1. (bl_r1 - 1) + 1 = bl_r1 /\ Pow2[(bl_r1 - 1) + 1] = 2 * P1
        BY <1>1, <3>1, Pow2Def
      <4>2. QED BY <3>1, <4>1, Pow2Positive
    <3>3. Abs(r1) \in Nat /\ Abs(r1) < 2 * P1
      BY <1>1, <3>1, <3>2, BitLengthDef
    <3>4. -(Product * P1) <= L * (Abs(r1) - P1)
      BY <2>2 DEF LoopInv, CofactorInv
    <3> HIDE DEF P1
    <3>5. L * (Abs(r1) - P1) <= L * P1
      BY <1>1, <3>2, <3>3, MulMonotone
    <3>6. P1 * (-Product) <= P1 * L
      <4>1. L * P1 \in Int /\ L * (Abs(r1) - P1) \in Int /\ Product * P1 \in Int
        BY <1>1, <3>2, <3>3
      <4>2. P1 * (-Product) = -(Product * P1) /\ P1 * L = L * P1
        BY <1>1, <3>2
      <4>3. QED BY <3>4, <3>5, <4>1, <4>2
    <3>7. -Product <= L
      BY <1>1, <3>2, <3>6, MulCancel
    <3>8. QED BY <1>1, <3>7
  <2>3. QED BY <1>1, <2>1, <2>2
<1>4. Abs(r0 * t1) <= 2 * L
  BY <1>1, <1>2, <1>3 DEF Abs, Product
<1>5. r1 * t0 = r0 * t1 - Determinant /\ Determinant \in {L, -L}
  BY <1>1 DEF Determinant, LoopInv, UnitDeterminant
<1>6. Abs(r1 * t0) <= 3 * L
  BY <1>1, <1>4, <1>5 DEF Abs
<1>7. QED BY <1>1, <1>4, <1>6, AbsProduct

LEMMA InvImpliesNoLimbOverflow == LoopInv => NoLimbOverflow
<1> SUFFICES ASSUME LoopInv, bl_r1 > Half
             PROVE  /\ Abs(r0) + Abs(Shl(r1, bl_r0 - bl_r1)) < Pow2[Width]
                    /\ Abs(t0) + Abs(Shl(t1, bl_r0 - bl_r1)) < Pow2[Width]
  BY DEF NoLimbOverflow
<1> DEFINE p == Pow2[bl_r0 - bl_r1]
<1>1. /\ TypeOK /\ CachedLengths /\ L \in Int /\ 0 < L
      /\ r0 \in Int /\ r1 \in Int /\ t0 \in Int /\ t1 \in Int
      /\ Abs(r0) \in Nat /\ Abs(r1) \in Nat /\ Abs(t0) \in Nat /\ Abs(t1) \in Nat
  BY LPositive, AbsType DEF LoopInv, TypeOK
<1>2. p \in Nat /\ p >= 1 /\ Abs(p) = p
  BY <1>1, LoopLengths DEF Abs
<1>3. Abs(Shl(r1, bl_r0 - bl_r1)) = Shifted
      /\ Abs(Shl(t1, bl_r0 - bl_r1)) = Abs(t1) * p
  <2>1. Abs(r1 * p) = Abs(r1) * p /\ Abs(t1 * p) = Abs(t1) * p
    <3>1. p \in Int
      BY <1>2
    <3> HIDE DEF p
    <3>2. Abs(r1 * p) = Abs(r1) * Abs(p) /\ Abs(t1 * p) = Abs(t1) * Abs(p)
      BY <1>1, <3>1, AbsProduct
    <3>3. QED BY <1>2, <3>2
  <2>2. QED BY <2>1 DEF Shl, Shifted
<1>4. /\ Pow2[BL] \in Nat /\ L < Pow2[BL] /\ 4 * Pow2[BL] < Pow2[Width]
      /\ Pow2[Width] \in Nat
  <2>1. BL \in Nat /\ BL + 1 \in Nat /\ BL + 2 \in Nat /\ BL + 3 \in Nat
        /\ Width \in Nat /\ BL + 3 <= Width /\ L < Pow2[BL]
    BY HeeaAssumption
  <2>2. Pow2[BL + 1] = 2 * Pow2[BL] /\ Pow2[BL + 2] = 2 * Pow2[BL + 1]
        /\ Pow2[BL + 3] = 2 * Pow2[BL + 2]
    <3>1. (BL + 1) + 1 = BL + 2 /\ (BL + 2) + 1 = BL + 3
      BY <2>1
    <3>2. QED BY <2>1, <3>1, Pow2Def
  <2>3. Pow2[BL + 3] <= Pow2[Width]
    BY <2>1, Pow2Monotone
  <2>4. Pow2[BL] \in Nat /\ Pow2[BL] >= 1 /\ Pow2[Width] \in Nat
    BY <2>1, Pow2Positive
  <2>5. QED BY <2>1, <2>2, <2>3, <2>4
<1>5. Abs(r0) + Shifted < Pow2[Width]
  <2>1. /\ Top \in Int /\ Abs(r0) < 2 * Top
        /\ Shifted \in Int /\ Shifted < 2 * Top
    BY <1>1, Brackets
  <2>2. 2 * Top <= Pow2[BL]
    <3>1. bl_r0 \in Nat /\ bl_r0 - 1 \in Nat /\ bl_r0 <= BL /\ BL \in Nat
          /\ (bl_r0 - 1) + 1 = bl_r0
      BY <1>1, LoopLengths, HeeaAssumption DEF TypeOK
    <3>2. Pow2[(bl_r0 - 1) + 1] = 2 * Top
      BY <3>1, Pow2Def DEF Top
    <3>3. QED BY <3>1, <3>2, Pow2Monotone
  <2>3. QED BY <1>1, <1>4, <2>1, <2>2
<1>6. Abs(r1) >= 2
  <2>1. /\ bl_r1 - 1 \in Nat /\ bl_r1 = BitLength(r1) /\ bl_r1 > 0
        /\ 1 <= bl_r1 - 1
    BY <1>1, LoopLengths, HeeaAssumption DEF CachedLengths
  <2>2. Pow2[bl_r1 - 1] <= Abs(r1)
    BY <1>1, <2>1, BitLengthDef
  <2>3. Pow2[1] <= Pow2[bl_r1 - 1] /\ Pow2[bl_r1 - 1] \in Nat
    BY <2>1, Pow2Monotone, Pow2Def
  <2>4. Pow2[0 + 1] = 2 * Pow2[0] /\ Pow2[0] = 1
    BY Pow2Def
  <2>5. QED BY <1>1, <2>2, <2>3, <2>4
<1>7. Abs(r0) * Abs(t1) <= 2 * L /\ Abs(r1) * Abs(t0) <= 3 * L
  BY CofactorBound
<1>8. Abs(t1) * p <= 2 * L
  <2>1. Shifted \in Int /\ Shifted <= 2 * Abs(r0)
    <3>1. /\ Top \in Int /\ Top <= Abs(r0) /\ Shifted \in Int /\ Shifted < 2 * Top
      BY <1>1, Brackets
    <3>2. QED BY <1>1, <3>1
  <2>2. Abs(t1) * Shifted <= Abs(t1) * (2 * Abs(r0))
    BY <1>1, <2>1, MulMonotone
  <2>3. (Abs(t1) * p) * 2 <= (Abs(t1) * p) * Abs(r1)
    <3>1. Abs(t1) * p \in Int /\ 0 <= Abs(t1) * p
      BY <1>1, <1>2
    <3> HIDE DEF p
    <3>2. QED BY <1>1, <1>6, <3>1, MulMonotone
  <2>4. (Abs(t1) * p) * Abs(r1) = Abs(t1) * Shifted
    BY <1>1, <1>2 DEF Shifted
  <2>5. Abs(t1) * (2 * Abs(r0)) = 2 * (Abs(r0) * Abs(t1))
    BY <1>1
  <2>6. Abs(t1) * p \in Int /\ Abs(t1) * Shifted \in Int /\ Abs(r0) * Abs(t1) \in Int
    BY <1>1, <1>2, <2>1
  <2> HIDE DEF p
  <2>7. QED BY <1>1, <1>7, <2>2, <2>3, <2>4, <2>5, <2>6
<1>9. Abs(t0) <= 2 * L
  <2>1. Abs(t0) * 2 <= Abs(t0) * Abs(r1)
    BY <1>1, <1>6, MulMonotone
  <2>2. Abs(t0) * Abs(r1) = Abs(r1) * Abs(t0) /\ Abs(r1) * Abs(t0) \in Int
    BY <1>1
  <2>3. QED BY <1>1, <1>7, <2>1, <2>2
<1>10. Abs(t1) * p \in Int
  BY <1>1, <1>2
<1> HIDE DEF p
<1>11. Abs(t0) + Abs(t1) * p < Pow2[Width]
  BY <1>1, <1>4, <1>8, <1>9, <1>10
<1>12. QED BY <1>3, <1>5, <1>11

(* No shift or sum of the loop overflows the limbs. *)
THEOREM LimbsNeverOverflow == Spec => []NoLimbOverflow
<1>1. IInv => NoLimbOverflow
  BY InvImpliesNoLimbOverflow DEF IInv
<1>2. QED BY <1>1, Invariance, PTL

-----------------------------------------------------------------------------
(* tau fits in BL + 1 - Half bits: r0 is at least 2^Half and the product   *)
(* of r0 and t1 at most 2L.                                                *)
LEMMA TauIsShort == LoopInv => Abs(t1) < Pow2[BL + 1 - Half]
<1> DEFINE P == Pow2[Half]
           Q == Pow2[BL + 1 - Half]
<1> SUFFICES ASSUME LoopInv, ~ (Abs(t1) < Q) PROVE FALSE
  OBVIOUS
<1>1. /\ BL \in Nat /\ Half \in Nat /\ BL + 1 - Half \in Nat
      /\ L \in Nat /\ L < Pow2[BL] /\ Pow2[BL] \in Nat
  BY HeeaAssumption, Pow2Def
<1>2. /\ Abs(t1) \in Nat /\ Abs(r0) \in Nat /\ P \in Nat /\ P <= Abs(r0)
      /\ Q \in Nat
  BY <1>1, R0IsLong, AbsType, Pow2Def DEF LoopInv, TypeOK
<1>3. P * Q = 2 * Pow2[BL]
  <2>1. Pow2[Half + (BL + 1 - Half)] = P * Q
    BY <1>1, Pow2Sum
  <2>2. Half + (BL + 1 - Half) = BL + 1
    BY <1>1
  <2>3. Pow2[BL + 1] = 2 * Pow2[BL]
    BY <1>1, Pow2Def
  <2>4. QED BY <2>1, <2>2, <2>3
<1>4. P * Q <= P * Abs(t1)
  <2>1. Q <= Abs(t1)
    BY <1>2
  <2> HIDE DEF P, Q
  <2>2. QED BY <1>2, <2>1, MulMonotone
<1>5. Abs(t1) * P <= Abs(t1) * Abs(r0)
  <2> HIDE DEF P
  <2>1. QED BY <1>2, MulMonotone
<1>6. Abs(r0) * Abs(t1) <= 2 * L
  BY CofactorBound
<1>7. Abs(t1) * P = P * Abs(t1) /\ Abs(t1) * Abs(r0) = Abs(r0) * Abs(t1)
      /\ P * Abs(t1) \in Nat /\ P * Q \in Nat /\ Abs(r0) * Abs(t1) \in Nat
  BY <1>2
<1> HIDE DEF P, Q
<1>8. QED BY <1>1, <1>3, <1>4, <1>5, <1>6, <1>7

(* The congruence of the returned pair, with the sign flip_h records. *)
LEMMA OutputCongruence ==
  ASSUME NEW a \in Int, NEW b \in Int, NEW c \in Int, NEW q \in Int,
         a = b * c + q * L
  PROVE  IF (a < 0) # (b < 0) THEN ((Abs(a) + Abs(b) * c) % L) = 0
                              ELSE ((Abs(a) - Abs(b) * c) % L) = 0
<1>1. /\ L \in Nat /\ L > 0 /\ L \in Int
      /\ Abs(a) \in Int /\ Abs(b) \in Int
      /\ Abs(a) + Abs(b) * c \in Int /\ Abs(a) - Abs(b) * c \in Int
  BY LPositive, AbsType
<1>2. q * L \in Int /\ (-q) * L = -(q * L) /\ (-b) * c = -(b * c) /\ b * c \in Int
  BY <1>1
<1>3. CASE (a < 0) /\ ~ (b < 0)
  <2>1. Abs(a) + Abs(b) * c = (-q) * L
    BY <1>2, <1>3 DEF Abs
  <2>2. ((Abs(a) + Abs(b) * c) % L) = 0
    <3>1. \E k \in Int : Abs(a) + Abs(b) * c = k * L
      BY <2>1
    <3> DEFINE X == Abs(a) + Abs(b) * c
    <3>2. X \in Int /\ \E k \in Int : X = k * L
      BY <1>1, <3>1
    <3>3. (X % L) = 0
      <4> HIDE DEF X
      <4>1. QED BY <1>1, <3>2, Divisible
    <3>4. QED BY <3>3
  <2>3. QED BY <1>3, <2>2
<1>4. CASE ~ (a < 0) /\ (b < 0)
  <2>1. Abs(a) + Abs(b) * c = q * L
    BY <1>2, <1>4 DEF Abs
  <2>2. ((Abs(a) + Abs(b) * c) % L) = 0
    <3>1. \E k \in Int : Abs(a) + Abs(b) * c = k * L
      BY <2>1
    <3> DEFINE X == Abs(a) + Abs(b) * c
    <3>2. X \in Int /\ \E k \in Int : X = k * L
      BY <1>1, <3>1
    <3>3. (X % L) = 0
      <4> HIDE DEF X
      <4>1. QED BY <1>1, <3>2, Divisible
    <3>4. QED BY <3>3
  <2>3. QED BY <1>4, <2>2
<1>5. CASE (a < 0) /\ (b < 0)
  <2>1. Abs(a) - Abs(b) * c = (-q) * L
    BY <1>2, <1>5 DEF Abs
  <2>2. ((Abs(a) - Abs(b) * c) % L) = 0
    <3>1. \E k \in Int : Abs(a) - Abs(b) * c = k * L
      BY <2>1
    <3> DEFINE X == Abs(a) - Abs(b) * c
    <3>2. X \in Int /\ \E k \in Int : X = k * L
      BY <1>1, <3>1
    <3>3. (X % L) = 0
      <4> HIDE DEF X
      <4>1. QED BY <1>1, <3>2, Divisible
    <3>4. QED BY <3>3
  <2>3. QED BY <1>5, <2>2
<1>6. CASE ~ (a < 0) /\ ~ (b < 0)
  <2>1. Abs(a) - Abs(b) * c = q * L
    BY <1>2, <1>6 DEF Abs
  <2>2. ((Abs(a) - Abs(b) * c) % L) = 0
    <3>1. \E k \in Int : Abs(a) - Abs(b) * c = k * L
      BY <2>1
    <3> DEFINE X == Abs(a) - Abs(b) * c
    <3>2. X \in Int /\ \E k \in Int : X = k * L
      BY <1>1, <3>1
    <3>3. (X % L) = 0
      <4> HIDE DEF X
      <4>1. QED BY <1>1, <3>2, Divisible
    <3>4. QED BY <3>3
  <2>3. QED BY <1>6, <2>2
<1>7. QED BY <1>3, <1>4, <1>5, <1>6

LEMMA OutputIsSplit ==
  ASSUME IInv, done
  PROVE  out \in HS!Splits(v)
<1>1. /\ out.rho = Abs(r1) /\ out.tau = Abs(t1)
      /\ out.flip_h = ((r1 < 0) # (t1 < 0))
      /\ bl_r1 <= Half
  BY DEF IInv, OutputInv
<1>2. /\ r1 \in Int /\ t1 \in Int /\ v \in Int /\ L \in Nat /\ L > 0
      /\ bl_r1 \in Nat /\ Half \in Nat /\ bl_r1 = BitLength(r1)
  BY LPositive, LoopLengths, HeeaAssumption
     DEF IInv, LoopInv, TypeOK, CachedLengths
<1>3. out.rho < Pow2[Half]
  <2>1. Abs(r1) \in Nat /\ Abs(r1) < Pow2[bl_r1]
    BY <1>2, BitLengthDef
  <2>2. Pow2[bl_r1] <= Pow2[Half] /\ Pow2[bl_r1] \in Nat /\ Pow2[Half] \in Nat
    BY <1>1, <1>2, Pow2Monotone, Pow2Def
  <2>3. QED BY <1>1, <2>1, <2>2
<1>4. out.tau < Pow2[BL + 1 - Half]
  BY <1>1, TauIsShort DEF IInv
<1>5. (out.tau % L) # 0
  <2> SUFFICES ASSUME (Abs(t1) % L) = 0 PROVE FALSE
    BY <1>1
  <2> DEFINE A == Abs(t1)
  <2>0. A \in Int /\ (A % L) = 0
    BY <1>2, AbsType
  <2>1. PICK q \in Int : A = q * L
    <3> HIDE DEF A
    <3>1. QED BY <1>2, <2>0, Divisible
  <2>2. \E k \in Int : t1 = k * L
    <3>1. t1 = q * L \/ t1 = (-q) * L
      BY <1>2, <2>1 DEF Abs
    <3>2. QED BY <3>1, <2>1
  <2>3. (t1 % L) = 0
    BY <1>2, <2>2, Divisible
  <2>4. QED BY <2>3, InvImpliesTauInvertible DEF IInv, TauInvertible
<1>6. IF out.flip_h THEN ((out.rho + out.tau * v) % L) = 0
                    ELSE ((out.rho - out.tau * v) % L) = 0
  <2>1. PICK q1 \in Int : r1 = t1 * v + q1 * L
    BY DEF IInv, LoopInv, Congruent
  <2>2. IF (r1 < 0) # (t1 < 0) THEN ((Abs(r1) + Abs(t1) * v) % L) = 0
                               ELSE ((Abs(r1) - Abs(t1) * v) % L) = 0
    BY <1>2, <2>1, OutputCongruence
  <2>3. QED BY <1>1, <2>2
<1>7. /\ out.rho \in 0 .. Pow2[Half] - 1 /\ out.tau \in 0 .. Pow2[BL + 1 - Half] - 1
      /\ out.flip_h \in BOOLEAN
      /\ out = [rho |-> out.rho, tau |-> out.tau, flip_h |-> out.flip_h]
  <2>1. /\ Pow2[Half] \in Nat /\ Pow2[BL + 1 - Half] \in Nat
        /\ out.rho \in Nat /\ out.tau \in Nat /\ out.flip_h \in BOOLEAN
        /\ out = [rho |-> out.rho, tau |-> out.tau, flip_h |-> out.flip_h]
    BY HeeaAssumption, Pow2Def DEF IInv, LoopInv, TypeOK
  <2>2. QED BY <1>3, <1>4, <2>1
<1>8. out \in [rho : 0 .. Pow2[Half] - 1, tau : 0 .. Pow2[BL + 1 - Half] - 1, flip_h : BOOLEAN]
  BY <1>7
<1>9. QED BY <1>5, <1>6, <1>8 DEF HS!Splits

(* heea_decompose, the loop and its sign fix-up, implements the one-step   *)
(* decomposition: for every challenge it returns a half-size pair whose    *)
(* tau is invertible and whose quotient is the challenge or its negation.  *)
THEOREM HeeaImplementsSplit == Spec => ImplementsSplit
<1>1. Init => HS!Init
  BY DEF Init, HS!Init
<1>2. IInv /\ IInv' /\ [Next]_vars => [HS!Decompose]_<<v, done, out>>
  <2> SUFFICES ASSUME IInv, IInv', [Next]_vars
               PROVE  [HS!Decompose]_<<v, done, out>>
    OBVIOUS
  <2>1. CASE Keep
    BY <2>1 DEF Keep
  <2>2. CASE Swap
    BY <2>2 DEF Swap
  <2>3. CASE Return
    <3>1. ~ done /\ done' = TRUE /\ v' = v
      BY <2>3 DEF Return
    <3>2. (out \in HS!Splits(v))'
      <4>1. IInv' /\ done' => (out \in HS!Splits(v))'
        BY OutputIsSplit, PTL
      <4>2. QED BY <3>1, <4>1
    <3>3. out' \in HS!Splits(v)
      BY <3>1, <3>2 DEF HS!Splits
    <3>4. QED BY <3>1, <3>3 DEF HS!Decompose
  <2>4. CASE UNCHANGED vars
    BY <2>4 DEF vars
  <2>5. QED BY <2>1, <2>2, <2>3, <2>4 DEF Next
<1>3. QED BY <1>1, <1>2, Invariance, PTL DEF Spec, ImplementsSplit, HS!Spec

-----------------------------------------------------------------------------
(* Every iteration shortens the pair of remainders, hence the loop's bound *)
(* of 2 * BL iterations.                                                   *)
THEOREM LoopShortens == Spec => Shortens
<1> DEFINE Shorter == rows' # rows => bl_r0' + bl_r1' < bl_r0 + bl_r1
<1>1. ASSUME IInv, Next PROVE Shorter
  <2>1. TypeOK /\ CachedLengths /\ bl_r0 \in Nat /\ bl_r1 \in Nat
        /\ bl_r1 <= bl_r0
    BY <1>1, LoopLengths DEF IInv, LoopInv, CachedLengths
  <2>2. CASE Keep
    <3>1. BitLength(NewR) \in Nat /\ BitLength(NewR) <= bl_r0 - 1
      BY <2>1, <2>2, NewRemainder DEF Keep
    <3>2. bl_r0' = BitLength(NewR) /\ bl_r1' = bl_r1
      BY <2>1, <2>2, CombineRows DEF Keep
    <3>3. QED BY <2>1, <3>1, <3>2
  <2>3. CASE Swap
    <3>1. BitLength(NewR) \in Nat /\ BitLength(NewR) <= bl_r0 - 1
      BY <2>1, <2>3, NewRemainder DEF Swap
    <3>2. bl_r1' = BitLength(NewR) /\ bl_r0' = bl_r1
      BY <2>1, <2>3, CombineRows DEF Swap
    <3>3. QED BY <2>1, <3>1, <3>2
  <2>4. CASE Return
    BY <2>4 DEF Return
  <2>5. QED BY <1>1, <2>2, <2>3, <2>4 DEF Next
<1>2. IInv /\ [Next]_vars => [Shorter]_vars
  BY <1>1
<1>3. QED BY <1>2, Invariance, PTL DEF Spec, Shortens

-----------------------------------------------------------------------------
(* The limbs.  Four of them, and the integers the upper ones make.         *)
IsLimbs(l) == \A i \in 1 .. 4 : l[i] \in 0 .. Base - 1

LEMMA LimbRange ==
  ASSUME NEW l, IsLimbs(l)
  PROVE  /\ l[1] \in 0 .. Base - 1 /\ l[2] \in 0 .. Base - 1
         /\ l[3] \in 0 .. Base - 1 /\ l[4] \in 0 .. Base - 1
BY DEF IsLimbs

LEMMA BaseFacts ==
  /\ Base \in Nat /\ Base >= 2 /\ Base = Pow2[LimbBits] /\ LimbBits \in Nat
  /\ Base * Base \in Nat /\ Base * (Base * Base) \in Nat
  /\ Base * (Base * (Base * Base)) \in Nat
  /\ Pow2[2 * LimbBits] = Base * Base /\ Pow2[3 * LimbBits] = Base * (Base * Base)
  /\ Pow2[Width] = Base * (Base * (Base * Base))
<1>1. LimbBits \in Nat /\ LimbBits >= 1 /\ Width = 4 * LimbBits
  BY LimbAssumption
<1>2. Base \in Nat /\ Base >= 2 /\ Base = Pow2[LimbBits]
  BY <1>1, Pow2Positive DEF Base
<1>3. /\ 2 * LimbBits = LimbBits + LimbBits /\ 2 * LimbBits \in Nat
      /\ 3 * LimbBits = LimbBits + 2 * LimbBits /\ 3 * LimbBits \in Nat
      /\ Width = LimbBits + 3 * LimbBits
  BY <1>1
<1>4. Pow2[2 * LimbBits] = Base * Base
  BY <1>1, <1>2, <1>3, Pow2Sum
<1>5. Pow2[3 * LimbBits] = Base * (Base * Base)
  BY <1>1, <1>2, <1>3, <1>4, Pow2Sum
<1>6. Pow2[Width] = Base * (Base * (Base * Base))
  BY <1>1, <1>2, <1>3, <1>5, Pow2Sum
<1>7. \A x, y \in Nat : x * y \in Nat
  OBVIOUS
<1>8. Base * Base \in Nat /\ Base * (Base * Base) \in Nat
  BY <1>2, <1>7
<1>9. QED BY <1>1, <1>2, <1>4, <1>5, <1>6, <1>7, <1>8

(* One limb below a number of limbs. *)
LEMMA LowLimb ==
  ASSUME NEW B \in Nat, B >= 1, NEW x \in 0 .. B - 1, NEW X \in Nat, NEW K \in Nat
  PROVE  /\ x + B * X \in Nat
         /\ X < K => x + B * X < B * K
         /\ x + B * X < B * K => X < K
         /\ x + B * X = 0 <=> x = 0 /\ X = 0
<1>1. B * X \in Nat /\ B * K \in Nat
  OBVIOUS
<1>2. ASSUME X < K PROVE x + B * X < B * K
  <2>1. B * X + B <= B * K
    <3>1. X + 1 <= K
      BY <1>2
    <3>2. B * (X + 1) <= B * K
      BY <3>1, MulMonotone
    <3>3. QED BY <3>2
  <2>2. QED BY <1>1, <2>1
<1>3. ASSUME x + B * X < B * K, ~ (X < K) PROVE FALSE
  <2>1. B * K <= B * X
    BY <1>3, MulMonotone
  <2>2. QED BY <1>1, <1>3, <2>1
<1>4. X > 0 => B * X > 0
  OBVIOUS
<1>5. QED BY <1>1, <1>2, <1>3, <1>4

LEMMA MagnitudeFacts ==
  ASSUME NEW l, IsLimbs(l)
  PROVE  /\ Magnitude(l) \in Nat /\ Magnitude(l) < Pow2[Width]
         /\ l[2] + Base * (l[3] + Base * l[4]) \in Nat
         /\ l[3] + Base * l[4] \in Nat
         /\ Magnitude(l) = 0 <=> \A i \in 1 .. 4 : l[i] = 0
<1> DEFINE X3 == l[3] + Base * l[4]
           X2 == l[2] + Base * X3
           X1 == l[1] + Base * X2
           B2 == Base * Base
           B3 == Base * B2
           B4 == Base * B3
<1>1. /\ Base \in Nat /\ Base >= 1 /\ l[1] \in 0 .. Base - 1 /\ l[2] \in 0 .. Base - 1
      /\ l[3] \in 0 .. Base - 1 /\ l[4] \in 0 .. Base - 1 /\ l[4] \in Nat /\ l[4] < Base
  BY BaseFacts, LimbRange
<1>2. B2 \in Nat /\ B3 \in Nat /\ Pow2[Width] = B4
  BY BaseFacts
<1>3. X3 \in Nat /\ X3 < B2 /\ (X3 = 0 <=> l[3] = 0 /\ l[4] = 0)
  BY <1>1, LowLimb
<1> HIDE DEF X3, B2
<1>4. X2 \in Nat /\ X2 < B3 /\ (X2 = 0 <=> l[2] = 0 /\ X3 = 0)
  BY <1>1, <1>2, <1>3, LowLimb
<1> HIDE DEF X2, B3
<1>5. X1 \in Nat /\ X1 < B4 /\ (X1 = 0 <=> l[1] = 0 /\ X2 = 0)
  BY <1>1, <1>2, <1>4, LowLimb
<1>6. Magnitude(l) = X1
  BY DEF Magnitude, X2, X3
<1>7. (\A i \in 1 .. 4 : l[i] = 0) <=> l[1] = 0 /\ l[2] = 0 /\ l[3] = 0 /\ l[4] = 0
  OBVIOUS
<1> HIDE DEF X1, B4
<1>8. /\ Magnitude(l) \in Nat /\ Magnitude(l) < Pow2[Width]
      /\ (Magnitude(l) = 0) <=> (\A i \in 1 .. 4 : l[i] = 0)
  BY <1>2, <1>3, <1>4, <1>5, <1>6, <1>7
<1>9. QED BY <1>3, <1>4, <1>8 DEF X2, X3
-----------------------------------------------------------------------------
(* The carry or borrow c of one limb goes into the next.                   *)
Column(B, s, a, b, c, d, X, Y, Z, T) ==
  /\ B \in Int /\ s \in Int /\ a \in Int /\ b \in Int /\ c \in Int /\ d \in Int
  /\ X \in Int /\ Y \in Int /\ Z \in Int /\ T \in Int
  /\ s + B * c = a + b + d /\ X + T = Y + Z + c

LEMMA ColumnStep ==
  ASSUME NEW B, NEW s, NEW a, NEW b, NEW c, NEW d, NEW X, NEW Y, NEW Z, NEW T,
         Column(B, s, a, b, c, d, X, Y, Z, T)
  PROVE  (s + B * X) + B * T = (a + B * Y) + (b + B * Z) + d
<1>0. /\ B \in Int /\ s \in Int /\ a \in Int /\ b \in Int /\ c \in Int /\ d \in Int
      /\ X \in Int /\ Y \in Int /\ Z \in Int /\ T \in Int
      /\ s + B * c = a + b + d /\ X + T = Y + Z + c
  BY DEF Column
<1>1. B * (X + T) = B * (Y + Z + c)
  BY <1>0
<1>2. B * (X + T) = B * X + B * T /\ B * (Y + Z + c) = B * Y + B * Z + B * c
  BY <1>0
<1>3. /\ B * X \in Int /\ B * T \in Int /\ B * Y \in Int /\ B * Z \in Int /\ B * c \in Int
  BY <1>0
<1>4. QED BY <1>0, <1>1, <1>2, <1>3

(* Columns of four limbs, with the carry that leaves the last.             *)
Columns(s, a, b, c) ==
  /\ c[0] = 0
  /\ \A i \in 0 .. 4 : c[i] \in Int
  /\ \A i \in 1 .. 4 : /\ s[i] \in Int /\ a[i] \in Int /\ b[i] \in Int
                       /\ s[i] + Base * c[i] = a[i] + b[i] + c[i - 1]

LEMMA ColumnsAdd ==
  ASSUME NEW s, NEW a, NEW b, NEW c, Columns(s, a, b, c)
  PROVE  Magnitude(s) + Pow2[Width] * c[4] = Magnitude(a) + Magnitude(b)
<1> DEFINE X(l) == l[3] + Base * l[4]
           Y(l) == l[2] + Base * X(l)
           T2 == Base * c[4]
           T3 == Base * T2
           T4 == Base * T3
           T5 == Base * T4
<1>1. /\ Base \in Int /\ c[0] = 0 /\ c[0] \in Int /\ c[1] \in Int /\ c[2] \in Int /\ c[3] \in Int /\ c[4] \in Int
      /\ s[1] \in Int /\ s[2] \in Int /\ s[3] \in Int /\ s[4] \in Int
      /\ a[1] \in Int /\ a[2] \in Int /\ a[3] \in Int /\ a[4] \in Int
      /\ b[1] \in Int /\ b[2] \in Int /\ b[3] \in Int /\ b[4] \in Int
  BY BaseFacts DEF Columns
<1>2. /\ s[1] + Base * c[1] = a[1] + b[1] + c[0]
      /\ s[2] + Base * c[2] = a[2] + b[2] + c[1]
      /\ s[3] + Base * c[3] = a[3] + b[3] + c[2]
      /\ s[4] + Base * c[4] = a[4] + b[4] + c[3]
  BY DEF Columns
<1>3. T2 \in Int /\ s[4] + T2 = a[4] + b[4] + c[3]
  BY <1>1, <1>2
<1> HIDE DEF T2
<1>4. T3 \in Int /\ X(s) \in Int /\ X(a) \in Int /\ X(b) \in Int
  BY <1>1, <1>3
<1>5. X(s) + T3 = X(a) + X(b) + c[2]
  <2>1. Column(Base, s[3], a[3], b[3], c[3], c[2], s[4], a[4], b[4], T2)
    BY <1>1, <1>2, <1>3 DEF Column
  <2>2. (s[3] + Base * s[4]) + Base * T2 = (a[3] + Base * a[4]) + (b[3] + Base * b[4]) + c[2]
    BY <2>1, ColumnStep
  <2>3. QED BY <2>2
<1> HIDE DEF T3, X
<1>6. T4 \in Int /\ Y(s) \in Int /\ Y(a) \in Int /\ Y(b) \in Int
  BY <1>1, <1>4
<1>7. Y(s) + T4 = Y(a) + Y(b) + c[1]
  <2>1. Column(Base, s[2], a[2], b[2], c[2], c[1], X(s), X(a), X(b), T3)
    BY <1>1, <1>2, <1>4, <1>5 DEF Column
  <2>2. (s[2] + Base * X(s)) + Base * T3 = (a[2] + Base * X(a)) + (b[2] + Base * X(b)) + c[1]
    BY <2>1, ColumnStep
  <2>3. QED BY <2>2
<1> HIDE DEF T4, Y
<1>8. (s[1] + Base * Y(s)) + T5 = (a[1] + Base * Y(a)) + (b[1] + Base * Y(b)) + c[0]
  <2>1. Column(Base, s[1], a[1], b[1], c[1], c[0], Y(s), Y(a), Y(b), T4)
    BY <1>1, <1>2, <1>6, <1>7 DEF Column
  <2>2. (s[1] + Base * Y(s)) + Base * T4 = (a[1] + Base * Y(a)) + (b[1] + Base * Y(b)) + c[0]
    BY <2>1, ColumnStep
  <2>3. QED BY <2>2
<1>9. \A l : Magnitude(l) = l[1] + Base * Y(l)
  BY DEF Magnitude, X, Y
<1>10. T5 = Pow2[Width] * c[4]
  <2>1. \A x, y, z \in Int : x * (y * z) = (x * y) * z
    OBVIOUS
  <2>2. T5 = Base * (Base * (Base * (Base * c[4])))
    BY DEF T2, T3, T4
  <2>3. Base \in Int /\ Base * Base \in Int /\ Base * (Base * Base) \in Int /\ c[4] \in Int
    BY <1>1, BaseFacts
  <2>4. /\ Base * (Base * c[4]) = (Base * Base) * c[4]
        /\ Base * ((Base * Base) * c[4]) = (Base * (Base * Base)) * c[4]
        /\ Base * ((Base * (Base * Base)) * c[4]) = (Base * (Base * (Base * Base))) * c[4]
    BY <2>1, <2>3
  <2>5. QED BY <2>2, <2>4, BaseFacts
<1> HIDE DEF T5
<1>11. T5 \in Int /\ Magnitude(s) \in Int /\ Magnitude(a) \in Int /\ Magnitude(b) \in Int
  BY <1>1, <1>6, <1>9 DEF T5
<1>12. QED BY <1>1, <1>8, <1>9, <1>10, <1>11

-----------------------------------------------------------------------------
LEMMA FourLimbsAre ==
  ASSUME NEW l
  PROVE  \A i \in 1 .. 4 : FourLimbs(l)[i] = l[i]
BY DEF FourLimbs

LEMMA DivBase ==
  ASSUME NEW x \in Int
  PROVE  /\ x \div Base \in Int /\ x % Base \in 0 .. Base - 1
         /\ (x % Base) + Base * (x \div Base) = x
<1>1. Base = Pow2[LimbBits] /\ LimbBits \in Nat /\ Base \in Nat
  BY BaseFacts
<1>2. /\ x \div Pow2[LimbBits] \in Int /\ x % Pow2[LimbBits] \in 0 .. Pow2[LimbBits] - 1
      /\ x = Pow2[LimbBits] * (x \div Pow2[LimbBits]) + (x % Pow2[LimbBits])
  BY <1>1, DivFacts
<1>3. x \div Base \in Int /\ x % Base \in 0 .. Base - 1 /\ x = Base * (x \div Base) + (x % Base)
  BY <1>1, <1>2
<1> DEFINE q == x \div Base
           r == x % Base
<1> HIDE DEF q, r
<1>4. q \in Int /\ r \in 0 .. Base - 1 /\ x = Base * q + r
  BY <1>3 DEF q, r
<1>5. r + Base * q = x
  BY <1>1, <1>4
<1>6. QED BY <1>4, <1>5 DEF q, r

(* add_limbs adds, unless the sum needs a fifth limb.                      *)
LEMMA AddLimbsIs ==
  ASSUME NEW a, NEW b, IsLimbs(a), IsLimbs(b),
         Magnitude(a) + Magnitude(b) < Pow2[Width]
  PROVE  /\ IsLimbs(AddLimbs(a, b).limbs)
         /\ Magnitude(AddLimbs(a, b).limbs) = Magnitude(a) + Magnitude(b)
<1> DEFINE Body(f) == [i \in 0 .. 4 |->
             IF i = 0 THEN 0 ELSE (a[i] + b[i] + f[i - 1]) \div Base]
           A == CHOOSE f : f = Body(f)
           c1 == (a[1] + b[1] + 0) \div Base
           c2 == (a[2] + b[2] + c1) \div Base
           c3 == (a[3] + b[3] + c2) \div Base
           c4 == (a[4] + b[4] + c3) \div Base
           g == [i \in 0 .. 4 |-> IF i = 0 THEN 0 ELSE IF i = 1 THEN c1
                                  ELSE IF i = 2 THEN c2 ELSE IF i = 3 THEN c3 ELSE c4]
           l == [i \in 1 .. 4 |-> (a[i] + b[i] + A[i - 1]) % Base]
           s == AddLimbs(a, b).limbs
<1>1. g = Body(g)
  <2> HIDE DEF c1, c2, c3, c4
  <2>1. g[0] = 0 /\ g[1] = c1 /\ g[2] = c2 /\ g[3] = c3
    OBVIOUS
  <2>2. ASSUME NEW i \in 0 .. 4 PROVE g[i] = Body(g)[i]
    <3>1. CASE i = 0
      BY <3>1
    <3>2. CASE i = 1
      BY <2>1, <3>2 DEF c1
    <3>3. CASE i = 2
      BY <2>1, <3>3 DEF c2
    <3>4. CASE i = 3
      BY <2>1, <3>4 DEF c3
    <3>5. CASE i = 4
      BY <2>1, <3>5 DEF c4
    <3>6. QED BY <3>1, <3>2, <3>3, <3>4, <3>5
  <2> HIDE DEF g
  <2>3. g = [i \in 0 .. 4 |-> g[i]]
    BY DEF g
  <2>4. QED BY <2>2, <2>3
<1>2. A = Body(A)
  <2> HIDE DEF Body, g
  <2>1. QED BY <1>1
<1>3. AddLimbs(a, b) = [limbs |-> FourLimbs(l), overflow |-> A[4]]
  BY DEF AddLimbs
<1> HIDE DEF A
<1>4. A[0] = 0 /\ \A i \in 1 .. 4 : A[i] = (a[i] + b[i] + A[i - 1]) \div Base
  BY <1>2
<1>5. \A i \in 1 .. 4 : s[i] = (a[i] + b[i] + A[i - 1]) % Base
  <2> HIDE DEF l
  <2>1. s = FourLimbs(l)
    BY <1>3
  <2>2. \A i \in 1 .. 4 : FourLimbs(l)[i] = l[i]
    BY FourLimbsAre
  <2>3. QED BY <2>1, <2>2 DEF l
<1> HIDE DEF s
<1>6. \A i \in 1 .. 4 : a[i] \in Int /\ b[i] \in Int
  BY BaseFacts DEF IsLimbs
<1>7. ASSUME NEW i \in 1 .. 4, A[i - 1] \in Int
      PROVE  /\ A[i] \in Int /\ s[i] \in 0 .. Base - 1 /\ s[i] \in Int
             /\ s[i] + Base * A[i] = a[i] + b[i] + A[i - 1]
  <2> DEFINE x == a[i] + b[i] + A[i - 1]
  <2>1. x \in Int
    BY <1>6, <1>7
  <2>2. A[i] = x \div Base /\ s[i] = x % Base
    BY <1>4, <1>5
  <2> HIDE DEF x
  <2>3. A[i] \in Int /\ s[i] \in 0 .. Base - 1 /\ s[i] + Base * A[i] = x
    BY <2>1, <2>2, DivBase
  <2>4. QED BY <2>3, BaseFacts DEF x
<1>8. A[0] \in Int /\ A[1] \in Int /\ A[2] \in Int /\ A[3] \in Int /\ A[4] \in Int
  <2>1. A[1] \in Int
    BY <1>4, <1>7
  <2>2. A[2] \in Int
    BY <2>1, <1>7
  <2>3. A[3] \in Int
    BY <2>2, <1>7
  <2>4. A[4] \in Int
    BY <2>3, <1>7
  <2>5. QED BY <1>4, <2>1, <2>2, <2>3, <2>4
<1>9. \A i \in 0 .. 4 : A[i] \in Int
  <2>1. ASSUME NEW i \in 0 .. 4 PROVE i \in {0, 1, 2, 3, 4}
    OBVIOUS
  <2>2. QED BY <1>8, <2>1
<1>10. \A i \in 1 .. 4 : i - 1 \in 0 .. 4
  OBVIOUS
<1>11. IsLimbs(s) /\ Columns(s, a, b, A)
  BY <1>4, <1>6, <1>7, <1>9, <1>10 DEF IsLimbs, Columns
<1>12. Magnitude(s) + Pow2[Width] * A[4] = Magnitude(a) + Magnitude(b)
  BY <1>11, ColumnsAdd
<1>13. A[4] = 0
  <2> DEFINE M == Pow2[Width]
             c == A[4]
             S == Magnitude(s)
             T == Magnitude(a) + Magnitude(b)
  <2>1. M \in Nat /\ M > 0 /\ c \in Int /\ S \in Nat /\ S < M /\ T \in Nat /\ T < M
    <3>1. Magnitude(s) \in Nat /\ Magnitude(s) < Pow2[Width]
      BY <1>11, MagnitudeFacts
    <3>2. Magnitude(a) \in Nat /\ Magnitude(b) \in Nat
      BY MagnitudeFacts
    <3>3. Pow2[Width] \in Nat
      BY BaseFacts
    <3>4. QED BY <1>8, <3>1, <3>2, <3>3
  <2>2. S + M * c = T
    BY <1>12
  <2> HIDE DEF M, c, S, T
  <2>3. M * c = T - S /\ M * c < M /\ -M < M * c
    BY <2>1, <2>2
  <2>4. c * M = M * c
    BY <2>1
  <2>5. c = 0
    BY <2>1, <2>3, <2>4, SmallMultiple
  <2>6. QED BY <2>5 DEF c
<1>14. Magnitude(s) \in Int /\ Pow2[Width] \in Int
  BY <1>11, MagnitudeFacts, BaseFacts
<1>15. Magnitude(s) = Magnitude(a) + Magnitude(b)
  BY <1>12, <1>13, <1>14
<1>16. QED BY <1>11, <1>15 DEF s

(* sub_limbs subtracts the smaller from the greater.                       *)
LEMMA SubLimbsIs ==
  ASSUME NEW a, NEW b, IsLimbs(a), IsLimbs(b), Magnitude(a) >= Magnitude(b)
  PROVE  /\ IsLimbs(SubLimbs(a, b).limbs)
         /\ Magnitude(SubLimbs(a, b).limbs) = Magnitude(a) - Magnitude(b)
<1> DEFINE Body(f) == [i \in 0 .. 4 |->
             IF i = 0 THEN 0 ELSE IF a[i] < b[i] + f[i - 1] THEN 1 ELSE 0]
           A == CHOOSE f : f = Body(f)
           c1 == IF a[1] < b[1] + 0 THEN 1 ELSE 0
           c2 == IF a[2] < b[2] + c1 THEN 1 ELSE 0
           c3 == IF a[3] < b[3] + c2 THEN 1 ELSE 0
           c4 == IF a[4] < b[4] + c3 THEN 1 ELSE 0
           g == [i \in 0 .. 4 |-> IF i = 0 THEN 0 ELSE IF i = 1 THEN c1
                                  ELSE IF i = 2 THEN c2 ELSE IF i = 3 THEN c3 ELSE c4]
           l == [i \in 1 .. 4 |-> (a[i] - b[i] - A[i - 1]) % Base]
           s == SubLimbs(a, b).limbs
<1>1. g = Body(g)
  <2> HIDE DEF c1, c2, c3, c4
  <2>1. g[0] = 0 /\ g[1] = c1 /\ g[2] = c2 /\ g[3] = c3
    OBVIOUS
  <2>2. ASSUME NEW i \in 0 .. 4 PROVE g[i] = Body(g)[i]
    <3>1. CASE i = 0
      BY <3>1
    <3>2. CASE i = 1
      BY <2>1, <3>2 DEF c1
    <3>3. CASE i = 2
      BY <2>1, <3>3 DEF c2
    <3>4. CASE i = 3
      BY <2>1, <3>4 DEF c3
    <3>5. CASE i = 4
      BY <2>1, <3>5 DEF c4
    <3>6. QED BY <3>1, <3>2, <3>3, <3>4, <3>5
  <2> HIDE DEF g
  <2>3. g = [i \in 0 .. 4 |-> g[i]]
    BY DEF g
  <2>4. QED BY <2>2, <2>3
<1>2. A = Body(A)
  <2> HIDE DEF Body, g
  <2>1. QED BY <1>1
<1>3. SubLimbs(a, b) = [limbs |-> FourLimbs(l), underflow |-> A[4]]
  BY DEF SubLimbs
<1> HIDE DEF A
<1>4. /\ A[0] = 0
      /\ \A i \in 1 .. 4 : A[i] = IF a[i] < b[i] + A[i - 1] THEN 1 ELSE 0
  BY <1>2
<1>5. \A i \in 1 .. 4 : s[i] = (a[i] - b[i] - A[i - 1]) % Base
  <2> HIDE DEF l
  <2>1. s = FourLimbs(l)
    BY <1>3
  <2>2. \A i \in 1 .. 4 : FourLimbs(l)[i] = l[i]
    BY FourLimbsAre
  <2>3. QED BY <2>1, <2>2 DEF l
<1> HIDE DEF s
<1>6. \A i \in 1 .. 4 : a[i] \in 0 .. Base - 1 /\ b[i] \in 0 .. Base - 1
  BY DEF IsLimbs
<1>7. \A i \in 0 .. 4 : A[i] \in {0, 1}
  BY <1>4
<1>8. ASSUME NEW i \in 1 .. 4
      PROVE  /\ s[i] \in 0 .. Base - 1
             /\ s[i] = a[i] - b[i] - A[i - 1] + Base * A[i]
  <2> DEFINE x == a[i] - b[i] - A[i - 1]
             r == IF a[i] < b[i] + A[i - 1] THEN x + Base ELSE x
             q == IF a[i] < b[i] + A[i - 1] THEN -1 ELSE 0
  <2>1. /\ a[i] \in 0 .. Base - 1 /\ b[i] \in 0 .. Base - 1 /\ A[i - 1] \in {0, 1}
        /\ A[i] = IF a[i] < b[i] + A[i - 1] THEN 1 ELSE 0
        /\ s[i] = x % Base
    <3>1. i - 1 \in 0 .. 4
      OBVIOUS
    <3>2. QED BY <3>1, <1>4, <1>5, <1>6, <1>7
  <2>2. Base \in Nat /\ Base >= 2 /\ x \in Int /\ r \in 0 .. Base - 1 /\ q \in {0, -1}
        /\ x = Base * q + r /\ r = x + Base * A[i]
    <3>1. Base \in Nat /\ Base >= 2 /\ Base * 0 = 0 /\ Base * 1 = Base /\ Base * (-1) = -Base
      BY BaseFacts
    <3>2. CASE a[i] < b[i] + A[i - 1]
      BY <2>1, <3>1, <3>2
    <3>3. CASE ~ (a[i] < b[i] + A[i - 1])
      BY <2>1, <3>1, <3>3
    <3>4. QED BY <3>2, <3>3
  <2>3. x = a[i] - b[i] - A[i - 1] /\ s[i] = x % Base
    BY <2>1
  <2> HIDE DEF x, r, q
  <2>4. x % Base = r
    <3>1. Base > 0 /\ q \in Int
      BY <2>2
    <3>2. QED BY <2>2, <3>1, DivUnique
  <2>5. QED BY <2>2, <2>3, <2>4
<1> DEFINE nb == [i \in 1 .. 4 |-> -b[i]]
           nc == [i \in 0 .. 4 |-> -A[i]]
<1>9. /\ \A i \in 1 .. 4 : nb[i] = -b[i] /\ nb[i] \in Int
      /\ \A i \in 0 .. 4 : nc[i] = -A[i] /\ nc[i] \in Int
  BY <1>6, <1>7, BaseFacts
<1> HIDE DEF nb, nc
<1>10. IsLimbs(s) /\ Columns(s, a, nb, nc)
  <2>1. nc[0] = 0
    BY <1>4, <1>9
  <2>2. ASSUME NEW i \in 1 .. 4
        PROVE  /\ s[i] \in Int /\ a[i] \in Int
               /\ s[i] + Base * nc[i] = a[i] + nb[i] + nc[i - 1]
    <3>1. /\ i - 1 \in 0 .. 4 /\ i \in 0 .. 4 /\ s[i] \in Int /\ a[i] \in Int /\ b[i] \in Int
          /\ A[i] \in Int /\ A[i - 1] \in Int /\ Base \in Int
      <4>1. Base \in Nat /\ i - 1 \in 0 .. 4 /\ i \in 0 .. 4
        BY BaseFacts
      <4>2. A[i] \in {0, 1} /\ A[i - 1] \in {0, 1}
        BY <1>7, <4>1
      <4>3. s[i] \in 0 .. Base - 1 /\ a[i] \in 0 .. Base - 1 /\ b[i] \in 0 .. Base - 1
        BY <1>6, <1>8
      <4>4. QED BY <4>1, <4>2, <4>3
    <3>2. nb[i] = -b[i] /\ nc[i] = -A[i] /\ nc[i - 1] = -A[i - 1]
      BY <1>9, <3>1
    <3>3. Base * nc[i] = -(Base * A[i]) /\ Base * A[i] \in Int
      BY <3>1, <3>2, MulNegate
    <3>4. QED BY <1>8, <3>1, <3>2, <3>3
  <2>3. QED BY <1>8, <1>9, <2>1, <2>2 DEF IsLimbs, Columns
<1>11. Magnitude(nb) = -Magnitude(b)
  <2>1. \A x, y \in Int : Base * (-x) = -(Base * x) /\ Base * x \in Int
    BY BaseFacts, MulNegate
  <2>2. b[1] \in Int /\ b[2] \in Int /\ b[3] \in Int /\ b[4] \in Int
    BY <1>6, BaseFacts
  <2> DEFINE x4 == Base * b[4]
             x3 == Base * (b[3] + x4)
             x2 == Base * (b[2] + x3)
  <2>3. x4 \in Int /\ Base * nb[4] = -x4
    BY <1>9, <2>1, <2>2
  <2> HIDE DEF x4
  <2>4. x3 \in Int /\ nb[3] + (-x4) = -(b[3] + x4) /\ Base * (nb[3] + (-x4)) = -x3
    BY <1>9, <2>1, <2>2, <2>3
  <2> HIDE DEF x3
  <2>5. x2 \in Int /\ nb[2] + (-x3) = -(b[2] + x3) /\ Base * (nb[2] + (-x3)) = -x2
    BY <1>9, <2>1, <2>2, <2>4
  <2> HIDE DEF x2
  <2>6. nb[1] + (-x2) = -(b[1] + x2)
    BY <1>9, <2>2, <2>5
  <2>7. Magnitude(b) = b[1] + x2
    BY DEF Magnitude, x2, x3, x4
  <2>8. QED BY <2>3, <2>4, <2>5, <2>6, <2>7 DEF Magnitude
<1>12. Magnitude(s) + Pow2[Width] * nc[4] = Magnitude(a) + Magnitude(nb)
  BY <1>10, ColumnsAdd
<1>13. nc[4] = 0
  <2> DEFINE M == Pow2[Width]
             c == nc[4]
             S == Magnitude(s)
             T == Magnitude(a) - Magnitude(b)
  <2>1. M \in Nat /\ M > 0 /\ c \in Int /\ S \in Nat /\ S < M /\ T \in Nat /\ T < M
    <3>1. Magnitude(s) \in Nat /\ Magnitude(s) < Pow2[Width]
      BY <1>10, MagnitudeFacts
    <3>2. Magnitude(a) \in Nat /\ Magnitude(b) \in Nat /\ Magnitude(a) < Pow2[Width]
      BY MagnitudeFacts
    <3>3. Pow2[Width] \in Nat /\ nc[4] \in Int
      BY BaseFacts, <1>9
    <3>4. QED BY <3>1, <3>2, <3>3
  <2>2. S + M * c = T
    BY <1>11, <1>12, MagnitudeFacts
  <2> HIDE DEF M, c, S, T
  <2>3. M * c = T - S /\ M * c < M /\ -M < M * c
    BY <2>1, <2>2
  <2>4. c * M = M * c
    BY <2>1
  <2>5. c = 0
    BY <2>1, <2>3, <2>4, SmallMultiple
  <2>6. QED BY <2>5 DEF c
<1>14. Magnitude(s) \in Int /\ Pow2[Width] \in Int /\ Magnitude(a) \in Int /\ Magnitude(b) \in Int
  BY <1>10, MagnitudeFacts, BaseFacts
<1>15. Magnitude(s) = Magnitude(a) - Magnitude(b)
  BY <1>11, <1>12, <1>13, <1>14
<1>16. QED BY <1>10, <1>15 DEF s
-----------------------------------------------------------------------------
(* The highest limb that differs decides.                                  *)
LEMMA CompareStep ==
  ASSUME NEW x \in 0 .. Base - 1, NEW y \in 0 .. Base - 1, NEW X \in Nat, NEW Y \in Nat
  PROVE  /\ x + Base * X > y + Base * Y <=> X > Y \/ (X = Y /\ x > y)
         /\ x + Base * X = y + Base * Y <=> X = Y /\ x = y
<1>1. Base \in Nat /\ Base >= 2 /\ Base * X \in Nat /\ Base * Y \in Nat
  BY BaseFacts
<1>2. ASSUME X > Y PROVE x + Base * X > y + Base * Y
  <2>1. Y + 1 <= X /\ Y + 1 \in Int
    BY <1>2
  <2>2. Base * (Y + 1) <= Base * X
    BY <1>1, <2>1, MulMonotone
  <2>3. Base * (Y + 1) = Base * Y + Base
    BY <1>1
  <2>4. QED BY <1>1, <2>2, <2>3
<1>3. ASSUME Y > X PROVE y + Base * Y > x + Base * X
  <2>1. X + 1 <= Y /\ X + 1 \in Int
    BY <1>3
  <2>2. Base * (X + 1) <= Base * Y
    BY <1>1, <2>1, MulMonotone
  <2>3. Base * (X + 1) = Base * X + Base
    BY <1>1
  <2>4. QED BY <1>1, <2>2, <2>3
<1>4. X = Y => Base * X = Base * Y
  OBVIOUS
<1>5. QED BY <1>1, <1>2, <1>3, <1>4

LEMMA MagnitudeGreaterIs ==
  ASSUME NEW a, NEW b, IsLimbs(a), IsLimbs(b)
  PROVE  MagnitudeGreater(a, b) <=> Magnitude(a) > Magnitude(b)
<1> DEFINE X(l) == l[3] + Base * l[4]
           Y(l) == l[2] + Base * X(l)
<1>1. /\ a[1] \in 0 .. Base - 1 /\ a[2] \in 0 .. Base - 1 /\ a[3] \in 0 .. Base - 1
      /\ a[4] \in 0 .. Base - 1 /\ a[4] \in Nat
      /\ b[1] \in 0 .. Base - 1 /\ b[2] \in 0 .. Base - 1 /\ b[3] \in 0 .. Base - 1
      /\ b[4] \in 0 .. Base - 1 /\ b[4] \in Nat
  BY LimbRange, BaseFacts
<1>2. X(a) \in Nat /\ X(b) \in Nat /\ Y(a) \in Nat /\ Y(b) \in Nat
  BY MagnitudeFacts
<1>3. /\ X(a) > X(b) <=> a[4] > b[4] \/ (a[4] = b[4] /\ a[3] > b[3])
      /\ X(a) = X(b) <=> a[4] = b[4] /\ a[3] = b[3]
  BY <1>1, CompareStep
<1> HIDE DEF X
<1>4. /\ Y(a) > Y(b) <=> X(a) > X(b) \/ (X(a) = X(b) /\ a[2] > b[2])
      /\ Y(a) = Y(b) <=> X(a) = X(b) /\ a[2] = b[2]
  BY <1>1, <1>2, CompareStep
<1> HIDE DEF Y
<1>5. a[1] + Base * Y(a) > b[1] + Base * Y(b) <=> Y(a) > Y(b) \/ (Y(a) = Y(b) /\ a[1] > b[1])
  BY <1>1, <1>2, CompareStep
<1>6. Magnitude(a) = a[1] + Base * Y(a) /\ Magnitude(b) = b[1] + Base * Y(b)
  BY DEF Magnitude, X, Y
<1>7. MagnitudeGreater(a, b) <=>
        \/ a[4] > b[4]
        \/ a[3] > b[3] /\ a[4] = b[4]
        \/ a[2] > b[2] /\ a[3] = b[3] /\ a[4] = b[4]
        \/ a[1] > b[1] /\ a[2] = b[2] /\ a[3] = b[3] /\ a[4] = b[4]
  <2>1. 1 .. 4 = {1, 2, 3, 4} /\ 1 + 1 .. 4 = {2, 3, 4} /\ 2 + 1 .. 4 = {3, 4}
        /\ 3 + 1 .. 4 = {4} /\ 4 + 1 .. 4 = {}
    OBVIOUS
  <2> DEFINE G(i) == a[i] > b[i] /\ \A j \in i + 1 .. 4 : a[j] = b[j]
  <2>2. MagnitudeGreater(a, b) <=> G(1) \/ G(2) \/ G(3) \/ G(4)
    BY <2>1 DEF MagnitudeGreater
  <2>3. G(4) <=> a[4] > b[4]
    BY <2>1
  <2>4. G(3) <=> a[3] > b[3] /\ a[4] = b[4]
    BY <2>1
  <2>5. G(2) <=> a[2] > b[2] /\ a[3] = b[3] /\ a[4] = b[4]
    BY <2>1
  <2>6. G(1) <=> a[1] > b[1] /\ a[2] = b[2] /\ a[3] = b[3] /\ a[4] = b[4]
    BY <2>1
  <2> HIDE DEF G
  <2>7. QED BY <2>2, <2>3, <2>4, <2>5, <2>6
<1>8. QED BY <1>3, <1>4, <1>5, <1>6, <1>7

-----------------------------------------------------------------------------
(* A limb shifted within the array: its high part goes to the next limb.   *)
LEMMA ShiftedLimb ==
  ASSUME NEW x \in 0 .. Base - 1, NEW r \in 0 .. LimbBits - 1
  PROVE  /\ x \div Pow2[LimbBits - r] \in 0 .. Pow2[r] - 1
         /\ \E u \in Nat : /\ (x * Pow2[r]) % Base = Pow2[r] * u
                           /\ Pow2[r] * u + Pow2[r] <= Base
         /\ x * Pow2[r] = Base * (x \div Pow2[LimbBits - r]) + ((x * Pow2[r]) % Base)
<1> DEFINE P == Pow2[r]
           R == Pow2[LimbBits - r]
           h == x \div R
           u == x % R
<1>1. /\ Base = Pow2[LimbBits] /\ LimbBits \in Nat /\ Base \in Nat /\ Base >= 2
      /\ r \in Nat /\ LimbBits - r \in Nat /\ r + (LimbBits - r) = LimbBits
      /\ x \in Nat /\ x < Base
  BY BaseFacts
<1>2. P \in Nat /\ P >= 1 /\ R \in Nat /\ R >= 1
  BY <1>1, Pow2Positive
<1>3. P * R = Base
  BY <1>1, Pow2Sum
<1>4. h \in Int /\ u \in 0 .. R - 1 /\ x = R * h + u /\ h >= 0
  BY <1>1, DivFacts
<1>5. h \in 0 .. P - 1
  <2>1. (LimbBits - r) + r = LimbBits
    BY <1>1
  <2>2. QED BY <1>1, <2>1, DivSmall
<1> HIDE DEF P, R, h, u
<1>6. P * (R * h + u) = Base * h + P * u /\ P * u \in Nat /\ Base * h \in Nat
  <2>1. P * (R * h + u) = P * (R * h) + P * u /\ P * (R * h) = (P * R) * h
    BY <1>2, <1>4
  <2>2. P * u \in Nat /\ Base * h \in Nat
    BY <1>1, <1>2, <1>4
  <2>3. QED BY <1>3, <2>1, <2>2
<1>7. P * u + P <= Base
  <2>1. u + 1 <= R
    BY <1>2, <1>4
  <2>2. P * (u + 1) <= P * R /\ P * (u + 1) = P * u + P
    BY <1>2, <1>4, <2>1, MulMonotone
  <2>3. QED BY <1>3, <2>2
<1>8. x * P = Base * h + P * u
  <2>1. x * P = P * x
    BY <1>1, <1>2
  <2>2. QED BY <1>4, <1>6, <2>1
<1>9. (x * P) % Base = P * u
  <2>1. P * u \in 0 .. Base - 1 /\ x * P \in Int /\ h \in Int
    BY <1>1, <1>2, <1>4, <1>6, <1>7
  <2>2. Base > 0
    BY <1>1
  <2> DEFINE y == x * P
             z == P * u
  <2>3. y = Base * h + z /\ y \in Int /\ z \in 0 .. Base - 1
    BY <1>8, <2>1
  <2> HIDE DEF y, z
  <2>4. y % Base = z
    BY <1>1, <1>4, <2>2, <2>3, DivUnique
  <2>5. QED BY <2>4 DEF y, z
<1>10. u \in Nat
  BY <1>2, <1>4
<1>11. QED BY <1>5, <1>7, <1>8, <1>9, <1>10 DEF P, R, h, u

(* The limbs of l shifted by r bits, and what leaves the last of them.     *)
ShiftRow(l, e, h, r) ==
  /\ h[0] = 0 /\ \A i \in 0 .. 4 : h[i] \in Nat
  /\ \A i \in 1 .. 4 : /\ e[i] \in 0 .. Base - 1 /\ l[i] \in 0 .. Base - 1
                       /\ e[i] + Base * h[i] = l[i] * Pow2[r] + h[i - 1]

ShiftLow(l, i, r) == (l[i] * Pow2[r]) % Base
ShiftHigh(l, i, r) == IF i = 0 THEN 0 ELSE l[i] \div Pow2[LimbBits - r]

LEMMA ShiftRowIs ==
  ASSUME NEW l, IsLimbs(l), NEW r \in 0 .. LimbBits - 1
  PROVE  ShiftRow(l, [i \in 1 .. 4 |-> ShiftLow(l, i, r) + ShiftHigh(l, i - 1, r)],
                  [i \in 0 .. 4 |-> ShiftHigh(l, i, r)], r)
<1> DEFINE lo(i) == ShiftLow(l, i, r)
           hi(i) == ShiftHigh(l, i, r)
           e == [i \in 1 .. 4 |-> lo(i) + hi(i - 1)]
           h == [i \in 0 .. 4 |-> hi(i)]
           P == Pow2[r]
<1>1. Base \in Nat /\ Base >= 2 /\ P \in Nat /\ P >= 1 /\ r \in Nat
  BY BaseFacts, Pow2Positive
<1>2. ASSUME NEW i \in 1 .. 4
      PROVE  /\ hi(i) \in 0 .. P - 1 /\ lo(i) \in Nat /\ lo(i) + P <= Base
             /\ l[i] * P = Base * hi(i) + lo(i)
  <2>1. l[i] \in 0 .. Base - 1 /\ i # 0
    BY DEF IsLimbs
  <2>2. PICK u \in Nat : lo(i) = P * u /\ P * u + P <= Base
    BY <2>1, ShiftedLimb DEF ShiftLow
  <2>3. hi(i) \in 0 .. P - 1 /\ l[i] * P = Base * hi(i) + lo(i)
    BY <2>1, ShiftedLimb DEF ShiftLow, ShiftHigh
  <2>4. P * u \in Nat
    BY <1>1
  <2> HIDE DEF lo, hi, P
  <2>5. QED BY <2>2, <2>3, <2>4
<1>3. hi(0) = 0
  BY DEF ShiftHigh
<1> HIDE DEF lo, hi, P
<1>4. \A i \in 0 .. 4 : hi(i) \in 0 .. P - 1
  <2>1. ASSUME NEW i \in 0 .. 4 PROVE i = 0 \/ i \in 1 .. 4
    OBVIOUS
  <2>2. 0 \in 0 .. P - 1
    BY <1>1
  <2>3. QED BY <1>2, <1>3, <2>1, <2>2
<1>5. ASSUME NEW i \in 1 .. 4
      PROVE  /\ e[i] \in 0 .. Base - 1 /\ l[i] \in 0 .. Base - 1
             /\ e[i] + Base * h[i] = l[i] * P + h[i - 1]
  <2>1. i - 1 \in 0 .. 4 /\ i \in 0 .. 4
    OBVIOUS
  <2>2. e[i] = lo(i) + hi(i - 1) /\ h[i] = hi(i) /\ h[i - 1] = hi(i - 1)
    BY <2>1
  <2>3. /\ hi(i) \in 0 .. P - 1 /\ lo(i) \in Nat /\ lo(i) + P <= Base
        /\ l[i] * P = Base * hi(i) + lo(i) /\ hi(i - 1) \in 0 .. P - 1
    BY <1>2, <1>4, <2>1
  <2>4. l[i] \in 0 .. Base - 1
    BY DEF IsLimbs
  <2>5. Base * hi(i) \in Int
    BY <1>1, <2>3
  <2> HIDE DEF e, h
  <2>6. QED BY <1>1, <2>2, <2>3, <2>4, <2>5
<1>6. h[0] = 0 /\ \A i \in 0 .. 4 : h[i] \in Nat
  BY <1>1, <1>3, <1>4
<1>7. QED BY <1>5, <1>6 DEF ShiftRow, P, lo, hi

-----------------------------------------------------------------------------
(* Four shifted limbs and what leaves them are the number times 2^r.       *)
Five(e, t) == e[1] + Base * (e[2] + Base * (e[3] + Base * (e[4] + Base * t)))

LEMMA ScaledMagnitude ==
  ASSUME NEW l, IsLimbs(l), NEW P \in Nat, NEW m, \A i \in 1 .. 4 : m[i] = l[i] * P
  PROVE  Magnitude(m) = Magnitude(l) * P
<1>1. /\ Base \in Nat /\ l[1] \in Nat /\ l[2] \in Nat /\ l[3] \in Nat /\ l[4] \in Nat
      /\ m[1] = l[1] * P /\ m[2] = l[2] * P /\ m[3] = l[3] * P /\ m[4] = l[4] * P
  BY BaseFacts, LimbRange
<1>2. \A x, X \in Nat : /\ x * P + Base * (X * P) = (x + Base * X) * P
                        /\ x + Base * X \in Nat
  <2>1. ASSUME NEW x \in Nat, NEW X \in Nat
        PROVE  x * P + Base * (X * P) = (x + Base * X) * P /\ x + Base * X \in Nat
    <3>1. Base * (X * P) = (Base * X) * P /\ (x + Base * X) * P = x * P + (Base * X) * P
      BY <1>1
    <3>2. Base * X \in Nat
      BY <1>1
    <3>3. QED BY <3>1, <3>2
  <2>2. QED BY <2>1
<1> DEFINE X == l[3] + Base * l[4]
           Y == l[2] + Base * X
<1>3. X \in Nat /\ l[3] * P + Base * (l[4] * P) = X * P
  BY <1>1, <1>2
<1> HIDE DEF X
<1>4. Y \in Nat /\ l[2] * P + Base * (X * P) = Y * P
  BY <1>1, <1>2, <1>3
<1> HIDE DEF Y
<1>5. l[1] * P + Base * (Y * P) = (l[1] + Base * Y) * P
  BY <1>1, <1>2, <1>4
<1>6. Magnitude(l) = l[1] + Base * Y
  BY DEF Magnitude, X, Y
<1>7. Magnitude(m) = l[1] * P + Base * (l[2] * P + Base * (l[3] * P + Base * (l[4] * P)))
  BY <1>1 DEF Magnitude
<1>8. QED BY <1>3, <1>4, <1>5, <1>6, <1>7

LEMMA FiveIs ==
  ASSUME NEW l, NEW e, NEW h, NEW r \in Nat, IsLimbs(l), ShiftRow(l, e, h, r)
  PROVE  Five(e, h[4]) = Magnitude(l) * Pow2[r]
<1> DEFINE P == Pow2[r]
           m == [i \in 1 .. 4 |-> l[i] * P]
           z == [i \in 1 .. 4 |-> 0]
           X == e[3] + Base * e[4]
           Y == e[2] + Base * X
           B2 == Base * Base
           B3 == Base * B2
           B4 == Base * B3
           t == h[4]
<1>1. P \in Nat /\ Base \in Nat
  BY Pow2Positive, BaseFacts
<1> HIDE DEF P
<1>2. \A i \in 1 .. 4 : m[i] = l[i] * P /\ z[i] = 0
  OBVIOUS
<1> HIDE DEF m, z
<1>3. Columns(e, m, z, h)
  <2>1. ASSUME NEW i \in 1 .. 4
        PROVE  /\ e[i] \in Int /\ m[i] \in Int /\ z[i] \in Int
               /\ e[i] + Base * h[i] = m[i] + z[i] + h[i - 1]
    <3>1. /\ e[i] \in 0 .. Base - 1 /\ l[i] \in 0 .. Base - 1
          /\ e[i] + Base * h[i] = l[i] * P + h[i - 1]
      BY DEF ShiftRow, P
    <3>2. m[i] = l[i] * P /\ z[i] = 0 /\ l[i] * P \in Int
      BY <1>1, <1>2, <3>1
    <3>3. i - 1 \in 0 .. 4 /\ h[i - 1] \in Nat
      BY DEF ShiftRow
    <3>4. QED BY <1>1, <3>1, <3>2, <3>3
  <2>2. h[0] = 0 /\ \A i \in 0 .. 4 : h[i] \in Int
    BY DEF ShiftRow
  <2>3. QED BY <2>1, <2>2 DEF Columns
<1>4. Magnitude(e) + Pow2[Width] * t = Magnitude(m) + Magnitude(z)
  BY <1>3, ColumnsAdd
<1>5. Magnitude(m) = Magnitude(l) * P
  BY <1>1, <1>2, ScaledMagnitude
<1>6. Magnitude(z) = 0
  <2>1. z[1] = 0 /\ z[2] = 0 /\ z[3] = 0 /\ z[4] = 0 /\ Base * 0 = 0 /\ 0 + Base * 0 = 0
    BY <1>1, <1>2
  <2>2. QED BY <2>1 DEF Magnitude
<1>7. /\ e[1] \in Int /\ e[2] \in Int /\ e[3] \in Int /\ e[4] \in Int /\ t \in Int
      /\ B2 \in Int /\ B3 \in Int /\ B4 \in Int /\ Pow2[Width] = B4
  BY BaseFacts DEF ShiftRow
<1> HIDE DEF t
<1>8. Five(e, t) = Magnitude(e) + Pow2[Width] * t
  <2>1. \A x, y, k \in Int : /\ Base * (x + y) = Base * x + Base * y
                             /\ Base * (k * t) = (Base * k) * t
                             /\ Base * x \in Int /\ k * t \in Int
    BY <1>1, <1>7
  <2>0. /\ Base * e[4] \in Int /\ B2 * t \in Int /\ B3 * t \in Int /\ B4 * t \in Int
        /\ Base \in Int
    BY <1>1, <1>7, <2>1
  <2>2. Base * (e[4] + Base * t) = Base * e[4] + B2 * t
    BY <1>1, <1>7, <2>1
  <2> HIDE DEF B2
  <2>3. X \in Int /\ e[3] + Base * (e[4] + Base * t) = X + B2 * t
    BY <1>7, <2>0, <2>2
  <2> HIDE DEF X
  <2>4. Base * (X + B2 * t) = Base * X + B3 * t
    BY <1>7, <2>0, <2>1, <2>3
  <2> HIDE DEF B3
  <2>5. Y \in Int /\ e[2] + Base * (X + B2 * t) = Y + B3 * t
    <3>1. Base * X \in Int
      BY <2>0, <2>3
    <3>2. QED BY <1>7, <2>0, <2>4, <3>1
  <2> HIDE DEF Y
  <2>6. Base * (Y + B3 * t) = Base * Y + B4 * t
    BY <1>7, <2>0, <2>1, <2>5
  <2> HIDE DEF B4
  <2>7. e[1] + Base * (Y + B3 * t) = (e[1] + Base * Y) + B4 * t
    <3>1. Base * Y \in Int
      BY <2>0, <2>5
    <3>2. QED BY <1>7, <2>0, <2>6, <3>1
  <2>8. Magnitude(e) = e[1] + Base * Y
    BY DEF Magnitude, X, Y
  <2>9. QED BY <1>7, <2>3, <2>5, <2>7, <2>8 DEF Five
<1>9. Magnitude(l) * P \in Int
  BY <1>1, MagnitudeFacts
<1>10. QED BY <1>4, <1>5, <1>6, <1>8, <1>9 DEF P, t

(* The limbs that an array loses when it moves up q places are zero, if    *)
(* the number has room for the move.                                       *)
LEMMA TopsVanish ==
  ASSUME NEW e, NEW t \in Nat, \A i \in 1 .. 4 : e[i] \in 0 .. Base - 1,
         NEW q \in 0 .. 3, Five(e, t) * Pow2[LimbBits * q] < Pow2[Width]
  PROVE  /\ t = 0
         /\ q >= 1 => e[4] = 0
         /\ q >= 2 => e[3] = 0
         /\ q >= 3 => e[2] = 0
<1> DEFINE Z == e[4] + Base * t
           Y == e[3] + Base * Z
           X == e[2] + Base * Y
           E == e[1] + Base * X
           B2 == Base * Base
           B3 == Base * B2
           B4 == Base * B3
<1>1. /\ Base \in Nat /\ Base >= 1 /\ e[1] \in 0 .. Base - 1 /\ e[2] \in 0 .. Base - 1
      /\ e[3] \in 0 .. Base - 1 /\ e[4] \in 0 .. Base - 1
      /\ B2 \in Nat /\ B3 \in Nat /\ B4 \in Nat /\ LimbBits \in Nat
      /\ Pow2[LimbBits] = Base /\ Pow2[2 * LimbBits] = B2 /\ Pow2[3 * LimbBits] = B3
      /\ Pow2[Width] = B4 /\ Base * 1 = Base /\ 1 \in Nat /\ 0 \in Nat
  BY BaseFacts
<1>2. Five(e, t) = E
  BY DEF Five
<1>3. /\ Z \in Nat /\ (Z < Base => t < 1) /\ (Z = 0 => e[4] = 0 /\ t = 0)
  BY <1>1, LowLimb
<1> HIDE DEF Z
<1>4. /\ Y \in Nat /\ (Y < Base => Z < 1) /\ (Y < B2 => Z < Base) /\ (Y = 0 => e[3] = 0 /\ Z = 0)
  BY <1>1, <1>3, LowLimb
<1> HIDE DEF Y
<1>5. /\ X \in Nat /\ (X < Base => Y < 1) /\ (X < B2 => Y < Base) /\ (X < B3 => Y < B2)
      /\ (X = 0 => e[2] = 0 /\ Y = 0)
  <2>1. X < B3 => Y < B2
    <3> HIDE DEF B2
    <3>1. QED BY <1>1, <1>4, LowLimb
  <2>2. X \in Nat /\ (X < Base => Y < 1) /\ (X = 0 => e[2] = 0 /\ Y = 0)
    BY <1>1, <1>4, LowLimb
  <2>3. X < B2 => Y < Base
    BY <1>1, <1>4, LowLimb
  <2> HIDE DEF X, B2, B3
  <2>4. QED BY <2>1, <2>2, <2>3
<1> HIDE DEF X
<1>6. /\ E \in Nat /\ (E < Base => X < 1) /\ (E < B2 => X < Base) /\ (E < B3 => X < B2)
      /\ (E < B4 => X < B3)
  <2>1. X < B3 \/ ~ (E < B4)
    <3> HIDE DEF B3
    <3>1. QED BY <1>1, <1>5, LowLimb
  <2>2. X < B2 \/ ~ (E < B3)
    <3> HIDE DEF B2
    <3>1. QED BY <1>1, <1>5, LowLimb
  <2>3. E \in Nat /\ (E < Base => X < 1) /\ (E < B2 => X < Base)
    BY <1>1, <1>5, LowLimb
  <2>4. QED BY <2>1, <2>2, <2>3
<1> HIDE DEF E
<1>7. /\ q = 0 => E < B4
      /\ q = 1 => E < B3
      /\ q = 2 => E < B2
      /\ q = 3 => E < Base
  <2>1. ASSUME q = 0 PROVE E < B4
    <3>1. LimbBits * q = 0 /\ E * 1 = E
      BY <1>1, <1>6, <2>1
    <3>2. Pow2[LimbBits * q] = 1
      BY <3>1, Pow2Def
    <3>3. QED BY <1>1, <1>2, <3>1, <3>2
  <2>2. ASSUME q = 1 PROVE E < B3
    <3>1. LimbBits * q = LimbBits /\ E * Base = Base * E
      BY <1>1, <1>6, <2>2
    <3>2. Base * E < Base * B3
      BY <1>1, <1>2, <3>1
    <3> HIDE DEF B3, B4
    <3>3. QED BY <1>1, <1>6, <3>2, MulMonotone
  <2>3. ASSUME q = 2 PROVE E < B2
    <3>1. LimbBits * q = 2 * LimbBits /\ E * B2 = B2 * E
      BY <1>1, <1>6, <2>3
    <3>2. B4 = B2 * B2
      BY <1>1
    <3>3. B2 * E < B2 * B2
      BY <1>1, <1>2, <3>1, <3>2
    <3> HIDE DEF B2, B3, B4
    <3>4. QED BY <1>1, <1>6, <3>3, MulMonotone
  <2>4. ASSUME q = 3 PROVE E < Base
    <3>1. LimbBits * q = 3 * LimbBits /\ E * B3 = B3 * E
      BY <1>1, <1>6, <2>4
    <3>2. B4 = B3 * Base
      BY <1>1
    <3>3. B3 * E < B3 * Base
      BY <1>1, <1>2, <3>1, <3>2
    <3> HIDE DEF B2, B3, B4
    <3>4. QED BY <1>1, <1>6, <3>3, MulMonotone
  <2>5. QED BY <2>1, <2>2, <2>3, <2>4
<1> HIDE DEF B2, B3, B4
<1>8. \A n \in Nat : n < 1 => n = 0
  OBVIOUS
<1>9. q = 0 => t = 0
  BY <1>3, <1>4, <1>5, <1>6, <1>7, <1>8
<1>10. q = 1 => t = 0 /\ e[4] = 0
  BY <1>3, <1>4, <1>5, <1>6, <1>7, <1>8
<1>11. q = 2 => t = 0 /\ e[4] = 0 /\ e[3] = 0
  BY <1>3, <1>4, <1>5, <1>6, <1>7, <1>8
<1>12. q = 3 => t = 0 /\ e[4] = 0 /\ e[3] = 0 /\ e[2] = 0
  BY <1>3, <1>4, <1>5, <1>6, <1>7, <1>8
<1>13. q = 0 \/ q = 1 \/ q = 2 \/ q = 3
  OBVIOUS
<1>14. QED BY <1>9, <1>10, <1>11, <1>12, <1>13

-----------------------------------------------------------------------------
(* An I256 whose sign flag is not set on a zero: all that the loop meets.  *)
Proper(x) ==
  /\ x = [limbs |-> x.limbs, negative |-> x.negative]
  /\ IsLimbs(x.limbs) /\ x.negative \in BOOLEAN
  /\ x.negative => Magnitude(x.limbs) # 0

LEMMA ProperFacts ==
  ASSUME NEW x, Proper(x)
  PROVE  /\ Value(x) \in Int /\ Abs(Value(x)) = Magnitude(x.limbs)
         /\ Magnitude(x.limbs) \in Nat /\ Magnitude(x.limbs) < Pow2[Width]
         /\ x.negative <=> Value(x) < 0
         /\ IsZero(x) <=> Value(x) = 0
         /\ IsNegative(x) <=> Value(x) < 0
<1>1. IsLimbs(x.limbs) /\ x.negative \in BOOLEAN /\ (x.negative => Magnitude(x.limbs) # 0)
  BY DEF Proper
<1>2. /\ Magnitude(x.limbs) \in Nat /\ Magnitude(x.limbs) < Pow2[Width]
      /\ Magnitude(x.limbs) = 0 <=> IsZero(x)
  BY <1>1, MagnitudeFacts DEF IsZero
<1>3. Value(x) = IF x.negative THEN -Magnitude(x.limbs) ELSE Magnitude(x.limbs)
  BY DEF Value
<1> DEFINE M == Magnitude(x.limbs)
<1>4. M \in Nat /\ (x.negative => M # 0)
  BY <1>1, <1>2
<1> HIDE DEF M
<1>5. CASE x.negative
  <2>1. Value(x) = -M
    BY <1>3, <1>5 DEF M
  <2>2. Value(x) \in Int /\ Abs(Value(x)) = M /\ Value(x) < 0 /\ M # 0
    BY <1>4, <1>5, <2>1 DEF Abs
  <2>3. QED BY <1>2, <1>5, <2>2 DEF M, IsNegative
<1>6. CASE ~ x.negative
  <2>1. Value(x) = M
    BY <1>3, <1>6 DEF M
  <2>2. Value(x) \in Int /\ Abs(Value(x)) = M /\ ~ (Value(x) < 0)
    BY <1>4, <2>1 DEF Abs
  <2>3. QED BY <1>2, <1>6, <2>1, <2>2 DEF M, IsNegative
<1>7. QED BY <1>1, <1>5, <1>6

(* A proper I256 from its parts.                                           *)
LEMMA MakeProper ==
  ASSUME NEW l, IsLimbs(l), NEW n \in BOOLEAN, n => Magnitude(l) # 0
  PROVE  /\ Proper([limbs |-> l, negative |-> n])
         /\ Value([limbs |-> l, negative |-> n]) = IF n THEN -Magnitude(l) ELSE Magnitude(l)
<1> DEFINE x == [limbs |-> l, negative |-> n]
<1>1. x.limbs = l /\ x.negative = n
  OBVIOUS
<1>2. x = [limbs |-> x.limbs, negative |-> x.negative]
  OBVIOUS
<1> HIDE DEF x
<1>3. Proper(x) /\ Value(x) = IF n THEN -Magnitude(l) ELSE Magnitude(l)
  BY <1>1, <1>2 DEF Proper, Value
<1>4. QED BY <1>3 DEF x

(* from_le_bytes of a number that four limbs hold.                         *)
LEMMA OfNatIs ==
  ASSUME NEW n \in Nat, n < Pow2[Width]
  PROVE  Proper(OfNat(n)) /\ Value(OfNat(n)) = n
<1> DEFINE q(i) == n \div Pow2[LimbBits * i]
           l == [i \in 1 .. 4 |-> (n \div Pow2[LimbBits * (i - 1)]) % Base]
           m == FourLimbs(l)
<1>1. LimbBits \in Nat /\ Base \in Nat /\ Base >= 2 /\ Base = Pow2[LimbBits]
  BY BaseFacts
<1>2. /\ LimbBits * 0 = 0 /\ LimbBits * 1 = LimbBits /\ LimbBits * 2 = LimbBits + LimbBits
      /\ LimbBits * 3 = LimbBits * 2 + LimbBits /\ LimbBits * 4 = LimbBits * 3 + LimbBits
      /\ LimbBits * 0 \in Nat /\ LimbBits * 1 \in Nat /\ LimbBits * 2 \in Nat
      /\ LimbBits * 3 \in Nat /\ LimbBits * 4 \in Nat
  BY <1>1, LimbAssumption
<1>3. q(0) = n
  <2>1. Pow2[LimbBits * 0] = 1
    BY <1>2, Pow2Def
  <2>2. n \div 1 = n
    OBVIOUS
  <2>3. QED BY <2>1, <2>2
<1>4. q(4) = 0
  <2>1. LimbBits * 4 = Width /\ Width \in Nat
    BY <1>1, LimbAssumption
  <2>2. QED BY <2>1, DivOfSmall
<1>5. /\ q(0) \div Base = q(1) /\ q(1) \div Base = q(2) /\ q(2) \div Base = q(3)
      /\ q(3) \div Base = q(4)
  <2>1. q(0) \div Base = q(1)
    <3>1. n \div Base = q(1)
      BY <1>1, <1>2
    <3> HIDE DEF q
    <3>2. QED BY <1>3, <3>1
  <2>2. q(1) \div Base = q(2)
    BY <1>1, <1>2, DivTwice
  <2>3. q(2) \div Base = q(3)
    BY <1>1, <1>2, DivTwice
  <2>4. q(3) \div Base = q(4)
    BY <1>1, <1>2, DivTwice
  <2> HIDE DEF q
  <2>5. QED BY <2>1, <2>2, <2>3, <2>4
<1>6. q(0) \in Int /\ q(1) \in Int /\ q(2) \in Int /\ q(3) \in Int
  <2>1. \A k \in Nat : n \div Pow2[k] \in Int
    BY DivFacts
  <2>2. QED BY <1>2, <2>1
<1>7. m[1] = q(0) % Base /\ m[2] = q(1) % Base /\ m[3] = q(2) % Base /\ m[4] = q(3) % Base
  <2>1. l[1] = q(1 - 1) % Base /\ l[2] = q(2 - 1) % Base /\ l[3] = q(3 - 1) % Base
        /\ l[4] = q(4 - 1) % Base
    OBVIOUS
  <2> HIDE DEF l, q
  <2>2. \A i \in 1 .. 4 : m[i] = l[i]
    BY FourLimbsAre
  <2>3. 1 - 1 = 0 /\ 2 - 1 = 1 /\ 3 - 1 = 2 /\ 4 - 1 = 3
    OBVIOUS
  <2>4. QED BY <2>1, <2>2, <2>3
<1>8. OfNat(n) = [limbs |-> m, negative |-> FALSE]
  BY DEF OfNat
<1> HIDE DEF q, m
<1>9. /\ m[1] \in 0 .. Base - 1 /\ m[1] + Base * q(1) = n
      /\ m[2] \in 0 .. Base - 1 /\ m[2] + Base * q(2) = q(1)
      /\ m[3] \in 0 .. Base - 1 /\ m[3] + Base * q(3) = q(2)
      /\ m[4] \in 0 .. Base - 1 /\ m[4] + Base * q(4) = q(3)
  BY <1>3, <1>5, <1>6, <1>7, DivBase
<1>10. m[4] = q(3)
  BY <1>1, <1>4, <1>9
<1>11. Magnitude(m) = n
  BY <1>9, <1>10 DEF Magnitude
<1>12. IsLimbs(m)
  <2>1. ASSUME NEW i \in 1 .. 4 PROVE i = 1 \/ i = 2 \/ i = 3 \/ i = 4
    OBVIOUS
  <2>2. QED BY <1>9, <2>1 DEF IsLimbs
<1>13. QED BY <1>8, <1>11, <1>12, MakeProper

LEMMA ZeroOne ==
  /\ Proper(ZERO) /\ Value(ZERO) = 0 /\ ~ ZERO.negative
  /\ Proper(ONE) /\ Value(ONE) = 1
<1>1. 0 \in Nat /\ 1 \in Nat /\ 0 < Pow2[Width] /\ 1 < Pow2[Width]
  <2>1. Width \in Nat /\ Width >= 1
    BY LimbAssumption
  <2>2. Pow2[Width] \in Nat /\ Width < Pow2[Width]
    BY <2>1, Pow2Positive
  <2>3. QED BY <2>1, <2>2
<1>2. ~ ZERO.negative
  BY DEF ZERO, OfNat
<1>3. QED BY <1>1, <1>2, OfNatIs DEF ZERO, ONE

(* Negating, and comparing with ZERO.                                      *)
LEMMA WrappingNegIs ==
  ASSUME NEW x, Proper(x)
  PROVE  Proper(WrappingNeg(x)) /\ Value(WrappingNeg(x)) = -Value(x)
<1>1. CASE IsZero(x)
  <2>1. Value(x) = 0
    BY <1>1, ProperFacts
  <2>2. WrappingNeg(x) = ZERO
    BY <1>1 DEF WrappingNeg
  <2>3. Proper(WrappingNeg(x))
    BY <2>2, ZeroOne
  <2>4. Value(WrappingNeg(x)) = 0
    BY <2>2, ZeroOne
  <2>5. ASSUME NEW y \in Int, y <= 0, y >= 0 PROVE -y = 0
    BY <2>5
  <2>6. -Value(x) = 0
    <3>1. Value(x) \in Int /\ Value(x) <= 0 /\ Value(x) >= 0
      BY <2>1
    <3>2. QED BY <2>5, <3>1
  <2>7. QED BY <2>3, <2>4, <2>6
<1>2. CASE ~ IsZero(x)
  <2> DEFINE n == ~ x.negative
             l == x.limbs
  <2>1. /\ x = [limbs |-> l, negative |-> x.negative] /\ IsLimbs(l) /\ n \in BOOLEAN
        /\ x.negative \in BOOLEAN
    BY DEF Proper
  <2>2. WrappingNeg(x) = [limbs |-> l, negative |-> n]
    BY <1>2, <2>1 DEF WrappingNeg
  <2>3. Magnitude(l) # 0 /\ Magnitude(l) \in Nat
    BY <1>2, <2>1, MagnitudeFacts DEF IsZero
  <2>4. Value(x) = IF x.negative THEN -Magnitude(l) ELSE Magnitude(l)
    BY DEF Value
  <2>5. /\ Proper(WrappingNeg(x))
        /\ Value(WrappingNeg(x)) = IF n THEN -Magnitude(l) ELSE Magnitude(l)
    <3> HIDE DEF n, l
    <3>1. QED BY <2>1, <2>2, <2>3, MakeProper
  <2>6. QED BY <2>3, <2>4, <2>5
<1>3. QED BY <1>1, <1>2

LEMMA LessZero ==
  ASSUME NEW x, Proper(x)
  PROVE  Less(x, ZERO) <=> Value(x) < 0
<1>1. x.negative \in BOOLEAN /\ IsLimbs(x.limbs) /\ IsLimbs(ZERO.limbs) /\ ~ ZERO.negative
  BY ZeroOne DEF Proper
<1>2. x.negative <=> Value(x) < 0
  BY ProperFacts
<1>3. Magnitude(ZERO.limbs) = 0 /\ Magnitude(x.limbs) \in Nat
  BY <1>1, ZeroOne, ProperFacts DEF Value
<1>4. ~ MagnitudeGreater(ZERO.limbs, x.limbs)
  BY <1>1, <1>3, MagnitudeGreaterIs
<1>5. CASE x.negative
  BY <1>1, <1>2, <1>5 DEF Less
<1>6. CASE ~ x.negative
  BY <1>1, <1>2, <1>4, <1>6 DEF Less
<1>7. QED BY <1>1, <1>5, <1>6

LEMMA PositiveIs ==
  ASSUME NEW x, Proper(x)
  PROVE  Magnitude(Positive(x).limbs) = Abs(Value(x))
<1>1. CASE Value(x) < 0
  <2>1. Positive(x) = WrappingNeg(x)
    BY <1>1, LessZero DEF Positive
  <2>2. Proper(WrappingNeg(x)) /\ Value(WrappingNeg(x)) = -Value(x)
    BY WrappingNegIs
  <2>3. Magnitude(WrappingNeg(x).limbs) = Abs(-Value(x))
    BY <2>2, ProperFacts
  <2>4. QED BY <1>1, <2>1, <2>3, ProperFacts DEF Abs
<1>2. CASE ~ (Value(x) < 0)
  <2>1. Positive(x) = x
    BY <1>2, LessZero DEF Positive
  <2>2. QED BY <2>1, ProperFacts
<1>3. QED BY <1>1, <1>2

-----------------------------------------------------------------------------
(* Limbs moved up by q places: the number times Base^q when what falls off *)
(* the top is zero.                                                        *)
Placed(m, e, q) ==
  /\ \A i \in 1 .. 4 : e[i] \in 0 .. Base - 1
  /\ \A i \in 1 .. 4 : m[i] = IF i - q < 1 THEN 0 ELSE e[i - q]
  /\ q >= 1 => e[4] = 0
  /\ q >= 2 => e[3] = 0
  /\ q >= 3 => e[2] = 0

LEMMA PlacedLimbs ==
  ASSUME NEW m, NEW e, NEW q \in 0 .. 3, Placed(m, e, q)
  PROVE  IsLimbs(m) /\ Magnitude(m) = Five(e, 0) * Pow2[LimbBits * q]
<1>1. /\ Base \in Nat /\ Base >= 2 /\ LimbBits \in Nat
      /\ Pow2[0] = 1 /\ Pow2[LimbBits] = Base
      /\ Pow2[2 * LimbBits] = Base * Base /\ Pow2[3 * LimbBits] = Base * (Base * Base)
  BY BaseFacts, Pow2Def
<1>2. /\ LimbBits * 0 = 0 /\ LimbBits * 1 = LimbBits /\ LimbBits * 2 = 2 * LimbBits
      /\ LimbBits * 3 = 3 * LimbBits
  BY <1>1
<1>3. /\ Pow2[LimbBits * 0] = 1 /\ Pow2[LimbBits * 1] = Base
      /\ Pow2[LimbBits * 2] = Base * Base /\ Pow2[LimbBits * 3] = Base * (Base * Base)
  BY <1>1, <1>2
<1> DEFINE e1 == e[1]  e2 == e[2]  e3 == e[3]  e4 == e[4]
<1>4. e1 \in 0 .. Base - 1 /\ e2 \in 0 .. Base - 1 /\ e3 \in 0 .. Base - 1 /\ e4 \in 0 .. Base - 1
  BY DEF Placed
<1>5. Five(e, 0) = e1 + Base * (e2 + Base * (e3 + Base * (e4 + Base * 0)))
  BY DEF Five
<1>6. Magnitude(m) = m[1] + Base * (m[2] + Base * (m[3] + Base * m[4]))
  BY DEF Magnitude
<1>7. /\ m[1] = IF 1 - q < 1 THEN 0 ELSE e[1 - q]
      /\ m[2] = IF 2 - q < 1 THEN 0 ELSE e[2 - q]
      /\ m[3] = IF 3 - q < 1 THEN 0 ELSE e[3 - q]
      /\ m[4] = IF 4 - q < 1 THEN 0 ELSE e[4 - q]
  BY DEF Placed
<1>8. \A X \in Int : Base * X = X * Base
  BY <1>1
<1>9. \A X \in Int : Base * (Base * X) = X * (Base * Base)
  BY <1>1
<1>10. \A X \in Int : Base * (Base * (Base * X)) = X * (Base * (Base * Base))
  <2>1. SUFFICES ASSUME NEW X \in Int PROVE Base * (Base * (Base * X)) = X * (Base * (Base * Base))
    OBVIOUS
  <2>2. Base * X \in Int /\ Base * Base \in Int
    BY <1>1
  <2>3. Base * (Base * (Base * X)) = (Base * X) * (Base * Base)
    BY <1>9, <2>2
  <2>4. QED BY <1>1, <2>2, <2>3
<1>11. CASE q = 0
  <2>1. m[1] = e1 /\ m[2] = e2 /\ m[3] = e3 /\ m[4] = e4
    BY <1>7, <1>11
  <2> HIDE DEF e1, e2, e3, e4
  <2>2. IsLimbs(m)
    <3>1. ASSUME NEW i \in 1 .. 4 PROVE i = 1 \/ i = 2 \/ i = 3 \/ i = 4
      OBVIOUS
    <3>2. QED BY <1>4, <2>1, <3>1 DEF IsLimbs
  <2>3. Magnitude(m) = Five(e, 0)
    BY <1>1, <1>4, <1>5, <1>6, <2>1
  <2>4. Magnitude(m) \in Nat
    BY <2>2, MagnitudeFacts
  <2>5. Five(e, 0) * 1 = Five(e, 0)
    BY <2>3, <2>4
  <2>6. Five(e, 0) * Pow2[LimbBits * q] = Five(e, 0)
    BY <1>3, <1>11, <2>5
  <2>7. QED BY <2>2, <2>3, <2>6
<1>12. CASE q = 1
  <2>1. m[1] = 0 /\ m[2] = e1 /\ m[3] = e2 /\ m[4] = e3 /\ e4 = 0
    BY <1>7, <1>12 DEF Placed
  <2> HIDE DEF e1, e2, e3, e4
  <2> DEFINE X == e1 + Base * (e2 + Base * e3)
  <2>2. IsLimbs(m)
    <3>1. ASSUME NEW i \in 1 .. 4 PROVE i = 1 \/ i = 2 \/ i = 3 \/ i = 4
      OBVIOUS
    <3>2. QED BY <1>1, <1>4, <2>1, <3>1 DEF IsLimbs
  <2>3. X \in Int
    BY <1>1, <1>4
  <2>4. Five(e, 0) = X
    BY <1>1, <1>4, <1>5, <2>1
  <2>5. Magnitude(m) = 0 + Base * X
    BY <1>6, <2>1
  <2> HIDE DEF X
  <2>6. Magnitude(m) = X * Base
    BY <1>1, <1>8, <2>3, <2>5
  <2>7. QED BY <1>3, <1>12, <2>2, <2>4, <2>6
<1>13. CASE q = 2
  <2>1. m[1] = 0 /\ m[2] = 0 /\ m[3] = e1 /\ m[4] = e2 /\ e4 = 0 /\ e3 = 0
    BY <1>7, <1>13 DEF Placed
  <2> HIDE DEF e1, e2, e3, e4
  <2> DEFINE X == e1 + Base * e2
  <2>2. IsLimbs(m)
    <3>1. ASSUME NEW i \in 1 .. 4 PROVE i = 1 \/ i = 2 \/ i = 3 \/ i = 4
      OBVIOUS
    <3>2. QED BY <1>1, <1>4, <2>1, <3>1 DEF IsLimbs
  <2>3. X \in Int
    BY <1>1, <1>4
  <2>4. Five(e, 0) = X
    BY <1>1, <1>4, <1>5, <2>1
  <2>5. Magnitude(m) = 0 + Base * (0 + Base * X)
    BY <1>6, <2>1
  <2> HIDE DEF X
  <2>6. Base * X \in Int /\ Base * (Base * X) \in Int
    BY <1>1, <2>3
  <2>7. Magnitude(m) = Base * (Base * X)
    BY <2>5, <2>6
  <2>8. Magnitude(m) = X * (Base * Base)
    BY <1>9, <2>3, <2>7
  <2>9. QED BY <1>3, <1>13, <2>2, <2>4, <2>8
<1>14. CASE q = 3
  <2>1. m[1] = 0 /\ m[2] = 0 /\ m[3] = 0 /\ m[4] = e1 /\ e4 = 0 /\ e3 = 0 /\ e2 = 0
    BY <1>7, <1>14 DEF Placed
  <2> HIDE DEF e1, e2, e3, e4
  <2>2. IsLimbs(m)
    <3>1. ASSUME NEW i \in 1 .. 4 PROVE i = 1 \/ i = 2 \/ i = 3 \/ i = 4
      OBVIOUS
    <3>2. QED BY <1>1, <1>4, <2>1, <3>1 DEF IsLimbs
  <2>3. e1 \in Int
    BY <1>1, <1>4
  <2>4. Five(e, 0) = e1
    BY <1>1, <1>4, <1>5, <2>1
  <2>5. Magnitude(m) = 0 + Base * (0 + Base * (0 + Base * e1))
    BY <1>6, <2>1
  <2>6. Base * e1 \in Int /\ Base * (Base * e1) \in Int /\ Base * (Base * (Base * e1)) \in Int
    BY <1>1, <2>3
  <2>7. Magnitude(m) = Base * (Base * (Base * e1))
    BY <2>5, <2>6
  <2>8. Magnitude(m) = e1 * (Base * (Base * Base))
    BY <1>10, <2>3, <2>7
  <2>9. QED BY <1>3, <1>14, <2>2, <2>4, <2>8
<1>15. QED BY <1>11, <1>12, <1>13, <1>14

-----------------------------------------------------------------------------
(* The limbs that wrapping_shl writes.                                     *)
ShiftedLimbs(l, q, r) ==
  FourLimbs([i \in 1 .. 4 |->
    LET j == i - q
        below == IF j > 1 THEN l[j - 1] ELSE 0
    IN  IF j < 1 THEN 0
        ELSE ((l[j] * Pow2[r]) % Base) + (below \div Pow2[LimbBits - r])])

LEMMA ShiftedLimbsAre ==
  ASSUME NEW l, IsLimbs(l), NEW q \in 0 .. 3, NEW r \in 0 .. LimbBits - 1
  PROVE  \A i \in 1 .. 4 :
           ShiftedLimbs(l, q, r)[i] =
             IF i - q < 1 THEN 0
             ELSE [k \in 1 .. 4 |-> ShiftLow(l, k, r) + ShiftHigh(l, k - 1, r)][i - q]
<1>1. SUFFICES ASSUME NEW i \in 1 .. 4
      PROVE  ShiftedLimbs(l, q, r)[i] =
               IF i - q < 1 THEN 0
               ELSE [k \in 1 .. 4 |-> ShiftLow(l, k, r) + ShiftHigh(l, k - 1, r)][i - q]
  OBVIOUS
<1> DEFINE F == [k \in 1 .. 4 |->
                   LET j == k - q
                       below == IF j > 1 THEN l[j - 1] ELSE 0
                   IN  IF j < 1 THEN 0
                       ELSE ((l[j] * Pow2[r]) % Base) + (below \div Pow2[LimbBits - r])]
           j == i - q
           below == IF j > 1 THEN l[j - 1] ELSE 0
<1>2. ShiftedLimbs(l, q, r)[i] = F[i]
  <2>1. ShiftedLimbs(l, q, r) = FourLimbs(F)
    BY DEF ShiftedLimbs
  <2> HIDE DEF F
  <2>2. QED BY <2>1, FourLimbsAre
<1>3. F[i] = IF j < 1 THEN 0
             ELSE ((l[j] * Pow2[r]) % Base) + (below \div Pow2[LimbBits - r])
  OBVIOUS
<1>4. CASE j < 1
  BY <1>2, <1>3, <1>4
<1>5. CASE j = 1
  <2>1. below = 0 /\ j - 1 = 0
    BY <1>5
  <2>2. 0 \div Pow2[LimbBits - r] = 0
    <3>1. LimbBits - r \in Nat
      BY LimbAssumption
    <3>2. Pow2[LimbBits - r] \in Nat /\ Pow2[LimbBits - r] >= 1
      BY <3>1, Pow2Positive
    <3>3. QED BY <3>2, DivUnique
  <2>3. ShiftHigh(l, j - 1, r) = 0
    BY <2>1 DEF ShiftHigh
  <2>4. [k \in 1 .. 4 |-> ShiftLow(l, k, r) + ShiftHigh(l, k - 1, r)][j]
          = ShiftLow(l, j, r) + ShiftHigh(l, j - 1, r)
    BY <1>5
  <2>5. F[i] = ShiftLow(l, j, r) + ShiftHigh(l, j - 1, r)
    <3>1. F[i] = ((l[j] * Pow2[r]) % Base) + (0 \div Pow2[LimbBits - r])
      BY <1>3, <1>5, <2>1
    <3> HIDE DEF F, j, below
    <3>2. QED BY <3>1, <2>2, <2>3 DEF ShiftLow
  <2>6. j >= 1 /\ ~ (j < 1)
    BY <1>5
  <2> HIDE DEF F, below
  <2>7. QED BY <1>2, <2>4, <2>5, <2>6
<1>6. CASE j > 1
  <2>1. below = l[j - 1] /\ j - 1 # 0 /\ ~ (j < 1) /\ j \in 1 .. 4
    BY <1>6
  <2>2. ShiftHigh(l, j - 1, r) = l[j - 1] \div Pow2[LimbBits - r]
    BY <2>1 DEF ShiftHigh
  <2>3. [k \in 1 .. 4 |-> ShiftLow(l, k, r) + ShiftHigh(l, k - 1, r)][j]
          = ShiftLow(l, j, r) + ShiftHigh(l, j - 1, r)
    BY <2>1
  <2>4. F[i] = ShiftLow(l, j, r) + ShiftHigh(l, j - 1, r)
    <3>1. F[i] = ((l[j] * Pow2[r]) % Base) + (l[j - 1] \div Pow2[LimbBits - r])
      <4> HIDE DEF F, j, below
      <4>1. QED BY <1>3, <2>1
    <3> HIDE DEF F, j, below
    <3>2. QED BY <3>1, <2>2 DEF ShiftLow
  <2> HIDE DEF F, below
  <2>5. QED BY <1>2, <2>1, <2>3, <2>4
<1>7. j \in Int
  OBVIOUS
<1> HIDE DEF F, j, below
<1>8. QED BY <1>4, <1>5, <1>6, <1>7

(* wrapping_shl multiplies by a power of two when the product fits.        *)
LEMMA WrappingShlIs ==
  ASSUME NEW x, Proper(x), NEW s \in Nat,
         Abs(Value(x)) * Pow2[s] < Pow2[Width]
  PROVE  /\ Proper(WrappingShl(x, s))
         /\ Value(WrappingShl(x, s)) = Value(x) * Pow2[s]
<1> DEFINE l == x.limbs
           M == Magnitude(l)
<1>1. /\ x = [limbs |-> l, negative |-> x.negative] /\ IsLimbs(l)
      /\ x.negative \in BOOLEAN /\ (x.negative => M # 0)
  BY DEF Proper
<1>2. /\ M \in Nat /\ M = Abs(Value(x)) /\ Value(x) \in Int
      /\ Value(x) = (IF x.negative THEN -M ELSE M)
  BY ProperFacts DEF Value
<1>3. LimbBits \in Nat /\ LimbBits > 0 /\ Width = 4 * LimbBits /\ Width \in Nat
  BY LimbAssumption, HeeaAssumption
<1>4. Pow2[s] \in Nat /\ Pow2[s] >= 1 /\ Pow2[Width] \in Nat
  BY <1>3, Pow2Positive
<1>5. CASE s = 0
  <2>1. WrappingShl(x, s) = x
    BY <1>5 DEF WrappingShl
  <2>2. Pow2[s] = 1
    BY <1>5, Pow2Def
  <2>3. Value(x) * Pow2[s] = Value(x)
    BY <1>2, <2>2
  <2>4. QED BY <2>1, <2>3
<1>6. CASE s # 0 /\ s >= 4 * LimbBits
  <2>1. WrappingShl(x, s) = ZERO
    BY <1>6 DEF WrappingShl
  <2>2. Pow2[Width] <= Pow2[s]
    BY <1>3, <1>6, Pow2Monotone
  <2>3. M = 0
    <3>1. M * Pow2[s] < Pow2[s]
      BY <1>2, <1>4, <2>2
    <3> HIDE DEF M
    <3>2. QED BY <1>2, <1>4, <3>1
  <2>4. Value(x) = 0
    <3> HIDE DEF M
    <3>1. QED BY <1>1, <1>2, <2>3
  <2>5. Value(x) * Pow2[s] = 0
    BY <1>4, <2>4
  <2>6. QED BY <2>1, <2>5, ZeroOne
<1>7. CASE s # 0 /\ ~ (s >= 4 * LimbBits)
  <2> DEFINE q == s \div LimbBits
             r == s % LimbBits
             e == [i \in 1 .. 4 |-> ShiftLow(l, i, r) + ShiftHigh(l, i - 1, r)]
             h == [i \in 0 .. 4 |-> ShiftHigh(l, i, r)]
             m == ShiftedLimbs(l, q, r)
             P == Pow2[r]
             Q == Pow2[LimbBits * q]
  <2>1. q \in Int /\ r \in 0 .. LimbBits - 1 /\ s = LimbBits * q + r
    BY <1>3
  <2>2. q \in 0 .. 3
    <3>1. LimbBits * q + r < LimbBits * 4 /\ LimbBits * q + r >= 0
      BY <1>3, <1>7, <2>1
    <3> HIDE DEF q, r
    <3>2. q < 4
      <4>1. ASSUME q >= 4 PROVE FALSE
        <5>1. LimbBits * 4 <= LimbBits * q
          BY <1>3, <2>1, <4>1, MulMonotone
        <5>2. LimbBits * q \in Int
          BY <1>3, <2>1
        <5>3. QED BY <1>3, <2>1, <3>1, <5>1, <5>2
      <4>2. QED BY <2>1, <4>1
    <3>3. q >= 0
      <4>1. ASSUME q <= -1 PROVE FALSE
        <5>1. LimbBits * q <= LimbBits * (-1)
          BY <1>3, <2>1, <4>1, MulMonotone
        <5>2. LimbBits * q \in Int
          BY <1>3, <2>1
        <5>3. QED BY <1>3, <2>1, <3>1, <5>1, <5>2
      <4>2. QED BY <2>1, <4>1
    <3>4. QED BY <2>1, <3>2, <3>3
  <2>3. WrappingShl(x, s) = [limbs |-> m, negative |-> x.negative]
    <3>1. WrappingShl(x, s) = [x EXCEPT !.limbs = m]
      BY <1>7 DEF WrappingShl, ShiftedLimbs
    <3> HIDE DEF m
    <3>2. QED BY <1>1, <3>1
  <2> HIDE DEF q, r
  <2>4. r \in Nat /\ LimbBits * q \in Nat /\ q \in Nat
    BY <1>3, <2>1, <2>2
  <2>5. ShiftRow(l, e, h, r)
    BY <1>1, <2>1, ShiftRowIs
  <2>6. h[4] \in Nat /\ \A i \in 1 .. 4 : e[i] \in 0 .. Base - 1
    <3> HIDE DEF e, h
    <3>1. QED BY <2>5 DEF ShiftRow
  <2>7. \A i \in 1 .. 4 : m[i] = IF i - q < 1 THEN 0 ELSE e[i - q]
    BY <1>1, <2>1, <2>2, ShiftedLimbsAre
  <2> HIDE DEF e, h, m, l
  <2>8. Five(e, h[4]) = M * P
    BY <1>1, <2>4, <2>5, FiveIs
  <2>9. P \in Nat /\ P >= 1 /\ Q \in Nat /\ Q >= 1
    BY <2>4, Pow2Positive
  <2>10. Pow2[s] = Q * P
    BY <2>1, <2>4, Pow2Sum
  <2>11. (M * P) * Q = M * Pow2[s]
    <3> HIDE DEF M, P, Q
    <3>1. QED BY <1>2, <2>9, <2>10
  <2>12. Five(e, h[4]) * Q < Pow2[Width]
    BY <1>2, <2>8, <2>11
  <2>13. /\ h[4] = 0
         /\ q >= 1 => e[4] = 0
         /\ q >= 2 => e[3] = 0
         /\ q >= 3 => e[2] = 0
    BY <2>2, <2>6, <2>12, TopsVanish
  <2>14. Placed(m, e, q)
    BY <2>6, <2>7, <2>13 DEF Placed
  <2>15. IsLimbs(m) /\ Magnitude(m) = Five(e, 0) * Q
    BY <2>2, <2>14, PlacedLimbs
  <2>16. Magnitude(m) = M * Pow2[s]
    BY <2>8, <2>11, <2>13, <2>15
  <2> HIDE DEF M
  <2>17. x.negative => Magnitude(m) # 0
    <3>1. \A N, R \in Nat : N # 0 /\ R >= 1 => N * R # 0
      OBVIOUS
    <3>2. M \in Nat /\ (x.negative => M # 0)
      BY <1>1, <1>2
    <3>3. M # 0 => M * Pow2[s] # 0
      BY <1>4, <3>1, <3>2
    <3>4. QED BY <2>16, <3>2, <3>3
  <2>18. /\ Proper(WrappingShl(x, s))
         /\ Value(WrappingShl(x, s)) = IF x.negative THEN -Magnitude(m) ELSE Magnitude(m)
    BY <1>1, <2>3, <2>15, <2>17, MakeProper
  <2>19. -(M * Pow2[s]) = (-M) * Pow2[s]
    BY <1>2, <1>4
  <2>20. Value(WrappingShl(x, s)) = Value(x) * Pow2[s]
    <3>1. CASE x.negative
      <4>1. Value(WrappingShl(x, s)) = -(M * Pow2[s]) /\ Value(x) = -M
        BY <1>2, <2>16, <2>18, <3>1
      <4>2. QED BY <2>19, <4>1
    <3>2. CASE ~ x.negative
      BY <1>2, <2>16, <2>18, <3>2
    <3>3. QED BY <3>1, <3>2
  <2>21. QED BY <2>18, <2>20
<1>8. QED BY <1>5, <1>6, <1>7

-----------------------------------------------------------------------------
(* Numbers given by sign and magnitude. *)
Signed(n, M) == IF n THEN -M ELSE M

LEMMA SignedSums ==
  ASSUME NEW s \in BOOLEAN, NEW t \in BOOLEAN, NEW M \in Nat, NEW N \in Nat
  PROVE  /\ s = t => Signed(s, M + N) = Signed(s, M) + Signed(t, N)
         /\ s # t => Signed(s, M - N) = Signed(s, M) + Signed(t, N)
         /\ s # t => Signed(t, N - M) = Signed(s, M) + Signed(t, N)
         /\ s # t /\ M = N => Signed(s, M) + Signed(t, N) = 0
<1>1. CASE s /\ t
  <2>1. \A X \in Int : Signed(s, X) = -X /\ Signed(t, X) = -X
    BY <1>1 DEF Signed
  <2>2. s = t
    BY <1>1
  <2>3. M + N \in Int /\ M - N \in Int /\ N - M \in Int /\ M \in Int /\ N \in Int
    OBVIOUS
  <2>4. Signed(s, M + N) = -(M + N) /\ Signed(s, M) = -M /\ Signed(t, N) = -N
    BY <2>1, <2>3
  <2>5. Signed(s, M + N) = Signed(s, M) + Signed(t, N)
    BY <2>4
  <2>6. QED BY <2>2, <2>5
<1>2. CASE s /\ ~ t
  <2>1. \A X \in Int : Signed(s, X) = -X /\ Signed(t, X) = X
    BY <1>2 DEF Signed
  <2>2. s # t
    BY <1>2
  <2>3. M + N \in Int /\ M - N \in Int /\ N - M \in Int /\ M \in Int /\ N \in Int
    OBVIOUS
  <2>4. /\ Signed(s, M - N) = -(M - N) /\ Signed(t, N - M) = (N - M)
        /\ Signed(s, M) = -M /\ Signed(t, N) = N
    BY <2>1, <2>3
  <2>5. /\ Signed(s, M - N) = Signed(s, M) + Signed(t, N)
        /\ Signed(t, N - M) = Signed(s, M) + Signed(t, N)
        /\ M = N => Signed(s, M) + Signed(t, N) = 0
    BY <2>4
  <2>6. QED BY <2>2, <2>5
<1>3. CASE ~ s /\ t
  <2>1. \A X \in Int : Signed(s, X) = X /\ Signed(t, X) = -X
    BY <1>3 DEF Signed
  <2>2. s # t
    BY <1>3
  <2>3. M + N \in Int /\ M - N \in Int /\ N - M \in Int /\ M \in Int /\ N \in Int
    OBVIOUS
  <2>4. /\ Signed(s, M - N) = (M - N) /\ Signed(t, N - M) = -(N - M)
        /\ Signed(s, M) = M /\ Signed(t, N) = -N
    BY <2>1, <2>3
  <2>5. /\ Signed(s, M - N) = Signed(s, M) + Signed(t, N)
        /\ Signed(t, N - M) = Signed(s, M) + Signed(t, N)
        /\ M = N => Signed(s, M) + Signed(t, N) = 0
    BY <2>4
  <2>6. QED BY <2>2, <2>5
<1>4. CASE ~ s /\ ~ t
  <2>1. \A X \in Int : Signed(s, X) = X /\ Signed(t, X) = X
    BY <1>4 DEF Signed
  <2>2. s = t
    BY <1>4
  <2>3. M + N \in Int /\ M - N \in Int /\ N - M \in Int /\ M \in Int /\ N \in Int
    OBVIOUS
  <2>4. Signed(s, M + N) = (M + N) /\ Signed(s, M) = M /\ Signed(t, N) = N
    BY <2>1, <2>3
  <2>5. Signed(s, M + N) = Signed(s, M) + Signed(t, N)
    BY <2>4
  <2>6. QED BY <2>2, <2>5
<1>5. QED BY <1>1, <1>2, <1>3, <1>4

(* The sum of two I256 whose magnitudes together fit four limbs: the last  *)
(* carry is not set, and the comparison picks the sign of the sum.         *)
LEMMA WrappingAddIs ==
  ASSUME NEW x, NEW y, Proper(x), Proper(y),
         Abs(Value(x)) + Abs(Value(y)) < Pow2[Width]
  PROVE  /\ Proper(WrappingAdd(x, y))
         /\ Value(WrappingAdd(x, y)) = Value(x) + Value(y)
<1> DEFINE a == x.limbs  b == y.limbs
           M == Magnitude(a)  N == Magnitude(b)
           z == WrappingAdd(x, y)
<1>1. /\ IsLimbs(a) /\ IsLimbs(b) /\ x.negative \in BOOLEAN /\ y.negative \in BOOLEAN
      /\ (x.negative => M # 0) /\ (y.negative => N # 0)
  BY DEF Proper
<1>2. /\ M \in Nat /\ N \in Nat /\ M = Abs(Value(x)) /\ N = Abs(Value(y))
  BY ProperFacts
<1>20. Value(x) = Signed(x.negative, M) /\ Value(y) = Signed(y.negative, N)
  BY DEF Value, Signed
<1>21. M \in Nat /\ N \in Nat
  BY <1>2
<1>22. \A k \in Nat, j \in Nat : /\ k > j => k - j # 0
                                 /\ k # 0 => k + j # 0
  OBVIOUS
<1>3. M + N < Pow2[Width]
  BY <1>2
<1>4. MagnitudeGreater(a, b) <=> M > N
  BY <1>1, MagnitudeGreaterIs
<1>5. MagnitudeGreater(b, a) <=> N > M
  BY <1>1, MagnitudeGreaterIs
<1>6. CASE x.negative = y.negative
  <2> DEFINE c == AddLimbs(a, b).limbs
  <2>1. IsLimbs(c) /\ Magnitude(c) = M + N
    BY <1>1, <1>3, AddLimbsIs
  <2>2. z = [limbs |-> c, negative |-> x.negative]
    BY <1>6 DEF WrappingAdd
  <2> HIDE DEF c, z, a, b, M, N
  <2>3. x.negative => Magnitude(c) # 0
    BY <1>1, <1>21, <1>22, <2>1
  <2>4. Proper(z) /\ Value(z) = Signed(x.negative, Magnitude(c))
    BY <1>1, <2>1, <2>2, <2>3, MakeProper DEF Signed
  <2>5. Value(z) = Value(x) + Value(y)
    BY <1>1, <1>20, <1>21, <1>6, <2>1, <2>4, SignedSums
  <2>6. QED BY <2>4, <2>5 DEF z
<1>7. CASE x.negative # y.negative /\ M > N
  <2> DEFINE c == SubLimbs(a, b).limbs
  <2>1. IsLimbs(c) /\ Magnitude(c) = M - N
    <3>1. M >= N
      <4> HIDE DEF M, N
      <4>1. QED BY <1>2, <1>7
    <3>2. QED BY <1>1, <3>1, SubLimbsIs
  <2>2. z = [limbs |-> c, negative |-> x.negative]
    BY <1>4, <1>7 DEF WrappingAdd
  <2> HIDE DEF c, z, a, b, M, N
  <2>3. Magnitude(c) # 0
    BY <1>21, <1>22, <1>7, <2>1
  <2>4. Proper(z) /\ Value(z) = Signed(x.negative, Magnitude(c))
    BY <1>1, <2>1, <2>2, <2>3, MakeProper DEF Signed
  <2>5. Value(z) = Value(x) + Value(y)
    BY <1>1, <1>20, <1>21, <1>7, <2>1, <2>4, SignedSums
  <2>6. QED BY <2>4, <2>5 DEF z
<1>8. CASE x.negative # y.negative /\ N > M
  <2> DEFINE c == SubLimbs(b, a).limbs
  <2>1. IsLimbs(c) /\ Magnitude(c) = N - M
    <3>1. N >= M
      <4> HIDE DEF M, N
      <4>1. QED BY <1>2, <1>8
    <3>2. QED BY <1>1, <3>1, SubLimbsIs
  <2>2. z = [limbs |-> c, negative |-> y.negative]
    <3>1. ~ MagnitudeGreater(a, b)
      <4>1. ~ (M > N)
        <5> HIDE DEF M, N
        <5>1. QED BY <1>2, <1>8
      <4>2. QED BY <1>4, <4>1
    <3>2. QED BY <1>5, <1>8, <3>1 DEF WrappingAdd
  <2> HIDE DEF c, z, a, b, M, N
  <2>3. Magnitude(c) # 0
    BY <1>21, <1>22, <1>8, <2>1
  <2>4. Proper(z) /\ Value(z) = Signed(y.negative, Magnitude(c))
    BY <1>1, <2>1, <2>2, <2>3, MakeProper DEF Signed
  <2>5. Value(z) = Value(x) + Value(y)
    BY <1>1, <1>20, <1>21, <1>8, <2>1, <2>4, SignedSums
  <2>6. QED BY <2>4, <2>5 DEF z
<1>9. CASE x.negative # y.negative /\ M = N
  <2>1. ~ (M > N) /\ ~ (N > M)
    <3> HIDE DEF M, N
    <3>1. QED BY <1>2, <1>9
  <2>2. z = ZERO
    BY <1>4, <1>5, <1>9, <2>1 DEF WrappingAdd
  <2> HIDE DEF z, a, b, M, N
  <2>3. Proper(z) /\ Value(z) = 0
    BY <2>2, ZeroOne
  <2>4. Value(x) + Value(y) = 0
    BY <1>1, <1>20, <1>21, <1>9, SignedSums
  <2>5. QED BY <2>3, <2>4 DEF z
<1>10. M > N \/ N > M \/ M = N
  <2> HIDE DEF M, N
  <2>1. QED BY <1>2
<1> HIDE DEF z, M, N
<1>11. QED BY <1>6, <1>7, <1>8, <1>9, <1>10 DEF z

LEMMA WrappingSubIs ==
  ASSUME NEW x, NEW y, Proper(x), Proper(y),
         Abs(Value(x)) + Abs(Value(y)) < Pow2[Width]
  PROVE  /\ Proper(WrappingSub(x, y))
         /\ Value(WrappingSub(x, y)) = Value(x) - Value(y)
<1> DEFINE n == WrappingNeg(y)
<1>1. Proper(n) /\ Value(n) = -Value(y)
  BY WrappingNegIs
<1>2. Value(x) \in Int /\ Value(y) \in Int
  BY ProperFacts
<1>3. Abs(Value(n)) = Abs(Value(y))
  <2> HIDE DEF n
  <2>1. QED BY <1>1, <1>2 DEF Abs
<1>4. WrappingSub(x, y) = WrappingAdd(x, n)
  BY DEF WrappingSub
<1> HIDE DEF n
<1>5. Abs(Value(x)) + Abs(Value(n)) < Pow2[Width]
  BY <1>3
<1>6. Proper(WrappingSub(x, y)) /\ Value(WrappingSub(x, y)) = Value(x) + Value(n)
  BY <1>1, <1>4, <1>5, WrappingAddIs
<1>7. QED BY <1>1, <1>2, <1>6

-----------------------------------------------------------------------------
(* Limb i is the highest that is not zero. *)
TopLimb(l, i) == l[i] # 0 /\ \A j \in i + 1 .. 4 : l[j] = 0

(* A number read from its top limb. *)
LEMMA MagnitudeFromTop ==
  ASSUME NEW l, IsLimbs(l), NEW i \in 1 .. 4, TopLimb(l, i)
  PROVE  \E lo \in 0 .. Pow2[LimbBits * (i - 1)] - 1 :
            Magnitude(l) = lo + Pow2[LimbBits * (i - 1)] * l[i]
<1> DEFINE a == l[1]  b == l[2]  c == l[3]  d == l[4]
           K == Pow2[LimbBits * (i - 1)]
<1>1. a \in 0 .. Base - 1 /\ b \in 0 .. Base - 1 /\ c \in 0 .. Base - 1 /\ d \in 0 .. Base - 1
  BY LimbRange
<1>2. /\ Base \in Nat /\ Base >= 2 /\ LimbBits \in Nat
      /\ Pow2[0] = 1 /\ Pow2[LimbBits] = Base
      /\ Pow2[2 * LimbBits] = Base * Base /\ Pow2[3 * LimbBits] = Base * (Base * Base)
      /\ Base * Base \in Nat /\ Base * (Base * Base) \in Nat
  BY BaseFacts, Pow2Def
<1>3. Magnitude(l) = a + Base * (b + Base * (c + Base * d))
  BY DEF Magnitude
<1>4. CASE i = 1
  <2>1. b = 0 /\ c = 0 /\ d = 0 /\ l[i] = a
    BY <1>4 DEF TopLimb
  <2>2. K = 1
    <3>1. LimbBits * (i - 1) = 0
      BY <1>2, <1>4
    <3>2. QED BY <1>2, <3>1
  <2> HIDE DEF a, b, c, d
  <2>3. Magnitude(l) = a
    BY <1>1, <1>2, <1>3, <2>1
  <2>4. a = 0 + 1 * a
    BY <1>1
  <2>5. 0 \in 0 .. K - 1 /\ Magnitude(l) = 0 + K * l[i]
    BY <2>1, <2>2, <2>3, <2>4
  <2> HIDE DEF K
  <2>6. \E lo \in 0 .. K - 1 : Magnitude(l) = lo + K * l[i]
    BY <2>5
  <2>7. QED BY <2>6 DEF K
<1>5. CASE i = 2
  <2>1. c = 0 /\ d = 0 /\ l[i] = b
    BY <1>5 DEF TopLimb
  <2>2. K = Base
    <3>1. LimbBits * (i - 1) = LimbBits
      BY <1>2, <1>5
    <3>2. QED BY <1>2, <3>1
  <2> HIDE DEF a, b, c, d
  <2>3. Magnitude(l) = a + Base * b
    BY <1>1, <1>2, <1>3, <2>1
  <2>4. a \in 0 .. K - 1 /\ Magnitude(l) = a + K * l[i]
    BY <1>1, <2>1, <2>2, <2>3
  <2> HIDE DEF K
  <2>5. \E lo \in 0 .. K - 1 : Magnitude(l) = lo + K * l[i]
    BY <2>4
  <2>6. QED BY <2>5 DEF K
<1>6. CASE i = 3
  <2> DEFINE lo == a + Base * b
  <2>1. d = 0 /\ l[i] = c
    BY <1>6 DEF TopLimb
  <2>2. K = Base * Base
    <3>1. LimbBits * (i - 1) = 2 * LimbBits
      BY <1>2, <1>6
    <3>2. QED BY <1>2, <3>1
  <2> HIDE DEF a, b, c, d, K
  <2>3. Magnitude(l) = a + Base * (b + Base * c)
    BY <1>1, <1>2, <1>3, <2>1
  <2>4. lo \in Nat /\ lo < Base * Base
    BY <1>1, <1>2, LowLimb
  <2>5. a + Base * (b + Base * c) = lo + (Base * Base) * c
    BY <1>1, <1>2
  <2> HIDE DEF lo
  <2>6. lo \in 0 .. K - 1 /\ Magnitude(l) = lo + K * l[i]
    BY <1>2, <2>1, <2>2, <2>3, <2>4, <2>5
  <2>7. QED BY <2>6 DEF K
<1>7. CASE i = 4
  <2> DEFINE mid == b + Base * c
             lo == a + Base * mid
  <2>1. l[i] = d
    BY <1>7
  <2>2. K = Base * (Base * Base)
    <3>1. LimbBits * (i - 1) = 3 * LimbBits
      BY <1>2, <1>7
    <3>2. QED BY <1>2, <3>1
  <2> HIDE DEF a, b, c, d, K
  <2>3. mid \in Nat /\ mid < Base * Base
    BY <1>1, <1>2, LowLimb
  <2>4. b + Base * (c + Base * d) = mid + (Base * Base) * d
    BY <1>1, <1>2
  <2>5. (Base * Base) * d \in Int /\ Base * ((Base * Base) * d) = (Base * (Base * Base)) * d
    BY <1>1, <1>2
  <2> HIDE DEF mid
  <2>6. lo \in Nat /\ lo < Base * (Base * Base)
    BY <1>1, <1>2, <2>3, LowLimb
  <2>7. Magnitude(l) = a + Base * (mid + (Base * Base) * d)
    BY <1>3, <2>4
  <2>8. a + Base * (mid + (Base * Base) * d) = lo + Base * ((Base * Base) * d)
    <3> DEFINE y == (Base * Base) * d
    <3>1. y \in Int
      BY <2>5
    <3> HIDE DEF y
    <3>2. a + Base * (mid + y) = (a + Base * mid) + Base * y
      BY <1>1, <1>2, <2>3, <3>1
    <3>3. QED BY <3>2 DEF y
  <2> HIDE DEF lo
  <2>9. lo \in 0 .. K - 1 /\ Magnitude(l) = lo + K * l[i]
    BY <1>2, <2>1, <2>2, <2>5, <2>6, <2>7, <2>8
  <2>10. QED BY <2>9 DEF K
<1>8. QED BY <1>4, <1>5, <1>6, <1>7

LEMMA TopLimbExists ==
  ASSUME NEW l, ~ \A i \in 1 .. 4 : l[i] = 0
  PROVE  \E i \in 1 .. 4 : TopLimb(l, i)
<1>1. CASE l[4] # 0
  <2>1. TopLimb(l, 4)
    BY <1>1 DEF TopLimb
  <2>2. QED BY <2>1
<1>2. CASE l[4] = 0 /\ l[3] # 0
  <2>1. TopLimb(l, 3)
    BY <1>2 DEF TopLimb
  <2>2. QED BY <2>1
<1>3. CASE l[4] = 0 /\ l[3] = 0 /\ l[2] # 0
  <2>1. \A j \in 3 .. 4 : j = 3 \/ j = 4
    OBVIOUS
  <2>2. TopLimb(l, 2)
    BY <1>3, <2>1 DEF TopLimb
  <2>3. QED BY <2>2
<1>4. CASE l[4] = 0 /\ l[3] = 0 /\ l[2] = 0
  <2>1. \A j \in 1 .. 4 : j = 1 \/ j = 2 \/ j = 3 \/ j = 4
    OBVIOUS
  <2>2. l[1] # 0
    BY <1>4, <2>1
  <2>3. TopLimb(l, 1)
    BY <1>4, <2>1, <2>2 DEF TopLimb
  <2>4. QED BY <2>3
<1>5. QED BY <1>1, <1>2, <1>3, <1>4

(* The top limb that is not zero decides the length of the number.         *)
LEMMA BitLengthI256Is ==
  ASSUME NEW x, Proper(x)
  PROVE  BitLengthI256(x) = BitLength(Value(x))
<1> DEFINE l == x.limbs
           M == Magnitude(l)
<1>1. IsLimbs(l)
  BY DEF Proper
<1>2. Value(x) \in Int /\ Abs(Value(x)) = M /\ M \in Nat /\ (IsZero(x) <=> Value(x) = 0)
  BY ProperFacts
<1>3. BitLength(Value(x)) \in Nat
  BY <1>2, BitLengthDef
<1>4. LimbBits \in Nat
  BY LimbAssumption
<1>5. CASE IsZero(x)
  <2>1. BitLengthI256(x) = 0
    BY <1>5 DEF BitLengthI256
  <2>2. Abs(Value(x)) < Pow2[0]
    BY <1>2, <1>5, Pow2Def DEF Abs
  <2>3. BitLength(Value(x)) <= 0
    BY <1>2, <2>2, BitLengthAtMost
  <2>4. QED BY <1>3, <2>1, <2>3
<1>6. CASE ~ IsZero(x)
  <2> DEFINE i == CHOOSE i \in 1 .. 4 : x.limbs[i] # 0 /\ \A j \in i + 1 .. 4 : x.limbs[j] = 0
  <2>1. BitLengthI256(x) = LimbBits * (i - 1) + BitLength(x.limbs[i])
    BY <1>6 DEF BitLengthI256
  <2>2. i \in 1 .. 4 /\ TopLimb(l, i)
    <3>1. \E k \in 1 .. 4 : TopLimb(l, k)
      BY <1>6, TopLimbExists DEF IsZero
    <3>2. QED BY <3>1 DEF TopLimb
  <2> HIDE DEF i
  <2> DEFINE k == LimbBits * (i - 1)
             n == BitLength(l[i])
             K == Pow2[k]
             t == l[i]
  <2>3. k \in Nat
    BY <1>4, <2>2
  <2>4. t \in Nat /\ t > 0
    <3>1. t \in 0 .. Base - 1
      BY <1>1, <2>2 DEF IsLimbs
    <3>2. t # 0
      BY <2>2 DEF TopLimb
    <3>3. QED BY <3>1, <3>2, BaseFacts
  <2>5. PICK lo \in 0 .. K - 1 : M = lo + K * t
    BY <1>1, <2>2, MagnitudeFromTop
  <2>6. BitLengthI256(x) = k + n
    BY <2>1
  <2>7. Abs(t) = t
    BY <2>4 DEF Abs
  <2> HIDE DEF k, K, t, l, M
  <2>8. n \in Nat /\ t < Pow2[n] /\ (n > 0 => n - 1 \in Nat /\ Pow2[n - 1] <= t)
    <3>1. n = BitLength(t)
      BY DEF t
    <3> HIDE DEF n
    <3>2. QED BY <2>4, <2>7, <3>1, BitLengthDef
  <2> HIDE DEF n
  <2>9. n > 0
    <3>1. Pow2[0] = 1
      BY Pow2Def
    <3>2. n # 0
      BY <2>4, <2>8, <3>1
    <3>3. QED BY <2>8, <3>2
  <2>10. K \in Nat /\ K >= 1 /\ K = Pow2[k]
    BY <2>3, Pow2Positive DEF K
  <2>11. /\ Pow2[n] \in Nat /\ Pow2[n - 1] \in Nat /\ n - 1 \in Nat
         /\ Pow2[k + n] = K * Pow2[n] /\ Pow2[k + (n - 1)] = K * Pow2[n - 1]
         /\ k + n \in Nat /\ k + (n - 1) \in Nat
    <3>1. n \in Nat /\ n - 1 \in Nat /\ k + n \in Nat /\ k + (n - 1) \in Nat
      BY <2>3, <2>8, <2>9
    <3>2. Pow2[n] \in Nat /\ Pow2[n - 1] \in Nat
      BY <3>1, Pow2Positive
    <3>3. Pow2[k + n] = K * Pow2[n]
      BY <2>3, <2>10, <3>1, Pow2Sum
    <3>4. Pow2[k + (n - 1)] = K * Pow2[n - 1]
      BY <2>3, <2>10, <3>1, Pow2Sum
    <3>5. QED BY <3>1, <3>2, <3>3, <3>4
  <2> DEFINE A == Pow2[n]
             C == Pow2[n - 1]
  <2>12. A \in Nat /\ C \in Nat /\ t + 1 <= A /\ C <= t
    BY <2>4, <2>8, <2>9, <2>11
  <2>13. Pow2[k + n] = K * A /\ Pow2[k + (n - 1)] = K * C
    BY <2>11
  <2> HIDE DEF A, C
  <2>14. K * (t + 1) <= K * A /\ K * C <= K * t
    <3>1. t + 1 \in Int /\ t \in Int /\ A \in Int /\ C \in Int /\ K \in Int /\ 0 <= K
      BY <2>4, <2>10, <2>12
    <3>2. K * (t + 1) <= K * A
      BY <2>12, <3>1, MulMonotone
    <3>3. K * C <= K * t
      BY <2>12, <3>1, MulMonotone
    <3>4. QED BY <3>2, <3>3
  <2>15. K * (t + 1) = K * t + K /\ K * t \in Nat /\ K * C \in Nat /\ K * A \in Nat
    BY <2>4, <2>10, <2>12
  <2>16. lo \in Nat /\ lo < K
    BY <2>5, <2>10
  <2>17. M < K * A /\ K * C <= M
    BY <2>5, <2>10, <2>14, <2>15, <2>16
  <2>18. BitLength(Value(x)) <= k + n
    <3>1. Abs(Value(x)) < Pow2[k + n]
      BY <1>2, <2>13, <2>17 DEF M, l
    <3>2. QED BY <1>2, <2>11, <3>1, BitLengthAtMost
  <2>19. BitLength(Value(x)) > k + (n - 1)
    <3>1. Pow2[k + (n - 1)] <= Abs(Value(x))
      BY <1>2, <2>13, <2>17 DEF M, l
    <3>2. QED BY <1>2, <2>11, <3>1, BitLengthMoreThan
  <2>20. QED BY <1>3, <2>3, <2>6, <2>8, <2>18, <2>19
<1>7. QED BY <1>5, <1>6

-----------------------------------------------------------------------------
(* The order decides whether a proper I256 is below ZERO with a Boolean.   *)
LEMMA LessIsBoolean ==
  ASSUME NEW x, Proper(x)
  PROVE  Less(x, ZERO) = (Value(x) < 0)
<1>1. x.negative \in BOOLEAN /\ ~ ZERO.negative
  BY ZeroOne DEF Proper
<1>2. Less(x, ZERO) \in BOOLEAN
  <2>1. CASE x.negative
    BY <1>1, <2>1 DEF Less
  <2>2. CASE ~ x.negative
    <3>1. Less(x, ZERO) = MagnitudeGreater(ZERO.limbs, x.limbs)
      BY <1>1, <2>2 DEF Less
    <3>2. MagnitudeGreater(ZERO.limbs, x.limbs) \in BOOLEAN
      BY DEF MagnitudeGreater
    <3>3. QED BY <3>1, <3>2
  <2>3. QED BY <1>1, <2>1, <2>2
<1>3. Less(x, ZERO) <=> Value(x) < 0
  BY LessZero
<1>4. QED BY <1>2, <1>3

(* The limbs hold the loop's numbers, each with its only representation.   *)
LimbsHold ==
  /\ limbs = [r0 |-> limbs.r0, t0 |-> limbs.t0, r1 |-> limbs.r1, t1 |-> limbs.t1]
  /\ Proper(limbs.r0) /\ Proper(limbs.t0) /\ Proper(limbs.r1) /\ Proper(limbs.t1)
  /\ r0 = Value(limbs.r0) /\ t0 = Value(limbs.t0)
  /\ r1 = Value(limbs.r1) /\ t1 = Value(limbs.t1)

LimbInv == IInv /\ LimbsHold

(* A row operation on limbs is the row operation on numbers.               *)
LEMMA LimbCombineIs ==
  ASSUME LimbInv, bl_r1 > Half, NEW a, NEW b, Proper(a), Proper(b),
         Abs(Value(a)) + Abs(Shl(Value(b), bl_r0 - bl_r1)) < Pow2[Width]
  PROVE  /\ Proper(LimbCombine(a, b))
         /\ Value(LimbCombine(a, b)) = Combine(Value(a), Value(b))
<1> DEFINE s == bl_r0 - bl_r1
           c == WrappingShl(b, s)
<1>1. s \in Nat /\ Pow2[s] \in Nat
  BY LoopLengths, Pow2Positive DEF LimbInv, IInv, LoopInv
<1>2. Value(a) \in Int /\ Value(b) \in Int /\ Abs(Value(a)) \in Nat
  BY ProperFacts
<1>3. Pow2[Width] \in Nat
  BY HeeaAssumption, Pow2Positive
<1>4. (IsNegative(limbs.r0) <=> r0 < 0) /\ (IsNegative(limbs.r1) <=> r1 < 0)
  BY ProperFacts DEF LimbInv, LimbsHold
<1> HIDE DEF s
<1>5. /\ Shl(Value(b), s) = Value(b) * Pow2[s] /\ Shl(Value(b), s) \in Int
      /\ Abs(Shl(Value(b), s)) \in Nat
  <2>1. Shl(Value(b), s) = Value(b) * Pow2[s]
    BY DEF Shl
  <2>2. Shl(Value(b), s) \in Int
    BY <1>1, <1>2, <2>1
  <2>3. QED BY <2>1, <2>2, AbsType
<1>6. Abs(Value(b)) * Pow2[s] < Pow2[Width]
  <2>1. Abs(Value(b) * Pow2[s]) = Abs(Value(b)) * Abs(Pow2[s])
    <3>1. Pow2[s] \in Int
      BY <1>1
    <3> DEFINE P == Pow2[s]
               V == Value(b)
    <3>2. P \in Int /\ V \in Int
      BY <1>2, <3>1
    <3> HIDE DEF P, V
    <3>3. Abs(V * P) = Abs(V) * Abs(P)
      BY <3>2, AbsProduct
    <3>4. QED BY <3>3 DEF P, V
  <2>2. Abs(Pow2[s]) = Pow2[s]
    BY <1>1 DEF Abs
  <2>3. Abs(Shl(Value(b), s)) < Pow2[Width]
    <3>1. Abs(Value(a)) + Abs(Shl(Value(b), s)) < Pow2[Width]
      BY DEF s
    <3>2. QED BY <1>2, <1>3, <1>5, <3>1
  <2>4. QED BY <1>5, <2>1, <2>2, <2>3
<1>7. Proper(c) /\ Value(c) = Shl(Value(b), s)
  BY <1>1, <1>5, <1>6, WrappingShlIs
<1>8. Abs(Value(a)) + Abs(Value(c)) < Pow2[Width]
  BY <1>7 DEF s
<1>9. LimbCombine(a, b) = IF IsNegative(limbs.r0) = IsNegative(limbs.r1)
                          THEN WrappingSub(a, c) ELSE WrappingAdd(a, c)
  BY DEF LimbCombine, s
<1>10. Combine(Value(a), Value(b)) =
         IF (r0 < 0) = (r1 < 0) THEN Value(a) - Shl(Value(b), s) ELSE Value(a) + Shl(Value(b), s)
  BY DEF Combine, s
<1> HIDE DEF c
<1>11. IsNegative(limbs.r0) = IsNegative(limbs.r1) <=> (r0 < 0) = (r1 < 0)
  <2>1. IsNegative(limbs.r0) \in BOOLEAN /\ IsNegative(limbs.r1) \in BOOLEAN
    <3>1. limbs.r0.negative \in BOOLEAN /\ limbs.r1.negative \in BOOLEAN
      BY DEF LimbInv, LimbsHold, Proper
    <3>2. QED BY <3>1 DEF IsNegative
  <2>2. QED BY <1>4, <2>1
<1>12. CASE (r0 < 0) = (r1 < 0)
  <2>1. LimbCombine(a, b) = WrappingSub(a, c)
    BY <1>9, <1>11, <1>12
  <2>2. Combine(Value(a), Value(b)) = Value(a) - Shl(Value(b), s)
    BY <1>10, <1>12
  <2>3. QED BY <1>7, <1>8, <2>1, <2>2, WrappingSubIs
<1>13. CASE ~ ((r0 < 0) = (r1 < 0))
  <2>1. LimbCombine(a, b) = WrappingAdd(a, c)
    BY <1>9, <1>11, <1>13
  <2>2. Combine(Value(a), Value(b)) = Value(a) + Shl(Value(b), s)
    BY <1>10, <1>13
  <2>3. QED BY <1>7, <1>8, <2>1, <2>2, WrappingAddIs
<1>14. QED BY <1>12, <1>13

(* Both rows' operations fit.                                              *)
LEMMA LimbCombinesAre ==
  ASSUME LimbInv, ~ done, bl_r1 > Half
  PROVE  /\ Proper(LimbCombine(limbs.r0, limbs.r1))
         /\ Value(LimbCombine(limbs.r0, limbs.r1)) = Combine(r0, r1)
         /\ Proper(LimbCombine(limbs.t0, limbs.t1))
         /\ Value(LimbCombine(limbs.t0, limbs.t1)) = Combine(t0, t1)
<1>1. /\ Abs(r0) + Abs(Shl(r1, bl_r0 - bl_r1)) < Pow2[Width]
      /\ Abs(t0) + Abs(Shl(t1, bl_r0 - bl_r1)) < Pow2[Width]
  BY InvImpliesNoLimbOverflow DEF LimbInv, IInv, NoLimbOverflow
<1>2. /\ Proper(limbs.r0) /\ Proper(limbs.t0) /\ Proper(limbs.r1) /\ Proper(limbs.t1)
      /\ r0 = Value(limbs.r0) /\ t0 = Value(limbs.t0)
      /\ r1 = Value(limbs.r1) /\ t1 = Value(limbs.t1)
  BY DEF LimbInv, LimbsHold
<1>3. /\ Proper(LimbCombine(limbs.r0, limbs.r1))
      /\ Value(LimbCombine(limbs.r0, limbs.r1)) = Combine(r0, r1)
  BY <1>1, <1>2, LimbCombineIs
<1>4. /\ Proper(LimbCombine(limbs.t0, limbs.t1))
      /\ Value(LimbCombine(limbs.t0, limbs.t1)) = Combine(t0, t1)
  BY <1>1, <1>2, LimbCombineIs
<1>5. QED BY <1>3, <1>4

-----------------------------------------------------------------------------
LEMMA LimbInitIs == LimbInit => Init /\ LimbInv
<1> SUFFICES ASSUME LimbInit PROVE Init /\ LimbInv
  OBVIOUS
<1>1. /\ L \in Nat /\ L < Pow2[BL] /\ BL \in Nat /\ Width \in Nat /\ BL <= Width
      /\ Challenges \subseteq 0 .. L - 1
  BY HeeaAssumption
<1>2. L < Pow2[Width]
  <2>1. Pow2[BL] <= Pow2[Width]
    BY <1>1, Pow2Monotone
  <2>2. Pow2[BL] \in Nat /\ Pow2[Width] \in Nat
    BY <1>1, Pow2Positive
  <2>3. QED BY <1>1, <2>1, <2>2
<1>3. v \in Nat /\ v < Pow2[Width]
  <2>1. v \in 0 .. L - 1
    BY <1>1 DEF LimbInit
  <2>2. Pow2[Width] \in Nat
    BY <1>1, Pow2Positive
  <2>3. QED BY <1>1, <1>2, <2>1, <2>2
<1>4. limbs = [r0 |-> OfNat(L), t0 |-> ZERO, r1 |-> OfNat(v), t1 |-> ONE]
  BY DEF LimbInit
<1>5. limbs.r0 = OfNat(L) /\ limbs.t0 = ZERO /\ limbs.r1 = OfNat(v) /\ limbs.t1 = ONE
  BY <1>4
<1>6. limbs = [r0 |-> limbs.r0, t0 |-> limbs.t0, r1 |-> limbs.r1, t1 |-> limbs.t1]
  BY <1>4, <1>5
<1>7. /\ Proper(limbs.r0) /\ Value(limbs.r0) = L
      /\ Proper(limbs.t0) /\ Value(limbs.t0) = 0
      /\ Proper(limbs.r1) /\ Value(limbs.r1) = v
      /\ Proper(limbs.t1) /\ Value(limbs.t1) = 1
  BY <1>1, <1>2, <1>3, <1>5, OfNatIs, ZeroOne
<1>8. BitLengthI256(limbs.r1) = BitLength(v)
  BY <1>7, BitLengthI256Is
<1>9. /\ r0 = Value(limbs.r0) /\ t0 = Value(limbs.t0) /\ bl_r0 = BL
      /\ r1 = Value(limbs.r1) /\ t1 = Value(limbs.t1)
      /\ bl_r1 = BitLengthI256(limbs.r1)
      /\ v \in Challenges /\ done = FALSE /\ out = NoOutput
  BY DEF LimbInit
<1>10. Init
  BY <1>7, <1>8, <1>9 DEF Init
<1>11. LimbsHold
  BY <1>6, <1>7, <1>9 DEF LimbsHold
<1>12. QED BY <1>10, <1>11, InitInv DEF LimbInv

(* An iteration on limbs is an iteration on numbers.                       *)
LEMMA IterateIs == LimbInv /\ Iterate => (Keep \/ Swap) /\ LimbsHold'
<1> SUFFICES ASSUME LimbInv, Iterate PROVE (Keep \/ Swap) /\ LimbsHold'
  OBVIOUS
<1> DEFINE r == LimbCombine(limbs.r0, limbs.r1)
           t == LimbCombine(limbs.t0, limbs.t1)
           bl_r == BitLengthI256(r)
           kept == [limbs EXCEPT !.r0 = r, !.t0 = t]
           swapped == [r0 |-> limbs.r1, t0 |-> limbs.t1, r1 |-> r, t1 |-> t]
<1>1. ~ done /\ bl_r1 > Half /\ UNCHANGED <<v, done, out>>
  BY DEF Iterate
<1>2. \/ bl_r > bl_r1 /\ SetRows(kept, bl_r, bl_r1)
      \/ bl_r <= bl_r1 /\ SetRows(swapped, bl_r1, bl_r)
  BY DEF Iterate
<1>3. Proper(r) /\ Value(r) = Combine(r0, r1) /\ Proper(t) /\ Value(t) = Combine(t0, t1)
  BY <1>1, LimbCombinesAre
<1>4. bl_r = BitLength(Combine(r0, r1))
  BY <1>3, BitLengthI256Is
<1>5. LimbsHold
  BY DEF LimbInv
<1> HIDE DEF r, t, bl_r
<1>6. CASE bl_r > bl_r1 /\ SetRows(kept, bl_r, bl_r1)
  <2>1. /\ limbs' = kept
        /\ r0' = Value(limbs'.r0) /\ t0' = Value(limbs'.t0) /\ bl_r0' = bl_r
        /\ r1' = Value(limbs'.r1) /\ t1' = Value(limbs'.t1) /\ bl_r1' = bl_r1
    BY <1>6 DEF SetRows
  <2>2. limbs' = [r0 |-> r, t0 |-> t, r1 |-> limbs.r1, t1 |-> limbs.t1]
    BY <1>5, <2>1 DEF LimbsHold
  <2>3. /\ limbs'.r0 = r /\ limbs'.t0 = t /\ limbs'.r1 = limbs.r1 /\ limbs'.t1 = limbs.t1
        /\ limbs' = [r0 |-> limbs'.r0, t0 |-> limbs'.t0, r1 |-> limbs'.r1, t1 |-> limbs'.t1]
    BY <2>2
  <2> HIDE DEF kept
  <2>4. LimbsHold'
    BY <1>3, <1>5, <2>1, <2>3 DEF LimbsHold
  <2>5. r1' = r1 /\ t1' = t1
    BY <1>5, <2>1, <2>3 DEF LimbsHold
  <2>6. Keep
    BY <1>1, <1>3, <1>4, <1>6, <2>1, <2>3, <2>5 DEF Keep
  <2>7. QED BY <2>4, <2>6
<1>7. CASE bl_r <= bl_r1 /\ SetRows(swapped, bl_r1, bl_r)
  <2>1. /\ limbs' = swapped
        /\ r0' = Value(limbs'.r0) /\ t0' = Value(limbs'.t0) /\ bl_r0' = bl_r1
        /\ r1' = Value(limbs'.r1) /\ t1' = Value(limbs'.t1) /\ bl_r1' = bl_r
    BY <1>7 DEF SetRows
  <2>2. /\ limbs'.r0 = limbs.r1 /\ limbs'.t0 = limbs.t1 /\ limbs'.r1 = r /\ limbs'.t1 = t
        /\ limbs' = [r0 |-> limbs'.r0, t0 |-> limbs'.t0, r1 |-> limbs'.r1, t1 |-> limbs'.t1]
    BY <2>1
  <2> HIDE DEF swapped
  <2>3. LimbsHold'
    BY <1>3, <1>5, <2>1, <2>2 DEF LimbsHold
  <2>4. r0' = r1 /\ t0' = t1
    BY <1>5, <2>1, <2>2 DEF LimbsHold
  <2>5. Swap
    BY <1>1, <1>3, <1>4, <1>7, <2>1, <2>2, <2>4 DEF Swap
  <2>6. QED BY <2>3, <2>5
<1>8. QED BY <1>2, <1>6, <1>7

(* The sign fix-up on limbs is the one on numbers.                         *)
LEMMA LimbReturnIs == LimbInv /\ LimbReturn => Return /\ LimbsHold'
<1> SUFFICES ASSUME LimbInv, LimbReturn PROVE Return /\ LimbsHold'
  OBVIOUS
<1>1. /\ Proper(limbs.r1) /\ Proper(limbs.t1)
      /\ r1 = Value(limbs.r1) /\ t1 = Value(limbs.t1)
  BY DEF LimbInv, LimbsHold
<1>2. /\ Magnitude(Positive(limbs.r1).limbs) = Abs(r1)
      /\ Magnitude(Positive(limbs.t1).limbs) = Abs(t1)
  BY <1>1, PositiveIs
<1>3. Less(limbs.r1, ZERO) = (r1 < 0) /\ Less(limbs.t1, ZERO) = (t1 < 0)
  BY <1>1, LessIsBoolean
<1>4. /\ ~ done /\ bl_r1 <= Half /\ done' = TRUE
      /\ out' = [rho    |-> Magnitude(Positive(limbs.r1).limbs),
                 tau    |-> Magnitude(Positive(limbs.t1).limbs),
                 flip_h |-> Less(limbs.r1, ZERO) # Less(limbs.t1, ZERO)]
      /\ UNCHANGED <<v, rows, limbs>>
  BY DEF LimbReturn
<1>5. out' = [rho |-> Abs(r1), tau |-> Abs(t1), flip_h |-> (r1 < 0) # (t1 < 0)]
  <2>1. (Less(limbs.r1, ZERO) # Less(limbs.t1, ZERO)) = ((r1 < 0) # (t1 < 0))
    BY <1>3
  <2>2. QED BY <1>2, <1>4, <2>1
<1>6. Return
  BY <1>4, <1>5 DEF Return
<1>7. UNCHANGED <<limbs, r0, t0, r1, t1>>
  BY <1>4 DEF rows
<1>8. LimbsHold'
  BY <1>7 DEF LimbInv, LimbsHold
<1>9. QED BY <1>6, <1>8

(* The decomposition as it is compiled, on sign-magnitude limbs that wrap  *)
(* silently, implements the decomposition on integers, for every modulus,  *)
(* every challenge and every width of the limbs that leaves the three      *)
(* spare bits of HeeaAssumption.                                           *)
THEOREM LimbsImplementHeea == LimbSpec => ImplementsHeea
<1>1. LimbInit => Init /\ LimbInv
  BY LimbInitIs
<1>2. LimbInv /\ [LimbNext]_limbVars => [Next]_vars /\ LimbInv'
  <2> SUFFICES ASSUME LimbInv, [LimbNext]_limbVars PROVE [Next]_vars /\ LimbInv'
    OBVIOUS
  <2>1. CASE Iterate
    <3>1. (Keep \/ Swap) /\ LimbsHold'
      BY <2>1, IterateIs
    <3>2. IInv'
      BY <3>1, KeepInv, SwapInv DEF LimbInv
    <3>3. QED BY <3>1, <3>2 DEF LimbInv, Next
  <2>2. CASE LimbReturn
    <3>1. Return /\ LimbsHold'
      BY <2>2, LimbReturnIs
    <3>2. IInv'
      BY <3>1, ReturnInv DEF LimbInv
    <3>3. QED BY <3>1, <3>2 DEF LimbInv, Next
  <2>3. CASE UNCHANGED limbVars
    <3>1. UNCHANGED vars /\ UNCHANGED limbs
      BY <2>3 DEF limbVars
    <3>2. IInv'
      BY <3>1, StutterInv DEF LimbInv
    <3>3. LimbsHold'
      BY <3>1 DEF LimbInv, LimbsHold, vars, rows
    <3>4. QED BY <3>1, <3>2, <3>3 DEF LimbInv
  <2>4. QED BY <2>1, <2>2, <2>3 DEF LimbNext
<1>3. QED BY <1>1, <1>2, PTL DEF LimbSpec, ImplementsHeea, Spec
=============================================================================

-------------------------- MODULE SignatureProofs ---------------------------
(***************************************************************************)
(* Theorems about Verification, about Signing and about the two composed.  *)
(*                                                                         *)
(* Verification: for every prime L, every key, signature and challenge and *)
(* every half-size decomposition, verify_zebra decides the ZIP-215         *)
(* equation.  The point verify_zebra_prehashed computes is, modulo L, tau  *)
(* times the defect 8s - R - hA of the original equation (ScaledDefect).   *)
(* tau is invertible modulo the prime L, so the cofactored result is the   *)
(* identity exactly when L divides the defect, which is the ZIP-215        *)
(* equation (EquationIsDefect).                                            *)
(*                                                                         *)
(* Signing: the inductive invariant SigningInv says where every key in     *)
(* sight came from and which known hash values every signature was         *)
(* computed with; the properties are arithmetic on top of it.              *)
(*                                                                         *)
(* The composition keeps both invariants, and an honest request: one whose *)
(* points are multiples of the basepoint and satisfy both modes' equations.*)
(*                                                                         *)
(* Key documents: the invariant DocumentInv says which forms of the key a  *)
(* run started from may be in hand (Follows); each conversion keeps it.    *)
(***************************************************************************)
EXTENDS SignAndVerify, KeyDocuments, EdwardsGroupProofs, TLAPS

LEMMA ZipEquation ==
  ASSUME NEW q, q.s \in Int, q.h \in Int,
         q.A.point \in Points, q.R.point \in Points
  PROVE  Criteria!Equation(q) <=> (Defect(q.s, q.R.point, q.h, q.A.point) % L) = 0
<1>1. Criteria!Equation(q) <=> Equation(q)
  BY DEF Criteria!Equation, Criteria!MulByCofactor, Criteria!Mul, Criteria!Add, Criteria!Basepoint,
         Equation, MulByCofactor, Mul, Add, Basepoint
<1>2. QED BY <1>1, EquationIsDefect

(* Cutting the basepoint's scalar in two does not change the product. *)
LEMMA TripleMulCong ==
  ASSUME NEW a1 \in Int, NEW P1 \in Int, NEW X1 \in Int, Cong(P1, X1, 8 * L),
         NEW a2 \in Int, NEW P2 \in Int, NEW X2 \in Int, Cong(P2, X2, 8 * L),
         NEW b \in Int
  PROVE  /\ TripleMul(a1, P1, a2, P2, b) \in Points
         /\ Cong(TripleMul(a1, P1, a2, P2, b), (a1 * X1 + a2 * X2) + b * 8, 8 * L)
<1> DEFINE b_lo == b % SplitBase
           b_hi == b \div SplitBase
           T1 == Mul(a1, P1)
           T2 == Mul(a2, P2)
           T3 == Mul(b_lo, Basepoint)
           B2 == Mul(SplitBase, Basepoint)
           T4 == Mul(b_hi, B2)
<1>1. /\ SplitBase \in Nat /\ SplitBase > 0
      /\ b_lo \in Int /\ b_hi \in Int /\ b = (SplitBase * b_hi) + b_lo
  BY VerificationAssumption
<1>2. T1 \in Points /\ Cong(T1, a1 * X1, 8 * L)
  BY MulCong
<1>3. T2 \in Points /\ Cong(T2, a2 * X2, 8 * L)
  BY MulCong
<1>4. T3 \in Points /\ Cong(T3, b_lo * 8, 8 * L)
  <2>1. b_lo \in Int /\ Cong(8, 8, 8 * L)
    BY <1>1, OrderPositive, CongRefl
  <2> HIDE DEF b_lo
  <2>2. QED BY <2>1, MulCong DEF Basepoint
<1>5. B2 \in Points /\ Cong(B2, SplitBase * 8, 8 * L)
  <2>1. Cong(8, 8, 8 * L) /\ SplitBase \in Int
    BY <1>1, OrderPositive, CongRefl
  <2>2. QED BY <2>1, MulCong DEF Basepoint
<1>6. T4 \in Points /\ Cong(T4, b_hi * (SplitBase * 8), 8 * L)
  <2>1. b_hi \in Int /\ B2 \in Int /\ SplitBase * 8 \in Int
    BY <1>1, <1>5, OrderPositive DEF Points
  <2> HIDE DEF b_hi, B2
  <2>2. QED BY <1>5, <2>1, MulCong
<1>7. /\ T1 \in Int /\ T2 \in Int /\ T3 \in Int /\ T4 \in Int
      /\ a1 * X1 \in Int /\ a2 * X2 \in Int
      /\ b_lo * 8 \in Int /\ b_hi * (SplitBase * 8) \in Int
  BY <1>1, <1>2, <1>3, <1>4, <1>6, OrderPositive DEF Points
<1>8. TripleMul(a1, P1, a2, P2, b) = Add(Add(T1, T2), Add(T3, T4))
  BY DEF TripleMul
<1>9. b_lo * 8 + b_hi * (SplitBase * 8) = b * 8
  BY <1>1
<1> HIDE DEF T1, T2, T3, T4, b_lo, b_hi
<1>10. Add(T1, T2) \in Points /\ Cong(Add(T1, T2), a1 * X1 + a2 * X2, 8 * L)
  BY <1>2, <1>3, <1>7, AddCong
<1>11. /\ Add(T3, T4) \in Points
       /\ Cong(Add(T3, T4), b_lo * 8 + b_hi * (SplitBase * 8), 8 * L)
  BY <1>4, <1>6, <1>7, AddCong
<1>12. /\ Add(T1, T2) \in Int /\ Add(T3, T4) \in Int
       /\ a1 * X1 + a2 * X2 \in Int
       /\ b_lo * 8 + b_hi * (SplitBase * 8) \in Int
  BY <1>7, <1>10, <1>11, OrderPositive DEF Points
<1>13. /\ Add(Add(T1, T2), Add(T3, T4)) \in Points
       /\ Cong(Add(Add(T1, T2), Add(T3, T4)),
               (a1 * X1 + a2 * X2) + (b_lo * 8 + b_hi * (SplitBase * 8)), 8 * L)
  BY <1>10, <1>11, <1>12, AddCong
<1>14. QED BY <1>8, <1>9, <1>13

(* The integer the transformed equation evaluates is tau times the defect, *)
(* modulo L, in both cases of flip_h.                                      *)
LEMMA ScaledDefect ==
  ASSUME NEW n \in Int, NEW R \in Int, NEW h \in Int, NEW A \in Int,
         NEW tau \in Int, NEW rho \in Int, NEW ts \in Int, NEW X \in Int,
         Cong(ts, tau * n, L),
         \/ X = A /\ ((rho + tau * h) % L) = 0
         \/ X = -A /\ ((rho - tau * h) % L) = 0
  PROVE  Cong((tau * (-R) + rho * X) + ts * 8, tau * Defect(n, R, h, A), L)
<1>1. L \in Nat /\ L > 0 /\ rho + tau * h \in Int /\ rho - tau * h \in Int
  BY OrderPositive
<1>2. PICK k \in Int : ts = tau * n + k * L
  BY DEF Cong
<1>3. ts * 8 = tau * (8 * n) + (8 * k) * L
  BY <1>1, <1>2
<1>4. \E j \in Int : rho * X = -(tau * (h * A)) + j * L
  <2>1. CASE X = A /\ ((rho + tau * h) % L) = 0
    <3>1. PICK j \in Int : rho + tau * h = j * L
      BY <1>1, <2>1, Divisible
    <3>2. rho * X = -(tau * (h * A)) + (j * A) * L
      <4>1. rho = j * L - tau * h
        BY <1>1, <3>1
      <4>2. (j * L - tau * h) * A = -(tau * (h * A)) + (j * A) * L
        BY <1>1
      <4>3. QED BY <2>1, <4>1, <4>2
    <3>3. QED BY <3>2
  <2>2. CASE X = -A /\ ((rho - tau * h) % L) = 0
    <3>1. PICK j \in Int : rho - tau * h = j * L
      BY <1>1, <2>2, Divisible
    <3>2. rho * X = -(tau * (h * A)) + (-(j * A)) * L
      <4>1. rho = j * L + tau * h
        BY <1>1, <3>1
      <4>2. (j * L + tau * h) * (-A) = -(tau * (h * A)) + (-(j * A)) * L
        BY <1>1
      <4>3. QED BY <2>2, <4>1, <4>2
    <3>3. -(j * A) \in Int
      OBVIOUS
    <3>4. QED BY <3>2, <3>3
  <2>3. QED BY <2>1, <2>2
<1>5. PICK j \in Int : rho * X = -(tau * (h * A)) + j * L
  BY <1>4
<1>6. tau * Defect(n, R, h, A) = tau * (-R) + (-(tau * (h * A))) + tau * (8 * n)
  BY DEF Defect
<1>7. (tau * (-R) + rho * X) + ts * 8 = tau * Defect(n, R, h, A) + (j + 8 * k) * L
  <2>1. (j + 8 * k) * L = j * L + (8 * k) * L
    BY <1>1
  <2>2. QED BY <1>1, <1>3, <1>5, <1>6, <2>1
<1>8. j + 8 * k \in Int
  OBVIOUS
<1>9. QED BY <1>7, <1>8 DEF Cong

-----------------------------------------------------------------------------
(* The verdict ZIP-215 gives a request whose key decodes. *)
ZebraVerdict == IF Criteria!Valid(request) THEN "Ok" ELSE "InvalidSignature"

(* [s]B = R + [h]A, without the cofactor. *)
ExactEquation ==
  /\ request.R.canonical /\ request.s < L
  /\ request.R.point \in Points
  /\ Mul(request.s, Basepoint) =
       Add(request.R.point, Mul(request.h, request.A.point))

(* What the locals of a running call hold, and what its verdict was. *)
CallInv ==
  /\ key = "Malformed" => ~ IsDecodable(request.A)
  /\ key = "Parsed" => IsDecodable(request.A) /\ minus_A = Neg(request.A.point)
  /\ key # "Parsed" => pc = "Idle" /\ zebra = "Pending" /\ dalek = "Pending"
  /\ pc \in {"ZebraScalar", "ZebraPoint", "ZebraCheck"}
       => split \in Pair!Splits(request.h)
  /\ pc \in {"ZebraPoint", "ZebraCheck", "DalekCompare"}
       => s = request.s /\ request.s < L
  /\ pc = "ZebraCheck" => IsDecodable(request.R) /\ neg_R = Neg(request.R.point)

VerdictInv ==
  /\ zebra \in {"Pending", ZebraVerdict}
  /\ dalek = "Ok" => ExactEquation

Inv == TypeOK /\ CallInv /\ VerdictInv

LEMMA RequestType ==
  ASSUME request \in Requests
  PROVE  /\ request.s \in Nat /\ request.h \in 0 .. L - 1 /\ request.h \in Int
         /\ request.s \in Int
         /\ request.A \in Encodings /\ request.R \in Encodings
BY VerificationAssumption, OrderPositive

LEMMA ConstantTypes ==
  /\ L \in Nat /\ L > 2 /\ Points \subseteq Int /\ 0 \in Points /\ 8 * L \in Nat
  /\ \A x \in Points : Neg(x) \in Points
  /\ SplitBase \in Nat /\ SplitBase >= 1
<1>1. L \in Nat /\ L > 2 /\ Points \subseteq Int /\ 0 \in Points /\ 8 * L \in Nat
  BY OrderPositive DEF Points
<1>2. ASSUME NEW x \in Points PROVE Neg(x) \in Points
  <2>1. x \in Int /\ Cong(x, x, 8 * L)
    BY <1>1, CongRefl
  <2>2. QED BY <2>1, NegCong
<1>3. QED BY <1>1, <1>2, VerificationAssumption

LEMMA SplitType ==
  ASSUME NEW o, NEW h, o \in Pair!Splits(h)
  PROVE  /\ o.tau \in Int /\ o.rho \in Int /\ o.flip_h \in BOOLEAN
         /\ 0 <= o.tau /\ 0 <= o.rho
         /\ o.tau < SplitBase /\ o.rho < SplitBase
         /\ (o.tau % L) # 0
         /\ IF o.flip_h THEN ((o.rho + o.tau * h) % L) = 0
                        ELSE ((o.rho - o.tau * h) % L) = 0
<1>1. /\ o \in [rho : 0 .. RhoBound - 1, tau : 0 .. TauBound - 1, flip_h : BOOLEAN]
      /\ (o.tau % L) # 0
      /\ IF o.flip_h THEN ((o.rho + o.tau * h) % L) = 0
                     ELSE ((o.rho - o.tau * h) % L) = 0
  BY DEF Pair!Splits
<1>2. /\ RhoBound \in Nat /\ TauBound \in Nat /\ SplitBase \in Nat
      /\ RhoBound <= SplitBase /\ TauBound <= SplitBase
  BY VerificationAssumption
<1>3. QED BY <1>1, <1>2

(* The equation verify_zebra_prehashed evaluates holds exactly for the     *)
(* requests ZIP-215 accepts, whichever split it was given.                 *)
LEMMA CheckDecides ==
  ASSUME TypeOK, CallInv, pc = "ZebraCheck"
  PROVE  IsIdentity(MulByCofactor(ZebraResult)) <=> Criteria!Valid(request)
<1> DEFINE A == request.A.point
           R == request.R.point
           h == request.h
           n == request.s
           tau == split.tau
           rho == split.rho
           ts == (tau * s) % L
           X == IF split.flip_h THEN A ELSE -A
           PX == IF split.flip_h THEN Neg(minus_A) ELSE minus_A
           E == Defect(n, R, h, A)
           Z == (tau * (-R) + rho * X) + ts * 8
<1>1. /\ key = "Parsed" /\ A \in Points /\ minus_A = Neg(A)
      /\ R \in Points /\ neg_R = Neg(R) /\ s = n /\ n < L
      /\ split \in Pair!Splits(h)
  BY DEF CallInv, IsDecodable
<1>2. /\ n \in Int /\ h \in Int /\ A \in Int /\ R \in Int
      /\ L \in Nat /\ L > 0 /\ 8 * L \in Nat
  <2>1. request \in Requests
    BY DEF TypeOK
  <2>2. n \in Int /\ h \in Int
    BY <2>1, RequestType
  <2>3. A \in Int /\ R \in Int
    BY <1>1, NegPoint
  <2>4. QED BY <2>2, <2>3, ConstantTypes
<1>3. /\ tau \in Int /\ rho \in Int /\ split.flip_h \in BOOLEAN
      /\ (tau % L) # 0
      /\ IF split.flip_h THEN ((rho + tau * h) % L) = 0
                         ELSE ((rho - tau * h) % L) = 0
  BY <1>1, SplitType
<1>4. ts \in Int /\ Cong(ts, tau * n, L)
  <2> DEFINE y == tau * n
  <2>1. y \in Int
    BY <1>2, <1>3
  <2>2. ts = y % L
    BY <1>1
  <2>3. (y % L) \in 0 .. L - 1 /\ Cong(y % L, y, L)
    <3> HIDE DEF y
    <3>1. QED BY <1>2, <2>1, ReduceCong
  <2>4. (y % L) \in Int
    BY <1>2, <2>3
  <2>5. QED BY <2>2, <2>3, <2>4
<1>5. neg_R \in Int /\ -R \in Int /\ Cong(neg_R, -R, 8 * L)
  BY <1>1, NegPoint
<1>6. PX \in Int /\ X \in Int /\ Cong(PX, X, 8 * L)
  <2>2. minus_A \in Int /\ -A \in Int /\ Cong(minus_A, -A, 8 * L)
    BY <1>1, NegPoint
  <2>3. Neg(minus_A) \in Int /\ Cong(Neg(minus_A), -(-A), 8 * L)
    BY <2>2, NegCong, ConstantTypes
  <2>4. -(-A) = A
    BY <1>2
  <2>5. QED BY <1>2, <1>3, <2>2, <2>3, <2>4
<1>7. ZebraResult = TripleMul(tau, neg_R, rho, PX, ts)
  BY DEF ZebraResult
<1>8. /\ ZebraResult \in Points
      /\ Cong(ZebraResult, Z, 8 * L)
  <2> HIDE DEF tau, rho, ts, X, PX, R
  <2>1. /\ TripleMul(tau, neg_R, rho, PX, ts) \in Points
        /\ Cong(TripleMul(tau, neg_R, rho, PX, ts),
                (tau * (-R) + rho * X) + ts * 8, 8 * L)
    BY <1>3, <1>4, <1>5, <1>6, TripleMulCong
  <2>2. QED BY <1>7, <2>1
<1>9. Z \in Int /\ E \in Int /\ tau * E \in Int
  <2>1. E \in Int
    BY <1>2 DEF Defect
  <2>2. Z \in Int
    <3> HIDE DEF tau, rho, ts, X, R
    <3>1. QED BY <1>2, <1>3, <1>4, <1>6
  <2>3. tau * E \in Int
    <3> HIDE DEF tau, E
    <3>1. QED BY <1>3, <2>1
  <2>4. QED BY <2>1, <2>2, <2>3
<1>10. Cong(Z, tau * E, L)
  <2>1. \/ X = A /\ ((rho + tau * h) % L) = 0
        \/ X = -A /\ ((rho - tau * h) % L) = 0
    BY <1>3
  <2> HIDE DEF tau, rho, ts, X, R, A, h, n
  <2>2. QED BY <1>2, <1>3, <1>4, <1>6, <2>1, ScaledDefect
<1> HIDE DEF Z, E, tau
<1>11. IsIdentity(MulByCofactor(ZebraResult)) <=> (Z % L) = 0
  <2>1. ZebraResult \in Int
    BY <1>8, ConstantTypes
  <2>2. QED BY <1>8, <1>9, <2>1, CofactorKills
<1>12. (Z % L) = 0 <=> ((tau * E) % L) = 0
  <2>1. PICK k \in Int : Z = tau * E + k * L
    BY <1>10 DEF Cong
  <2>2. ASSUME (Z % L) = 0 PROVE ((tau * E) % L) = 0
    <3>1. PICK q \in Int : Z = q * L
      BY <1>2, <1>9, <2>2, Divisible
    <3>2. tau * E = (q - k) * L /\ q - k \in Int
      BY <1>2, <1>9, <2>1, <3>1
    <3>3. QED BY <1>2, <1>9, <3>2, Divisible
  <2>3. ASSUME ((tau * E) % L) = 0 PROVE (Z % L) = 0
    <3>1. PICK q \in Int : tau * E = q * L
      BY <1>2, <1>9, <2>3, Divisible
    <3>2. Z = (q + k) * L /\ q + k \in Int
      BY <1>2, <1>9, <2>1, <3>1
    <3>3. QED BY <1>2, <1>9, <3>2, Divisible
  <2>4. QED BY <2>2, <2>3
<1>13. ((tau * E) % L) = 0 <=> (E % L) = 0
  <2>1. ASSUME ((tau * E) % L) = 0 PROVE (E % L) = 0
    BY <1>3, <1>9, <2>1, PrimeOrder
  <2>2. ASSUME (E % L) = 0 PROVE ((tau * E) % L) = 0
    <3>1. PICK q \in Int : E = q * L
      BY <1>2, <1>9, <2>2, Divisible
    <3>2. tau * E = (tau * q) * L /\ tau * q \in Int
      BY <1>2, <1>3, <3>1
    <3>3. QED BY <1>2, <1>9, <3>2, Divisible
  <2>3. QED BY <2>1, <2>2
<1>14. Criteria!Equation(request) <=> (E % L) = 0
  BY <1>1, <1>2, ZipEquation DEF E
<1>15. Criteria!Valid(request) <=> Criteria!Equation(request)
  BY <1>1 DEF Criteria!Valid, Criteria!IsDecodable, Criteria!Points, Points
<1>16. QED BY <1>11, <1>12, <1>13, <1>14, <1>15

(* The exact equation implies the cofactored one. *)
LEMMA ExactImpliesValid ==
  ASSUME TypeOK, IsDecodable(request.A), ExactEquation
  PROVE  Criteria!Valid(request)
<1> DEFINE A == request.A.point
           R == request.R.point
           h == request.h
           n == request.s
           M == 8 * L
<1>1. /\ n \in Int /\ h \in Int /\ A \in Int /\ R \in Int /\ A \in Points
      /\ R \in Points /\ n < L /\ L \in Nat /\ L > 0 /\ M \in Nat
      /\ h * A \in Int /\ n * 8 \in Int
  <2>1. request \in Requests
    BY DEF TypeOK
  <2>2. n \in Int /\ h \in Int
    BY <2>1, RequestType
  <2>3. A \in Points /\ R \in Points /\ n < L
    BY DEF IsDecodable, ExactEquation
  <2>4. A \in Int /\ R \in Int
    BY <2>3, NegPoint
  <2>5. h * A \in Int /\ n * 8 \in Int
    BY <2>2, <2>4
  <2>6. QED BY <2>2, <2>3, <2>4, <2>5, ConstantTypes
<1>2. Mul(n, Basepoint) = Add(R, Mul(h, A))
  BY DEF ExactEquation
<1>3. Mul(n, Basepoint) \in Int /\ Cong(Mul(n, Basepoint), n * 8, M)
  <2>1. Cong(8, 8, M)
    BY <1>1, CongRefl
  <2>2. Mul(n, 8) \in Points /\ Cong(Mul(n, 8), n * 8, M)
    <3> HIDE DEF n
    <3>1. QED BY <1>1, <2>1, MulCong
  <2>3. Mul(n, 8) \in Int
    BY <2>2, ConstantTypes
  <2>4. QED BY <2>2, <2>3 DEF Basepoint
<1>4. Add(R, Mul(h, A)) \in Int /\ Cong(Add(R, Mul(h, A)), R + h * A, M)
  <2>1. Mul(h, A) \in Points /\ Cong(Mul(h, A), h * A, M)
    BY <1>1, CongRefl, MulCong
  <2>2. Mul(h, A) \in Int
    BY <2>1, ConstantTypes
  <2>3. Cong(R, R, M)
    BY <1>1, CongRefl
  <2>4. QED BY <1>1, <2>1, <2>2, <2>3, AddCong, ConstantTypes
<1>5. PICK j \in Int : Mul(n, Basepoint) = n * 8 + j * M
  BY <1>3 DEF Cong
<1>6. PICK k \in Int : Add(R, Mul(h, A)) = (R + h * A) + k * M
  BY <1>4 DEF Cong
<1>7. Defect(n, R, h, A) = (8 * (k - j)) * L /\ 8 * (k - j) \in Int
  <2>1. n * 8 + j * M = (R + h * A) + k * M
    BY <1>2, <1>5, <1>6
  <2>2. j * M \in Int /\ k * M \in Int /\ (8 * (k - j)) * L = k * M - j * M
    BY <1>1
  <2>3. Defect(n, R, h, A) = n * 8 - (R + h * A)
    BY <1>1 DEF Defect
  <2> DEFINE a == n * 8
             b == R + h * A
             c == j * M
             d == k * M
  <2>4. a \in Int /\ b \in Int /\ c \in Int /\ d \in Int /\ a + c = b + d
    BY <1>1, <2>1, <2>2
  <2>5. a - b = d - c
    <3> HIDE DEF a, b, c, d
    <3>1. QED BY <2>4
  <2>6. QED BY <2>2, <2>3, <2>5
<1>8. (Defect(n, R, h, A) % L) = 0
  <2>1. Defect(n, R, h, A) \in Int
    BY <1>1 DEF Defect
  <2> DEFINE E == Defect(n, R, h, A)
             q == 8 * (k - j)
  <2>2. E \in Int /\ q \in Int /\ E = q * L
    BY <1>7, <2>1
  <2>3. (E % L) = 0
    <3> HIDE DEF E, q
    <3>1. QED BY <1>1, <2>2, Divisible
  <2>4. QED BY <2>3
<1>9. Criteria!Equation(request)
  BY <1>1, <1>8, ZipEquation
<1>10. QED BY <1>1, <1>9 DEF Criteria!Valid, Criteria!IsDecodable, Criteria!Points, Points

(* A signature whose R is the recomputed encoding satisfies the exact      *)
(* equation.                                                               *)
LEMMA RecomputedIsExact ==
  ASSUME Inv, pc = "DalekCompare", ExpectedR = request.R
  PROVE  ExactEquation
<1> DEFINE A == request.A.point
           R == request.R.point
           h == request.h
           n == request.s
           M == 8 * L
           hA == Mul(h, A)
           Q == Mul(h, minus_A)
           S == Mul(n, Basepoint)
<1>1. /\ A \in Points /\ minus_A = Neg(A) /\ s = n /\ n < L
      /\ n \in Int /\ h \in Int /\ M \in Nat /\ M > 0
  <2>1. request \in Requests /\ key = "Parsed"
    BY DEF Inv, TypeOK, CallInv
  <2>2. n \in Int /\ h \in Int
    BY <2>1, RequestType
  <2>3. A \in Points /\ minus_A = Neg(A) /\ s = n /\ n < L
    BY <2>1 DEF Inv, CallInv, IsDecodable
  <2>4. QED BY <2>2, <2>3, OrderPositive
<1>2. /\ A \in Int /\ minus_A \in Int /\ -A \in Int /\ Cong(minus_A, -A, M)
      /\ h * A \in Int /\ h * (-A) = -(h * A)
  BY <1>1, NegPoint
<1>3. request.R = Compress(Add(Q, S)) /\ R = Add(Q, S) /\ request.R.canonical
  BY <1>1 DEF ExpectedR, Compress
<1>4. hA \in Points /\ Cong(hA, h * A, M)
  BY <1>1, <1>2, CongRefl, MulCong
<1>5. Q \in Points /\ Cong(Q, h * (-A), M)
  BY <1>1, <1>2, MulCong
<1>6. S \in Points /\ Cong(S, n * 8, M)
  <2>1. Cong(8, 8, M)
    BY <1>1, CongRefl
  <2>2. QED BY <1>1, <2>1, MulCong DEF Basepoint
<1> HIDE DEF hA, Q, S
<1>7. /\ hA \in Int /\ Q \in Int /\ S \in Int
      /\ h * (-A) \in Int /\ n * 8 \in Int
  BY <1>1, <1>2, <1>4, <1>5, <1>6, ConstantTypes
<1>8. R \in Points /\ R \in Int /\ Cong(R, h * (-A) + n * 8, M)
  <2>1. Add(Q, S) \in Points /\ Cong(Add(Q, S), h * (-A) + n * 8, M)
    BY <1>5, <1>6, <1>7, AddCong
  <2>2. Add(Q, S) \in Int
    BY <2>1, ConstantTypes
  <2>3. QED BY <1>3, <2>1, <2>2
<1>9. Add(R, hA) \in Points /\ Cong(Add(R, hA), (h * (-A) + n * 8) + h * A, M)
  <2>1. h * (-A) + n * 8 \in Int
    BY <1>7
  <2> HIDE DEF R
  <2>2. QED BY <1>2, <1>4, <1>7, <1>8, <2>1, AddCong
<1>10. (h * (-A) + n * 8) + h * A = n * 8
  BY <1>2, <1>7
<1>11. S = Add(R, hA)
  <2> HIDE DEF R, M
  <2>1. Cong(n * 8, S, M)
    BY <1>1, <1>6, <1>7, CongSym
  <2>2. Add(R, hA) \in Int /\ Cong(Add(R, hA), n * 8, M)
    BY <1>9, <1>10, ConstantTypes
  <2>3. Cong(Add(R, hA), S, M)
    BY <1>1, <1>7, <2>1, <2>2, CongTrans
  <2>4. Add(R, hA) \in 0 .. M - 1 /\ S \in 0 .. M - 1
    BY <1>6, <1>9 DEF Points, M
  <2>5. QED BY <1>1, <2>3, <2>4, CongEqual
<1>12. QED BY <1>1, <1>3, <1>8, <1>11 DEF ExactEquation, hA, S

-----------------------------------------------------------------------------
LEMMA InitInv == Init => Inv
<1> SUFFICES ASSUME Init PROVE Inv
  OBVIOUS
<1>1. TypeOK
  BY ConstantTypes DEF Init, TypeOK, Verdicts
<1>2. CallInv /\ VerdictInv
  BY DEF Init, CallInv, VerdictInv
<1>3. QED BY <1>1, <1>2 DEF Inv

(* A call that ends leaves the key alone and drops its locals. *)
LEMMA ReturnZebraInv ==
  ASSUME Inv, key = "Parsed", NEW r \in {"Ok", "InvalidSignature"},
         r = ZebraVerdict, ReturnZebra(r)
  PROVE  Inv'
<1>1. TypeOK'
  BY ConstantTypes DEF Inv, TypeOK, Verdicts, ReturnZebra
<1>2. CallInv'
  BY DEF Inv, CallInv, ReturnZebra
<1>3. ZebraVerdict' = ZebraVerdict /\ ExactEquation' = ExactEquation
  BY DEF ReturnZebra, ZebraVerdict, ExactEquation, Criteria!Valid, Criteria!Equation
<1>4. VerdictInv'
  BY <1>3 DEF Inv, VerdictInv, ReturnZebra
<1>5. QED BY <1>1, <1>2, <1>4 DEF Inv

LEMMA ReturnDalekInv ==
  ASSUME Inv, key = "Parsed", NEW r \in {"Ok", "InvalidSignature"},
         r = "Ok" => ExactEquation, ReturnDalek(r)
  PROVE  Inv'
<1>1. TypeOK'
  BY ConstantTypes DEF Inv, TypeOK, Verdicts, ReturnDalek
<1>2. CallInv'
  BY DEF Inv, CallInv, ReturnDalek
<1>3. ZebraVerdict' = ZebraVerdict /\ ExactEquation' = ExactEquation
  BY DEF ReturnDalek, ZebraVerdict, ExactEquation, Criteria!Valid, Criteria!Equation
<1>4. VerdictInv'
  BY <1>3 DEF Inv, VerdictInv, ReturnDalek
<1>5. QED BY <1>1, <1>2, <1>4 DEF Inv

(* What a step that decides nothing preserves. *)
LEMMA VerdictFrame ==
  ASSUME VerdictInv, UNCHANGED <<request, zebra, dalek>>
  PROVE  VerdictInv'
<1>1. ZebraVerdict' = ZebraVerdict /\ ExactEquation' = ExactEquation
  BY DEF ZebraVerdict, ExactEquation, Criteria!Valid, Criteria!Equation
<1>2. QED BY <1>1 DEF VerdictInv

LEMMA ZebraCheckVerdict ==
  ASSUME Inv, ZebraCheck
  PROVE  ReturnZebra(ZebraVerdict) /\ key = "Parsed"
<1>1. pc = "ZebraCheck" /\ key = "Parsed"
  BY DEF ZebraCheck, Inv, CallInv
<1>2. IsIdentity(MulByCofactor(ZebraResult)) <=> Criteria!Valid(request)
  BY <1>1, CheckDecides DEF Inv
<1>3. QED BY <1>1, <1>2 DEF ZebraCheck, ZebraVerdict

LEMMA NextInv == Inv /\ [Next]_vars => Inv'
<1> SUFFICES ASSUME Inv, [Next]_vars PROVE Inv'
  OBVIOUS
<1> USE DEF Inv
<1>1. CASE ParseKey
  <2>1. UNCHANGED <<request, pc, split, s, neg_R, zebra, dalek>>
    BY <1>1 DEF ParseKey, locals
  <2>2. minus_A' \in Points /\ key' \in {"Malformed", "Parsed"}
    BY <1>1, ConstantTypes DEF ParseKey, IsDecodable, Decompress, TypeOK
  <2>3. TypeOK'
    BY <2>1, <2>2 DEF TypeOK
  <2>4. pc = "Idle" /\ zebra = "Pending" /\ dalek = "Pending"
    BY <1>1 DEF ParseKey, CallInv
  <2>5. CallInv'
    BY <1>1, <2>1, <2>4 DEF ParseKey, CallInv, Decompress
  <2>6. QED BY <2>1, <2>3, <2>5, VerdictFrame
<1>2. CASE DefaultKey
  <2>1. UNCHANGED <<request, pc, split, s, neg_R, zebra, dalek>>
    BY <1>2 DEF DefaultKey, locals
  <2>2. /\ minus_A' \in Points /\ key' = "Parsed"
        /\ IsDecodable(request.A) /\ minus_A' = Neg(request.A.point)
    BY <1>2, ConstantTypes DEF DefaultKey, Compress, IsDecodable
  <2>3. TypeOK'
    BY <2>1, <2>2 DEF TypeOK
  <2>4. pc = "Idle" /\ zebra = "Pending" /\ dalek = "Pending"
    BY <1>2 DEF DefaultKey, CallInv
  <2>5. CallInv'
    BY <2>1, <2>2, <2>4 DEF CallInv
  <2>6. QED BY <2>1, <2>3, <2>5, VerdictFrame
<1>3. CASE ZebraDecompose
  <2>1. UNCHANGED <<request, key, minus_A, s, neg_R, zebra, dalek>>
        /\ pc' = "ZebraScalar" /\ split' \in Pair!Splits(request.h) /\ key = "Parsed"
    BY <1>3 DEF ZebraDecompose
  <2>2. split' \in Pair!Splits(request'.h)
    BY <2>1
  <2>3. TypeOK'
    BY <2>1, <2>2 DEF TypeOK, Pair!Splits
  <2>4. CallInv'
    BY <2>1, <2>2 DEF CallInv, Pair!Splits
  <2>5. QED BY <2>1, <2>3, <2>4, VerdictFrame
<1>4. CASE ZebraScalar
  <2>1. pc = "ZebraScalar" /\ key = "Parsed"
    BY <1>4 DEF ZebraScalar, CallInv
  <2>2. CASE IsCanonicalScalar(request.s)
    <3>1. UNCHANGED <<request, key, minus_A, split, neg_R, zebra, dalek>>
          /\ s' = request.s /\ pc' = "ZebraPoint" /\ request.s < L
      BY <1>4, <2>2 DEF ZebraScalar, IsCanonicalScalar
    <3>2. request.s \in 0 .. L - 1
      BY <3>1, RequestType, ConstantTypes DEF TypeOK
    <3>3. TypeOK'
      BY <3>1, <3>2 DEF TypeOK
    <3>4. CallInv'
      BY <2>1, <3>1 DEF CallInv
    <3>5. QED BY <3>1, <3>3, <3>4, VerdictFrame
  <2>3. CASE ~ IsCanonicalScalar(request.s)
    <3>1. ReturnZebra("InvalidSignature")
      BY <1>4, <2>3 DEF ZebraScalar
    <3>2. ZebraVerdict = "InvalidSignature"
      BY <2>3 DEF ZebraVerdict, Criteria!Valid, IsCanonicalScalar
    <3>3. QED BY <2>1, <3>1, <3>2, ReturnZebraInv
  <2>4. QED BY <2>2, <2>3
<1>5. CASE ZebraPoint
  <2>1. pc = "ZebraPoint" /\ key = "Parsed"
    BY <1>5 DEF ZebraPoint, CallInv
  <2>2. CASE IsDecodable(request.R)
    <3>1. UNCHANGED <<request, key, minus_A, split, s, zebra, dalek>>
          /\ neg_R' = Neg(request.R.point) /\ pc' = "ZebraCheck"
      BY <1>5, <2>2 DEF ZebraPoint, Decompress
    <3>2. TypeOK'
      BY <2>2, <3>1, ConstantTypes DEF TypeOK, IsDecodable
    <3>3. CallInv'
      BY <2>1, <2>2, <3>1 DEF CallInv
    <3>4. QED BY <3>1, <3>2, <3>3, VerdictFrame
  <2>3. CASE ~ IsDecodable(request.R)
    <3>1. ReturnZebra("InvalidSignature")
      BY <1>5, <2>3 DEF ZebraPoint
    <3>2. ZebraVerdict = "InvalidSignature"
      BY <2>3 DEF ZebraVerdict, Criteria!Valid, Criteria!IsDecodable, IsDecodable,
                  Criteria!Points, Points
    <3>3. QED BY <2>1, <3>1, <3>2, ReturnZebraInv
  <2>4. QED BY <2>2, <2>3
<1>6. CASE ZebraCheck
  <2>1. ZebraVerdict \in {"Ok", "InvalidSignature"}
    BY DEF ZebraVerdict
  <2>2. QED BY <1>6, <2>1, ZebraCheckVerdict, ReturnZebraInv
<1>7. CASE DalekExclude
  <2>1. pc = "Idle" /\ key = "Parsed"
    BY <1>7 DEF DalekExclude
  <2>2. CASE pc' = "DalekScalar"
    <3>1. UNCHANGED <<request, key, minus_A, split, s, neg_R, zebra, dalek>>
      BY <1>7, <2>2 DEF DalekExclude, ReturnDalek, locals
    <3>2. TypeOK'
      BY <2>2, <3>1 DEF TypeOK
    <3>3. CallInv'
      BY <2>1, <2>2, <3>1 DEF CallInv
    <3>4. QED BY <3>1, <3>2, <3>3, VerdictFrame
  <2>3. CASE ReturnDalek("InvalidSignature")
    BY <2>1, <2>3, ReturnDalekInv
  <2>4. QED BY <1>7, <2>2, <2>3 DEF DalekExclude
<1>8. CASE DalekScalar
  <2>1. pc = "DalekScalar" /\ key = "Parsed"
    BY <1>8 DEF DalekScalar, CallInv
  <2>2. CASE IsCanonicalScalar(request.s)
    <3>1. UNCHANGED <<request, key, minus_A, split, neg_R, zebra, dalek>>
          /\ s' = request.s /\ pc' = "DalekCompare" /\ request.s < L
      BY <1>8, <2>2 DEF DalekScalar, IsCanonicalScalar
    <3>2. request.s \in 0 .. L - 1
      BY <3>1, RequestType, ConstantTypes DEF TypeOK
    <3>3. TypeOK'
      BY <3>1, <3>2 DEF TypeOK
    <3>4. CallInv'
      BY <2>1, <3>1 DEF CallInv
    <3>5. QED BY <3>1, <3>3, <3>4, VerdictFrame
  <2>3. CASE ReturnDalek("InvalidSignature")
    BY <2>1, <2>3, ReturnDalekInv
  <2>4. QED BY <1>8, <2>2, <2>3 DEF DalekScalar
<1>9. CASE DalekCompare
  <2>1. pc = "DalekCompare" /\ key = "Parsed"
    BY <1>9 DEF DalekCompare, CallInv
  <2>2. CASE ExpectedR = request.R
    <3>1. ReturnDalek("Ok")
      BY <1>9, <2>2 DEF DalekCompare
    <3>2. ExactEquation
      BY <2>1, <2>2, RecomputedIsExact
    <3>3. QED BY <2>1, <3>1, <3>2, ReturnDalekInv
  <2>3. CASE ExpectedR # request.R
    <3>1. ReturnDalek("InvalidSignature")
      BY <1>9, <2>3 DEF DalekCompare
    <3>2. QED BY <2>1, <3>1, ReturnDalekInv
  <2>4. QED BY <2>2, <2>3
<1>10. CASE UNCHANGED vars
  <2>1. UNCHANGED <<request, key, minus_A, pc, split, s, neg_R, zebra, dalek>>
    BY <1>10 DEF vars, locals
  <2>2. TypeOK' /\ CallInv'
    BY <2>1 DEF TypeOK, CallInv
  <2>3. QED BY <2>1, <2>2, VerdictFrame
<1>11. QED
  BY <1>1, <1>2, <1>3, <1>4, <1>5, <1>6, <1>7, <1>8, <1>9, <1>10 DEF Next

THEOREM Invariance == Spec => []Inv
BY InitInv, NextInv, PTL DEF Spec

(* Type correctness of the two verification paths. *)
THEOREM TypeCorrect == Spec => []TypeOK
<1>1. Inv => TypeOK
  BY DEF Inv
<1>2. QED BY <1>1, Invariance, PTL

(* verify_zebra implements ZIP-215: for every prime L, request and valid   *)
(* decomposition, its verdict is Verdict(request), and stays so.           *)
THEOREM ZebraImplementsZip215 == Spec => ImplementsZip215
<1> DEFINE verdict == IF key = "Malformed" THEN "MalformedPublicKey" ELSE zebra
<1>1. Init => Criteria!Init
  BY DEF Init, Criteria!Init
<1>2. ASSUME Inv, [Next]_vars
      PROVE  Criteria!Decide \/ UNCHANGED <<request, verdict>>
  <2>1. ASSUME ReturnZebra(ZebraVerdict), key = "Parsed"
        PROVE  Criteria!Decide \/ UNCHANGED <<request, verdict>>
    <3>1. UNCHANGED <<request, key>> /\ zebra' = ZebraVerdict
      BY <2>1 DEF ReturnZebra
    <3>2. IsDecodable(request.A)
      BY <1>2, <2>1 DEF Inv, CallInv
    <3>3. Criteria!Verdict(request) = ZebraVerdict
      BY <3>2 DEF ZebraVerdict, Criteria!Verdict, Criteria!IsDecodable, IsDecodable,
                  Criteria!Points, Points
    <3>4. CASE zebra = "Pending"
      BY <2>1, <3>1, <3>3, <3>4 DEF Criteria!Decide
    <3>5. CASE zebra = ZebraVerdict
      BY <3>1, <3>5
    <3>6. QED BY <1>2, <3>4, <3>5 DEF Inv, VerdictInv
  <2>2. CASE ParseKey
    <3>1. UNCHANGED <<request, zebra>> /\ zebra = "Pending" /\ key = "Unparsed"
      BY <1>2, <2>2 DEF ParseKey, Inv, CallInv
    <3>2. CASE key' = "Malformed"
      <4>1. ~ IsDecodable(request.A)
        BY <2>2, <3>2 DEF ParseKey
      <4>2. Criteria!Verdict(request) = "MalformedPublicKey"
        BY <4>1 DEF Criteria!Verdict, Criteria!IsDecodable, IsDecodable, Criteria!Points, Points
      <4>3. QED BY <3>1, <3>2, <4>2 DEF Criteria!Decide
    <3>3. CASE key' = "Parsed"
      BY <3>1, <3>3
    <3>4. QED BY <2>2, <3>2, <3>3 DEF ParseKey
  <2>3. CASE DefaultKey
    BY <2>3 DEF DefaultKey
  <2>4. CASE ZebraDecompose
    BY <2>4 DEF ZebraDecompose
  <2>5. CASE ZebraScalar
    <3>1. key = "Parsed"
      BY <1>2, <2>5 DEF ZebraScalar, Inv, CallInv
    <3>2. CASE IsCanonicalScalar(request.s)
      BY <2>5, <3>2 DEF ZebraScalar
    <3>3. CASE ~ IsCanonicalScalar(request.s)
      <4>1. ZebraVerdict = "InvalidSignature"
        BY <3>3 DEF ZebraVerdict, Criteria!Valid, IsCanonicalScalar
      <4>2. QED BY <2>1, <2>5, <3>1, <3>3, <4>1 DEF ZebraScalar
    <3>4. QED BY <3>2, <3>3
  <2>6. CASE ZebraPoint
    <3>1. key = "Parsed"
      BY <1>2, <2>6 DEF ZebraPoint, Inv, CallInv
    <3>2. CASE IsDecodable(request.R)
      BY <2>6, <3>2 DEF ZebraPoint
    <3>3. CASE ~ IsDecodable(request.R)
      <4>1. ZebraVerdict = "InvalidSignature"
        BY <3>3 DEF ZebraVerdict, Criteria!Valid, Criteria!IsDecodable, IsDecodable,
                    Criteria!Points, Points
      <4>2. QED BY <2>1, <2>6, <3>1, <3>3, <4>1 DEF ZebraPoint
    <3>4. QED BY <3>2, <3>3
  <2>7. CASE ZebraCheck
    BY <1>2, <2>1, <2>7, ZebraCheckVerdict
  <2>8. CASE DalekExclude
    BY <2>8 DEF DalekExclude, ReturnDalek
  <2>9. CASE DalekScalar
    BY <2>9 DEF DalekScalar, ReturnDalek
  <2>10. CASE DalekCompare
    BY <2>10 DEF DalekCompare, ReturnDalek
  <2>11. CASE UNCHANGED vars
    BY <2>11 DEF vars
  <2>12. QED
    BY <1>2, <2>2, <2>3, <2>4, <2>5, <2>6, <2>7, <2>8, <2>9, <2>10, <2>11 DEF Next
<1>3. Inv /\ [Next]_vars => [Criteria!Decide]_<<request, verdict>>
  BY <1>2
<1>4. QED BY <1>1, <1>3, Invariance, PTL DEF Spec, ImplementsZip215, Criteria!Spec

(* verify_dalek never accepts what verify_zebra rejects. *)
THEOREM DalekIsSubsumed == Spec => []DalekImpliesZebra
<1>1. Inv => DalekImpliesZebra
  <2> SUFFICES ASSUME Inv, dalek = "Ok" PROVE zebra # "InvalidSignature"
    BY DEF DalekImpliesZebra
  <2>1. ExactEquation /\ key = "Parsed" /\ IsDecodable(request.A)
    BY DEF Inv, VerdictInv, CallInv
  <2>2. Criteria!Valid(request)
    BY <2>1, ExactImpliesValid DEF Inv
  <2>3. QED BY <2>2 DEF Inv, VerdictInv, ZebraVerdict
<1>2. QED BY <1>1, Invariance, PTL

(* verify_dalek only accepts R's canonical encoding and the cofactorless   *)
(* equation.                                                               *)
THEOREM DalekStrict == Spec => []DalekIsStrict
<1>1. Inv => DalekIsStrict
  BY DEF Inv, VerdictInv, ExactEquation, DalekIsStrict
<1>2. QED BY <1>1, Invariance, PTL

(* The triple multiplication's assertions and unwraps hold. *)
THEOREM OperandsFit == Spec => []TripleMulOperands
<1>1. Inv => TripleMulOperands
  <2> DEFINE ts == (split.tau * s) % L
  <2> SUFFICES ASSUME Inv, pc = "ZebraCheck"
               PROVE  /\ split.tau < SplitBase /\ split.rho < SplitBase
                      /\ ts % SplitBase < L /\ ts \div SplitBase < L
    BY DEF TripleMulOperands, IsCanonicalScalar
  <2>1. split \in Pair!Splits(request.h) /\ s \in 0 .. L - 1
    BY DEF Inv, CallInv, TypeOK
  <2>2. /\ split.tau < SplitBase /\ split.rho < SplitBase /\ split.tau \in Int
    BY <2>1, SplitType
  <2>3. ts \in 0 .. L - 1 /\ L \in Nat /\ SplitBase \in Nat /\ SplitBase >= 1
        /\ SplitBase <= L
    <3>1. split.tau * s \in Int /\ L \in Nat /\ L > 0
      BY <2>1, <2>2, ConstantTypes
    <3>2. QED BY <3>1, ReduceCong, ConstantTypes, VerificationAssumption
  <2> DEFINE q == ts \div SplitBase
             r == ts % SplitBase
  <2>4. q \in Int /\ r \in 0 .. SplitBase - 1 /\ ts = (SplitBase * q) + r
    <3> HIDE DEF ts
    <3>1. QED BY <2>3
  <2>5. r < L
    <3> HIDE DEF ts, r, q
    <3>1. QED BY <2>3, <2>4
  <2>6. q < L
    <3> SUFFICES ASSUME L <= q PROVE FALSE
      BY <2>3, <2>4
    <3>1. q * 1 <= q * SplitBase
      <4> HIDE DEF q, r, ts
      <4>1. QED BY <2>3, <2>4, MulMonotone
    <3>2. q * SplitBase = SplitBase * q /\ SplitBase * q \in Int
      <4> HIDE DEF q, r, ts
      <4>1. QED BY <2>3, <2>4
    <3> HIDE DEF q, r, ts
    <3>3. QED BY <2>3, <2>4, <3>1, <3>2
  <2>7. QED BY <2>2, <2>5, <2>6
<1>2. QED BY <1>1, Invariance, PTL
-----------------------------------------------------------------------------
(* The key in hand is expanded from a seed, or zeroized. *)
KeyInv == IF live THEN sk = FromSeed(sk.seed) ELSE sk = Zeroized

(* A signature is what sign computes from the hash values now known. *)
Computed(x) ==
  LET r == nonces[<<x.key.prefix, x.msg>>]
      k == challenges[<<x.R, x.key.vk.A_bytes, x.msg>>]
  IN  /\ <<x.key.prefix, x.msg>> \in DOMAIN nonces
      /\ <<x.R, x.key.vk.A_bytes, x.msg>> \in DOMAIN challenges
      /\ x.R = Compress(Mul(r, Basepoint))
      /\ x.s = (r + k * x.key.s) % L

SignatureInv ==
  \A x \in signatures :
    /\ IF x.live THEN x.key = FromSeed(x.key.seed) ELSE x.key = Zeroized
    /\ Computed(x)

SigningInv == SigningTypes /\ KeyInv /\ SignatureInv
-----------------------------------------------------------------------------
LEMMA PointFacts ==
  /\ L \in Nat /\ L > 2 /\ 0 \in Points /\ Points \subseteq Int
  /\ \A n \in Int, P \in Int : Mul(n, P) \in Points
  /\ \A P \in Int : Neg(P) \in Points
  /\ \A P \in Points : Compress(P) \in Encodings
<1>1. L \in Nat /\ L > 2 /\ 0 \in Points /\ Points \subseteq Int
  BY OrderPositive DEF Points
<1>2. ASSUME NEW n \in Int, NEW P \in Int PROVE Mul(n, P) \in Points
  <2>1. 8 * L \in Int
    BY <1>1
  <2>2. Cong(P, P, 8 * L)
    BY <2>1, CongRefl
  <2>3. QED BY <2>2, MulCong
<1>3. ASSUME NEW P \in Int PROVE Neg(P) \in Points
  <2>1. 8 * L \in Int
    BY <1>1
  <2>2. Cong(P, P, 8 * L)
    BY <2>1, CongRefl
  <2>3. QED BY <2>2, NegCong
<1>4. ASSUME NEW P \in Points PROVE Compress(P) \in Encodings
  BY DEF Compress, Encodings
<1>5. QED BY <1>1, <1>2, <1>3, <1>4

LEMMA KeyOfType ==
  ASSUME NEW a \in 0 .. L - 1
  PROVE  KeyOf(Mul(a, Basepoint)) \in Keys /\ Mul(a, Basepoint) \in Points
<1>1. a \in Int /\ Basepoint \in Int
  BY PointFacts DEF Basepoint
<1>2. Mul(a, Basepoint) \in Points /\ Mul(a, Basepoint) \in Int
  BY <1>1, PointFacts
<1>3. QED BY <1>2, PointFacts DEF KeyOf, Keys

LEMMA QuotientRemainder ==
  ASSUME NEW x \in Int, NEW d \in Nat, d > 0
  PROVE  (x % d) \in 0 .. d - 1 /\ \E q \in Int : x = q * d + (x % d)
<1>1. /\ x = (d * (x \div d)) + (x % d)
      /\ (x \div d) \in Int /\ (x % d) \in 0 .. d - 1
  OBVIOUS
<1> DEFINE q == x \div d
           r == x % d
<1>2. q \in Int /\ r \in 0 .. d - 1 /\ x = d * q + r
  BY <1>1
<1>3. x = q * d + r
  <2> HIDE DEF q, r
  <2>1. QED BY <1>2
<1>4. QED BY <1>2, <1>3

(* Clamping yields 8 * m with 0 < m < L. *)
LEMMA ClampRange ==
  ASSUME NEW n \in 0 .. 4 * Scale - 1
  PROVE  \E m \in 1 .. L - 1 : Clamp(n) = 8 * m
<1>1. /\ Scale \in Nat /\ Scale >= 8 /\ Scale % 8 = 0 /\ Scale < 4 * L
      /\ L \in Nat /\ n \in Int /\ Scale \in Int /\ Scale > 0
  BY SigningAssumption, PointFacts
<1>2. PICK c \in Int : Scale = c * 8
  BY <1>1, Divisible
<1>3. (n % Scale) \in 0 .. Scale - 1 /\ \E q \in Int : n = q * Scale + (n % Scale)
  BY <1>1, QuotientRemainder
<1>4. PICK q \in Int : n = q * Scale + (n % Scale)
  BY <1>3
<1>5. (n % 8) \in 0 .. 7 /\ \E p \in Int : n = p * 8 + (n % 8)
  <2>1. 8 \in Nat /\ 8 > 0 /\ 8 - 1 = 7
    OBVIOUS
  <2>2. (n % 8) \in 0 .. 8 - 1 /\ \E p \in Int : n = p * 8 + (n % 8)
    BY <1>1, <2>1, QuotientRemainder
  <2>3. QED BY <2>1, <2>2
<1>6. PICK p \in Int : n = p * 8 + (n % 8)
  BY <1>5
<1> DEFINE u == n % Scale
           v == n % 8
           z == q * c
           m == c + p - z
<1>7. z \in Int /\ q * Scale = z * 8
  <2>1. q * Scale = q * (c * 8)
    BY <1>2
  <2>2. q * (c * 8) = (q * c) * 8 /\ q * c \in Int
    OBVIOUS
  <2>3. QED BY <2>1, <2>2
<1>8. /\ u \in 0 .. Scale - 1 /\ v \in 0 .. 7
      /\ n = q * Scale + u /\ n = p * 8 + v /\ Clamp(n) = Scale + u - v
  BY <1>3, <1>4, <1>5, <1>6 DEF Clamp
<1> HIDE DEF u, v, z
<1>9. m \in Int /\ Clamp(n) = 8 * m
  <2>1. u = n - z * 8 /\ v = n - p * 8
    BY <1>1, <1>7, <1>8
  <2>2. QED BY <1>1, <1>2, <1>7, <1>8, <2>1
<1>10. Clamp(n) >= Scale - 7 /\ Clamp(n) < 2 * Scale
  BY <1>1, <1>8
<1> HIDE DEF m
<1>11. m \in 1 .. L - 1
  BY <1>1, <1>9, <1>10
<1>12. QED BY <1>9, <1>11

LEMMA FromSeedFacts ==
  ASSUME NEW seed \in Seeds
  PROVE  /\ FromSeed(seed) \in SigningKeySet
         /\ FromSeed(seed).seed = seed
         /\ FromSeed(seed).s = Clamp(Digest[seed].low) % L
         /\ FromSeed(seed).vk = KeyOf(Mul(FromSeed(seed).s, Basepoint))
<1>1. Digest[seed].low \in 0 .. 4 * Scale - 1 /\ Digest[seed].prefix \in HashPrefixes
  BY SigningAssumption
<1>2. Clamp(Digest[seed].low) \in Int
  BY <1>1, ClampRange, PointFacts
<1>3. (Clamp(Digest[seed].low) % L) \in 0 .. L - 1
  <2> DEFINE c == Clamp(Digest[seed].low)
  <2>1. c \in Int
    BY <1>2
  <2> HIDE DEF c
  <2>2. c % L \in 0 .. L - 1
    BY <2>1, PointFacts
  <2>3. QED BY <2>2 DEF c
<1>4. KeyOf(Mul(Clamp(Digest[seed].low) % L, Basepoint)) \in Keys
  BY <1>3, KeyOfType
<1>5. QED BY <1>1, <1>3, <1>4 DEF FromSeed, SigningKeySet

LEMMA ZeroizedFacts ==
  /\ Zeroized \in SigningKeySet
  /\ Zeroized.vk = KeyOf(Mul(Zeroized.s, Basepoint))
<1>1. Mul(0, Basepoint) = 0
  BY PointFacts DEF Mul, Basepoint
<1>2. 0 \in 0 .. L - 1
  BY PointFacts
<1>3. KeyOf(0) \in Keys
  BY <1>1, <1>2, KeyOfType
<1>4. QED BY <1>1, <1>2, <1>3, SigningAssumption DEF Zeroized, DefaultVerificationKey, SigningKeySet
-----------------------------------------------------------------------------
LEMMA EightInvertible == (8 % L) # 0
<1>1. L \in Nat /\ L > 2 /\ (2 % L) = 2
  BY PointFacts
<1>2. 2 * 4 = 8 /\ 2 * 2 = 4
  OBVIOUS
<1>3. ((2 * 4) % L) = 0 => (2 % L) = 0 \/ (4 % L) = 0
  BY PrimeOrder
<1>4. ((2 * 2) % L) = 0 => (2 % L) = 0 \/ (2 % L) = 0
  BY PrimeOrder
<1>5. QED BY <1>1, <1>2, <1>3, <1>4

(* No multiple of the basepoint by a scalar that is not 0 is a torsion     *)
(* point, and no two scalars below L have one.                             *)
LEMMA MultipleIsTorsion ==
  ASSUME NEW a \in 0 .. L - 1
  PROVE  IsIdentity(MulByCofactor(Mul(a, Basepoint))) <=> a = 0
<1>1. a \in Int /\ L \in Nat /\ L > 2 /\ 8 * L \in Int /\ a * 8 \in Int /\ 8 \in Int
  BY PointFacts
<1>2. Cong(Mul(a, Basepoint), a * 8, 8 * L) /\ Mul(a, Basepoint) \in Int
  <2>1. Cong(8, 8, 8 * L)
    BY <1>1, CongRefl
  <2>2. Mul(a, 8) \in Points /\ Cong(Mul(a, 8), a * 8, 8 * L)
    BY <1>1, <2>1, MulCong
  <2>3. QED BY <2>2, PointFacts DEF Basepoint
<1>3. IsIdentity(MulByCofactor(Mul(a, Basepoint))) <=> ((a * 8) % L) = 0
  BY <1>1, <1>2, CofactorKills
<1>4. ASSUME ((a * 8) % L) = 0 PROVE a = 0
  <2>1. (a % L) = 0 \/ (8 % L) = 0
    BY <1>1, <1>4, PrimeOrder
  <2>2. a % L = a
    BY <1>1
  <2>3. (8 % L) # 0
    BY EightInvertible
  <2>4. QED BY <2>1, <2>2, <2>3
<1>5. ((0 * 8) % L) = 0
  BY <1>1
<1>6. QED BY <1>3, <1>4, <1>5

LEMMA SmallMultiplesDiffer ==
  ASSUME NEW a \in 0 .. L - 1, NEW b \in 0 .. L - 1,
         Mul(a, Basepoint) = Mul(b, Basepoint)
  PROVE  a = b
<1>1. a * 8 \in 0 .. 8 * L - 1 /\ b * 8 \in 0 .. 8 * L - 1
  BY PointFacts
<1>2. (a * 8) % (8 * L) = a * 8 /\ (b * 8) % (8 * L) = b * 8
  <2> DEFINE x == a * 8
             y == b * 8
             M == 8 * L
  <2>1. x \in 0 .. M - 1 /\ y \in 0 .. M - 1 /\ M \in Nat
    BY <1>1, PointFacts
  <2>2. x % M = x /\ y % M = y
    <3> HIDE DEF x, y, M
    <3>1. QED BY <2>1
  <2>3. QED BY <2>2
<1>3. a * 8 = b * 8
  BY <1>2 DEF Mul, Basepoint
<1>4. QED BY <1>3, PointFacts

(* What sign computes satisfies the equations of both verification modes.  *)
LEMMA SignatureEquations ==
  ASSUME NEW r \in 0 .. L - 1, NEW k \in 0 .. L - 1, NEW a \in 0 .. L - 1
  PROVE  LET A == Mul(a, Basepoint)
             R == Mul(r, Basepoint)
             sc == (r + k * a) % L
         IN  /\ sc \in 0 .. L - 1 /\ A \in Points /\ R \in Points
             /\ Add(Mul(k, Neg(A)), Mul(sc, Basepoint)) = R
             /\ MulByCofactor(Mul(sc, Basepoint)) =
                  Add(MulByCofactor(R), MulByCofactor(Mul(k, A)))
<1> DEFINE M == 8 * L
           A == Mul(a, Basepoint)
           R == Mul(r, Basepoint)
           e == r + k * a
           sc == e % L
           S == Mul(sc, Basepoint)
<1>1. /\ L \in Nat /\ L > 2 /\ L > 0 /\ M \in Int /\ M \in Nat /\ M > 0
      /\ r \in Int /\ k \in Int /\ a \in Int /\ k * a \in Int /\ e \in Int
  BY PointFacts
<1>2. sc \in 0 .. L - 1 /\ \E q \in Int : e = q * L + sc
  <2> HIDE DEF e
  <2>1. (e % L) \in 0 .. L - 1 /\ \E q \in Int : e = q * L + (e % L)
    BY <1>1, QuotientRemainder
  <2>2. QED BY <2>1
<1>3. PICK q \in Int : e = q * L + sc
  BY <1>2
<1>4. Cong(8, 8, M) /\ 8 \in Int
  BY <1>1, CongRefl
<1>5. /\ A \in Points /\ A \in Int /\ Cong(A, a * 8, M)
      /\ R \in Points /\ R \in Int /\ Cong(R, r * 8, M)
  BY <1>1, <1>4, MulCong, PointFacts DEF Basepoint
<1>6. S \in Points /\ S \in Int /\ Cong(S, e * 8, M)
  <2>1. sc \in Int
    BY <1>2, <1>1
  <2>2. S \in Points /\ Cong(S, sc * 8, M)
    BY <1>4, <2>1, MulCong DEF Basepoint
  <2>3. Cong(sc * 8, e * 8, M)
    <3>1. sc * 8 = e * 8 + (-q) * M
      <4> HIDE DEF e, sc
      <4>1. QED BY <1>1, <1>3, <2>1
    <3>2. QED BY <3>1 DEF Cong
  <2>4. S \in Int /\ sc * 8 \in Int /\ e * 8 \in Int
    <3> HIDE DEF e, sc, S, M
    <3>1. QED BY <1>1, <2>1, <2>2, PointFacts
  <2>5. Cong(S, e * 8, M)
    <3> HIDE DEF e, sc, S, M
    <3>1. QED BY <1>1, <2>2, <2>3, <2>4, CongTrans
  <2>6. QED BY <2>2, <2>4, <2>5
<1> DEFINE negA == Neg(A)
           kA == Mul(k, A)
           kNegA == Mul(k, negA)
<1>7. /\ negA \in Int /\ Cong(negA, -(a * 8), M)
      /\ kA \in Int /\ Cong(kA, k * (a * 8), M)
      /\ kNegA \in Int /\ Cong(kNegA, k * (-(a * 8)), M)
  <2>1. negA \in Points /\ Cong(negA, -(a * 8), M)
    BY <1>1, <1>5, NegCong
  <2>2. negA \in Int /\ -(a * 8) \in Int /\ a * 8 \in Int
    <3> HIDE DEF negA, M
    <3>1. QED BY <1>1, <2>1, PointFacts
  <2>3. kA \in Points /\ Cong(kA, k * (a * 8), M)
    <3> HIDE DEF A
    <3>1. QED BY <1>1, <1>5, <2>2, MulCong
  <2>4. kNegA \in Points /\ Cong(kNegA, k * (-(a * 8)), M)
    <3> HIDE DEF negA
    <3>1. QED BY <1>1, <2>1, <2>2, MulCong
  <2>5. QED BY <2>1, <2>2, <2>3, <2>4, PointFacts
<1>8. Add(kNegA, S) = R
  <2>1. k * (-(a * 8)) \in Int /\ e * 8 \in Int
    BY <1>1
  <2>2. Add(kNegA, S) \in Points /\ Cong(Add(kNegA, S), k * (-(a * 8)) + e * 8, M)
    <3> HIDE DEF kNegA, S, e
    <3>1. QED BY <1>6, <1>7, <2>1, AddCong
  <2>3. k * (-(a * 8)) + e * 8 = r * 8
    <3>1. k * (-(a * 8)) = -((k * a) * 8)
      BY <1>1
    <3>2. e * 8 = r * 8 + (k * a) * 8
      BY <1>1
    <3>3. QED BY <1>1, <3>1, <3>2
  <2>4. Cong(r * 8, R, M)
    <3>1. r * 8 \in Int
      BY <1>1
    <3>2. QED BY <1>1, <1>5, <3>1, CongSym
  <2>5. Cong(Add(kNegA, S), R, M)
    <3>1. r * 8 \in Int
      BY <1>1
    <3>2. Add(kNegA, S) \in Int
      BY <2>2, PointFacts
    <3> HIDE DEF kNegA, S, R, M, e
    <3>3. QED BY <1>1, <1>5, <2>2, <2>3, <2>4, <3>1, <3>2, CongTrans
  <2>6. Add(kNegA, S) \in 0 .. M - 1 /\ R \in 0 .. M - 1
    BY <1>5, <2>2 DEF Points
  <2> HIDE DEF kNegA, S, R, M
  <2>7. QED BY <1>1, <2>5, <2>6, CongEqual
<1> DEFINE cS == MulByCofactor(S)
           cR == MulByCofactor(R)
           ckA == MulByCofactor(kA)
<1>9. cS = Add(cR, ckA)
  <2>1. /\ r * 8 \in Int /\ e * 8 \in Int /\ k * (a * 8) \in Int
        /\ 8 * (r * 8) \in Int /\ 8 * (k * (a * 8)) \in Int /\ 8 * (e * 8) \in Int
    BY <1>1
  <2>2. /\ cS \in Points /\ Cong(cS, 8 * (e * 8), M)
        /\ cR \in Points /\ Cong(cR, 8 * (r * 8), M)
        /\ ckA \in Points /\ Cong(ckA, 8 * (k * (a * 8)), M)
    <3> HIDE DEF S, R, kA, e
    <3>1. QED BY <1>4, <1>5, <1>6, <1>7, <2>1, MulCong DEF MulByCofactor
  <2>3. cS \in Int /\ cR \in Int /\ ckA \in Int
    BY <2>2, PointFacts
  <2>4. /\ Add(cR, ckA) \in Points
        /\ Cong(Add(cR, ckA), 8 * (r * 8) + 8 * (k * (a * 8)), M)
    <3> HIDE DEF cR, ckA
    <3>1. QED BY <2>1, <2>2, <2>3, AddCong
  <2>5. 8 * (r * 8) + 8 * (k * (a * 8)) = 8 * (e * 8)
    <3>1. k * (a * 8) = (k * a) * 8 /\ e * 8 = r * 8 + (k * a) * 8
      BY <1>1
    <3>2. QED BY <1>1, <3>1
  <2>6. Cong(8 * (e * 8), cS, M)
    <3> HIDE DEF cS, e
    <3>1. QED BY <1>1, <2>1, <2>2, <2>3, CongSym
  <2>7. Cong(Add(cR, ckA), cS, M)
    <3>1. Add(cR, ckA) \in Int
      BY <2>4, PointFacts
    <3> HIDE DEF cS, cR, ckA, M, e
    <3>2. QED BY <1>1, <2>1, <2>3, <2>4, <2>5, <2>6, <3>1, CongTrans
  <2>8. Add(cR, ckA) \in 0 .. M - 1 /\ cS \in 0 .. M - 1
    BY <2>2, <2>4 DEF Points
  <2> HIDE DEF cS, cR, ckA, M
  <2>9. QED BY <1>1, <2>7, <2>8, CongEqual
<1>10. QED BY <1>2, <1>5, <1>8, <1>9
-----------------------------------------------------------------------------
LEMMA SigningInitInv == SigningInit => SigningInv
<1> SUFFICES ASSUME SigningInit PROVE SigningInv
  OBVIOUS
<1>1. PICK seed \in Seeds : sk = FromSeed(seed)
  BY DEF SigningInit
<1>2. DOMAIN nonces = {} /\ DOMAIN challenges = {} /\ signatures = {} /\ live = TRUE
  BY DEF SigningInit
<1>3. sk \in SigningKeySet /\ sk = FromSeed(sk.seed)
  BY <1>1, FromSeedFacts
<1>4. QED BY <1>2, <1>3 DEF SigningInv, SigningTypes, KeyInv, SignatureInv

LEMMA SignInv == SigningInv /\ Sign => SigningInv'
<1> SUFFICES ASSUME SigningInv, Sign PROVE SigningInv'
  OBVIOUS
<1>1. PICK msg \in Messages, r \in Nonces, k \in Challenges : SignWith(msg, r, k)
  BY DEF Sign
<1>2. UNCHANGED <<sk, live>>
  BY DEF Sign
<1> DEFINE Rb == Compress(Mul(r, Basepoint))
           ni == NonceInput(msg)
           ci == ChallengeInput(Rb, msg)
           new == [key |-> sk, live |-> live, msg |-> msg,
                   R |-> Rb, s |-> Response(r, k)]
<1>3. /\ r \in Hash(nonces, ni, Nonces) /\ k \in Hash(challenges, ci, Challenges)
      /\ nonces' = Remember(nonces, ni, r)
      /\ challenges' = Remember(challenges, ci, k)
      /\ signatures' = signatures \cup {new}
  BY <1>1 DEF SignWith
<1>4. /\ r \in 0 .. L - 1 /\ k \in 0 .. L - 1
      /\ sk \in SigningKeySet /\ sk.s \in 0 .. L - 1
      /\ sk.prefix \in HashPrefixes /\ sk.vk \in Keys /\ sk.vk.A_bytes \in Encodings
  BY HashAssumption DEF SigningInv, SigningTypes, SigningKeySet, Keys
<1>5. Rb \in Encodings
  BY <1>4, KeyOfType, PointFacts
<1>6. ni = <<sk.prefix, msg>> /\ ci = <<Rb, sk.vk.A_bytes, msg>>
  BY DEF NonceInput, ChallengeInput
<1>7. ni \in HashPrefixes \X Messages /\ ci \in Encodings \X Encodings \X Messages
  BY <1>4, <1>5, <1>6
<1>8. /\ DOMAIN nonces' = DOMAIN nonces \cup {ni} /\ nonces'[ni] = r
      /\ \A z \in DOMAIN nonces : nonces'[z] = nonces[z]
  <2> HIDE DEF ni
  <2>1. /\ DOMAIN Remember(nonces, ni, r) = DOMAIN nonces \cup {ni}
        /\ Remember(nonces, ni, r)[ni] = r
        /\ \A z \in DOMAIN nonces : Remember(nonces, ni, r)[z] = nonces[z]
    BY <1>3 DEF Remember, Hash
  <2>2. QED BY ONLY <1>3, <2>1
<1>9. /\ DOMAIN challenges' = DOMAIN challenges \cup {ci} /\ challenges'[ci] = k
      /\ \A z \in DOMAIN challenges : challenges'[z] = challenges[z]
  <2> HIDE DEF ci
  <2>1. /\ DOMAIN Remember(challenges, ci, k) = DOMAIN challenges \cup {ci}
        /\ Remember(challenges, ci, k)[ci] = k
        /\ \A z \in DOMAIN challenges :
             Remember(challenges, ci, k)[z] = challenges[z]
    BY <1>3 DEF Remember, Hash
  <2>2. QED BY ONLY <1>3, <2>1
<1>10. Response(r, k) \in 0 .. L - 1 /\ Response(r, k) = (r + k * sk.s) % L
  BY <1>4, SignatureEquations DEF Response
<1>11. SigningTypes'
  <2>1. sk' \in SigningKeySet /\ live' \in BOOLEAN
    BY <1>2 DEF SigningInv, SigningTypes
  <2>2. /\ DOMAIN nonces' \subseteq HashPrefixes \X Messages
        /\ \A x \in DOMAIN nonces' : nonces'[x] \in Nonces
    <3> HIDE DEF ni
    <3>1. QED BY <1>1, <1>7, <1>8 DEF SigningInv, SigningTypes
  <2>3. /\ DOMAIN challenges' \subseteq Encodings \X Encodings \X Messages
        /\ \A x \in DOMAIN challenges' : challenges'[x] \in Challenges
    <3> HIDE DEF ci
    <3>1. QED BY <1>1, <1>7, <1>9 DEF SigningInv, SigningTypes
  <2>4. new \in [key : SigningKeySet, live : BOOLEAN, msg : Messages,
                 R : Encodings, s : 0 .. L - 1]
    <3> HIDE DEF Rb
    <3>1. QED BY <1>4, <1>5, <1>10 DEF SigningInv, SigningTypes
  <2>5. signatures' \subseteq
          [key : SigningKeySet, live : BOOLEAN, msg : Messages,
           R : Encodings, s : 0 .. L - 1]
    <3> HIDE DEF new
    <3>1. QED BY <1>3, <2>4 DEF SigningInv, SigningTypes
  <2>6. QED BY <2>1, <2>2, <2>3, <2>5 DEF SigningTypes
<1>12. KeyInv'
  BY <1>2 DEF SigningInv, KeyInv
<1>13. ASSUME NEW x \in signatures PROVE Computed(x)'
  <2>1. Computed(x)
    BY DEF SigningInv, SignatureInv
  <2>2. /\ nonces'[<<x.key.prefix, x.msg>>] = nonces[<<x.key.prefix, x.msg>>]
        /\ <<x.key.prefix, x.msg>> \in DOMAIN nonces'
    BY <1>8, <2>1 DEF Computed
  <2>3. /\ challenges'[<<x.R, x.key.vk.A_bytes, x.msg>>]
               = challenges[<<x.R, x.key.vk.A_bytes, x.msg>>]
        /\ <<x.R, x.key.vk.A_bytes, x.msg>> \in DOMAIN challenges'
    BY <1>9, <2>1 DEF Computed
  <2>4. QED BY <2>1, <2>2, <2>3 DEF Computed
<1>14. ASSUME NEW x, x = new PROVE Computed(x)'
  <2>1. /\ x.key = sk /\ x.msg = msg /\ x.R = Rb /\ x.s = Response(r, k)
        /\ x.key.s = sk.s
    BY <1>14
  <2>2. <<x.key.prefix, x.msg>> = ni /\ <<x.R, x.key.vk.A_bytes, x.msg>> = ci
    BY <1>6, <2>1
  <2> HIDE DEF new, ni, ci
  <2>3. /\ nonces'[<<x.key.prefix, x.msg>>] = r
        /\ challenges'[<<x.R, x.key.vk.A_bytes, x.msg>>] = k
        /\ <<x.key.prefix, x.msg>> \in DOMAIN nonces'
        /\ <<x.R, x.key.vk.A_bytes, x.msg>> \in DOMAIN challenges'
    BY <1>8, <1>9, <2>2
  <2>4. x.R = Compress(Mul(r, Basepoint)) /\ x.s = (r + k * x.key.s) % L
    BY <1>10, <2>1
  <2>5. QED BY <2>3, <2>4 DEF Computed
<1>15. SignatureInv'
  <2>1. ASSUME NEW x \in signatures
        PROVE  /\ IF x.live THEN x.key = FromSeed(x.key.seed) ELSE x.key = Zeroized
               /\ Computed(x)'
    BY <1>13 DEF SigningInv, SignatureInv
  <2>2. ASSUME NEW x, x = new
        PROVE  /\ IF x.live THEN x.key = FromSeed(x.key.seed) ELSE x.key = Zeroized
               /\ Computed(x)'
    BY <1>14, <2>2 DEF SigningInv, KeyInv
  <2> HIDE DEF new
  <2>3. QED BY <1>3, <2>1, <2>2 DEF SignatureInv
<1>16. QED BY <1>11, <1>12, <1>15 DEF SigningInv

LEMMA SigningNextInv == SigningInv /\ [SigningNext]_signingVars => SigningInv'
<1> SUFFICES ASSUME SigningInv, [SigningNext]_signingVars PROVE SigningInv'
  OBVIOUS
<1>1. ASSUME UNCHANGED <<nonces, challenges, signatures>>, KeyInv',
             sk' \in SigningKeySet, live' \in BOOLEAN
      PROVE  SigningInv'
  <2>1. SigningTypes'
    BY <1>1 DEF SigningInv, SigningTypes
  <2>2. SignatureInv'
    BY <1>1 DEF SigningInv, SignatureInv, Computed
  <2>3. QED BY <1>1, <2>1, <2>2 DEF SigningInv
<1>2. CASE Load
  <2>1. PICK seed \in Seeds : sk' = FromSeed(seed)
    BY <1>2 DEF Load
  <2>2. sk' \in SigningKeySet /\ sk' = FromSeed(sk'.seed) /\ live' = TRUE
    BY <1>2, <2>1, FromSeedFacts DEF Load
  <2>3. KeyInv'
    BY <2>2 DEF KeyInv
  <2>4. QED BY <1>1, <1>2, <2>2, <2>3 DEF Load
<1>3. CASE Zeroize
  <2>1. sk' \in SigningKeySet /\ sk' = Zeroized /\ live' = FALSE
    BY <1>3, ZeroizedFacts DEF Zeroize
  <2>2. KeyInv'
    BY <2>1 DEF KeyInv
  <2>3. QED BY <1>1, <1>3, <2>1, <2>2 DEF Zeroize
<1>4. CASE Sign
  BY <1>4, SignInv
<1>5. CASE UNCHANGED signingVars
  <2>1. KeyInv' /\ sk' \in SigningKeySet /\ live' \in BOOLEAN
    BY <1>5 DEF signingVars, SigningInv, SigningTypes, KeyInv
  <2>2. QED BY <1>1, <1>5, <2>1 DEF signingVars
<1>6. QED BY <1>2, <1>3, <1>4, <1>5 DEF SigningNext

(* Every reachable state of the signer satisfies SigningInv: keys come from seeds *)
(* or from zeroize, signatures from the hash values that are remembered.   *)
THEOREM SigningInvariant == SigningSpec => []SigningInv
<1>1. QED BY SigningInitInv, SigningNextInv, PTL DEF SigningSpec
-----------------------------------------------------------------------------
(* From<SecretKey>, zeroize and sign keep every field of the key, the      *)
(* hash tables and the signatures within their types.                      *)
THEOREM SigningTypeOK == SigningSpec => []SigningTypes
<1>1. SigningInv => SigningTypes
  BY DEF SigningInv
<1>2. QED BY <1>1, SigningInvariant, PTL

(* A key from a seed or from zeroize: its scalar and its verification key. *)
LEMMA KeyFacts ==
  ASSUME NEW K, NEW fromSeed \in BOOLEAN, K \in SigningKeySet,
         IF fromSeed THEN K = FromSeed(K.seed) ELSE K = Zeroized
  PROVE  K.s \in 0 .. L - 1 /\ K.vk = KeyOf(Mul(K.s, Basepoint))
<1>1. K.s \in 0 .. L - 1 /\ K.seed \in Seeds
  BY DEF SigningKeySet
<1>2. CASE fromSeed
  BY <1>1, <1>2, FromSeedFacts
<1>3. CASE ~ fromSeed
  <2>1. K = Zeroized
    BY <1>3
  <2>2. QED BY <1>1, <2>1, ZeroizedFacts
<1>4. QED BY <1>1, <1>2, <1>3

(* A clamped scalar is 8 * m with 0 < m < L, so no multiple of L. *)
LEMMA ClampedNotZero ==
  ASSUME NEW seed \in Seeds
  PROVE  FromSeed(seed).s # 0
<1>1. PICK m \in 1 .. L - 1 : Clamp(Digest[seed].low) = 8 * m
  <2>1. Digest[seed].low \in 0 .. 4 * Scale - 1
    BY SigningAssumption
  <2>2. QED BY <2>1, ClampRange
<1>2. m \in Int /\ (m % L) # 0
  <2>1. m \in Int /\ 0 < m /\ m < L /\ L \in Nat
    BY PointFacts
  <2>2. QED BY <2>1
<1>3. ((8 * m) % L) # 0
  <2> SUFFICES ASSUME ((8 * m) % L) = 0 PROVE FALSE
    OBVIOUS
  <2>1. 8 \in Int /\ m \in Int
    BY <1>2
  <2>2. (8 % L) = 0 \/ (m % L) = 0
    BY ONLY <2>1, ((8 * m) % L) = 0, PrimeOrder
  <2>3. QED BY ONLY <1>2, <2>2, EightInvertible
<1>4. QED BY <1>1, <1>3, FromSeedFacts

(* The verification key of the key in hand is that of its scalar, and no   *)
(* seed, whatever SHA-512 makes of it, has a key in the torsion subgroup:  *)
(* the clamped scalar, reduced mod L in From<SecretKey>, is not zero.      *)
THEOREM KeysNeverTorsion == SigningSpec => []KeysMatch
<1>1. SigningInv => KeysMatch
  <2> SUFFICES ASSUME SigningInv PROVE KeysMatch
    OBVIOUS
  <2>1. sk.s \in 0 .. L - 1 /\ sk.vk = KeyOf(Mul(sk.s, Basepoint))
    BY KeyFacts DEF SigningInv, SigningTypes, KeyInv
  <2>2. ASSUME live
        PROVE  ~ IsIdentity(MulByCofactor(Decompress(sk.vk.A_bytes)))
    <3>1. sk.seed \in Seeds /\ sk = FromSeed(sk.seed)
      BY <2>2 DEF SigningInv, SigningTypes, KeyInv, SigningKeySet
    <3>2. sk.s # 0
      BY <3>1, ClampedNotZero
    <3>3. Decompress(sk.vk.A_bytes) = Mul(sk.s, Basepoint)
      BY <2>1 DEF KeyOf, Compress, Decompress
    <3>4. QED BY <2>1, <3>2, <3>3, MultipleIsTorsion
  <2>3. QED BY <2>1, <2>2 DEF KeysMatch
<1>2. QED BY <1>1, SigningInvariant, PTL

(* What SigningInv says of one signature. *)
LEMMA SignatureFacts ==
  ASSUME SigningInv, NEW x \in signatures
  PROVE  LET r == nonces[<<x.key.prefix, x.msg>>]
             k == challenges[<<x.R, x.key.vk.A_bytes, x.msg>>]
         IN  /\ r \in 0 .. L - 1 /\ k \in 0 .. L - 1
             /\ x.key.s \in 0 .. L - 1
             /\ x.key.vk = KeyOf(Mul(x.key.s, Basepoint))
             /\ x.R = Compress(Mul(r, Basepoint))
             /\ x.s = (r + k * x.key.s) % L
<1>1. Computed(x)
  BY DEF SigningInv, SignatureInv
<1>2. /\ nonces[<<x.key.prefix, x.msg>>] \in 0 .. L - 1
      /\ challenges[<<x.R, x.key.vk.A_bytes, x.msg>>] \in 0 .. L - 1
  BY <1>1, HashAssumption DEF Computed, SigningInv, SigningTypes
<1>3. /\ x.key \in SigningKeySet /\ x.live \in BOOLEAN
      /\ IF x.live THEN x.key = FromSeed(x.key.seed) ELSE x.key = Zeroized
  BY DEF SigningInv, SigningTypes, SignatureInv
<1>4. x.key.s \in 0 .. L - 1 /\ x.key.vk = KeyOf(Mul(x.key.s, Basepoint))
  BY <1>3, KeyFacts
<1>5. QED BY <1>1, <1>2, <1>4 DEF Computed

(* The invariant implies that every signature satisfies both equations.    *)
LEMMA InvVerifies == SigningInv => SignaturesVerify
<1> SUFFICES ASSUME SigningInv, NEW x \in signatures
             PROVE  /\ <<x.R, x.key.vk.A_bytes, x.msg>> \in DOMAIN challenges
                    /\ Valid(Request(x))
                    /\ x.R = Compress(Add(Mul(Request(x).h, x.key.vk.minus_A),
                                          Mul(x.s, Basepoint)))
  BY DEF SignaturesVerify
<1> DEFINE r == nonces[<<x.key.prefix, x.msg>>]
           k == challenges[<<x.R, x.key.vk.A_bytes, x.msg>>]
           a == x.key.s
           A == Mul(a, Basepoint)
           R == Mul(r, Basepoint)
           sc == (r + k * a) % L
<1>1. /\ r \in 0 .. L - 1 /\ k \in 0 .. L - 1 /\ a \in 0 .. L - 1
      /\ x.key.vk = KeyOf(A) /\ x.R = Compress(R) /\ x.s = sc
  BY SignatureFacts
<1>2. <<x.R, x.key.vk.A_bytes, x.msg>> \in DOMAIN challenges
  BY DEF SigningInv, SignatureInv, Computed
<1>3. /\ Request(x).h = k /\ Request(x).s = sc
      /\ Request(x).R = Compress(R) /\ Request(x).A = Compress(A)
      /\ x.key.vk.minus_A = Neg(A)
  <2> HIDE DEF k, sc, R, A
  <2>1. QED BY <1>1 DEF Request, KeyOf, k
<1> HIDE DEF r, k, a
<1>4. /\ sc \in 0 .. L - 1 /\ A \in Points /\ R \in Points
      /\ Add(Mul(k, Neg(A)), Mul(sc, Basepoint)) = R
      /\ MulByCofactor(Mul(sc, Basepoint)) =
           Add(MulByCofactor(R), MulByCofactor(Mul(k, A)))
  BY <1>1, SignatureEquations
<1> HIDE DEF sc, A, R
<1>5. sc < L
  BY <1>4, PointFacts
<1>6. Valid(Request(x))
  BY <1>3, <1>4, <1>5 DEF Valid, Equation, IsDecodable, Compress
<1>7. QED BY <1>1, <1>2, <1>3, <1>4, <1>6

(* sign's output passes verify's cofactored equation and the recomputation *)
(* of R of the legacy mode, under the key that goes with the signing key,  *)
(* for every outcome of the hashes and every order L.                      *)
THEOREM SignedVerifies == SigningSpec => []SignaturesVerify
BY InvVerifies, SigningInvariant, PTL

(* Signing is deterministic: keys that eq calls equal, because their seeds *)
(* are, give a message one signature as long as neither was zeroized.      *)
THEOREM SigningDeterministic == SigningSpec => []EqualKeysSignAlike
<1>1. SigningInv => EqualKeysSignAlike
  <2> SUFFICES ASSUME SigningInv, NEW x \in signatures, NEW y \in signatures,
                      x.live, y.live, x.key.seed = y.key.seed, x.msg = y.msg
               PROVE  x.R = y.R /\ x.s = y.s
    BY DEF EqualKeysSignAlike
  <2>1. x.key = y.key
    BY DEF SigningInv, SignatureInv
  <2>2. Computed(x) /\ Computed(y)
    BY DEF SigningInv, SignatureInv
  <2>3. x.R = y.R
    BY <2>1, <2>2 DEF Computed
  <2>4. QED BY <2>1, <2>2, <2>3 DEF Computed
<1>2. QED BY <1>1, SigningInvariant, PTL

(* Two signatures that share R under one verification key and have         *)
(* different challenges come from a collision of the nonce hash: two       *)
(* inputs (prefix, msg) with one value.                                    *)
THEOREM NonceReuseIsCollision == SigningSpec => []NonceReuseNeedsCollision
<1>1. SigningInv => NonceReuseNeedsCollision
  <2> SUFFICES ASSUME SigningInv, NEW x \in signatures, NEW y \in signatures,
                      x.key.vk = y.key.vk, x.R = y.R,
                      Request(x).h # Request(y).h
               PROVE  \E a, b \in DOMAIN nonces : a # b /\ nonces[a] = nonces[b]
    BY DEF NonceReuseNeedsCollision
  <2> DEFINE a == <<x.key.prefix, x.msg>>
             b == <<y.key.prefix, y.msg>>
  <2>1. /\ nonces[a] \in 0 .. L - 1 /\ x.R = Compress(Mul(nonces[a], Basepoint))
        /\ nonces[b] \in 0 .. L - 1 /\ y.R = Compress(Mul(nonces[b], Basepoint))
    BY SignatureFacts
  <2>2. a \in DOMAIN nonces /\ b \in DOMAIN nonces
    BY DEF SigningInv, SignatureInv, Computed
  <2>3. nonces[a] = nonces[b]
    <3> DEFINE u == nonces[a]
               v == nonces[b]
    <3>1. /\ u \in 0 .. L - 1 /\ x.R = Compress(Mul(u, Basepoint))
          /\ v \in 0 .. L - 1 /\ y.R = Compress(Mul(v, Basepoint))
      BY <2>1
    <3> HIDE DEF u, v
    <3>2. Mul(u, Basepoint) = Mul(v, Basepoint)
      <4>1. Compress(Mul(u, Basepoint)) = Compress(Mul(v, Basepoint))
        BY <3>1
      <4>2. \A P : Decompress(Compress(P)) = P
        BY DEF Compress, Decompress
      <4>3. QED BY ONLY <4>1, <4>2
    <3>3. u = v
      BY <3>1, <3>2, SmallMultiplesDiffer
    <3>4. QED BY <3>3 DEF u, v
  <2>4. a # b
    <3> SUFFICES ASSUME a = b PROVE FALSE
      OBVIOUS
    <3>1. x.msg = y.msg
      OBVIOUS
    <3>2. Request(x).h = Request(y).h
      BY <3>1 DEF Request
    <3>3. QED BY <3>2
  <2>5. QED BY <2>2, <2>3, <2>4
<1>2. QED BY <1>1, SigningInvariant, PTL

-----------------------------------------------------------------------------
(* L is odd, so a torsion point other than the identity is not a multiple  *)
(* of the basepoint, which is at a multiple of 8.                          *)
LEMMA OrderIsOdd ==
  \E m \in Nat : L = 2 * m + 1
<1>1. L \in Nat /\ L > 2 /\ L % 2 \in 0 .. 1
  BY PointFacts
<1>2. PICK m \in Int : L = 2 * m \/ L = 2 * m + 1
  BY <1>1
<1>3. ASSUME L = 2 * m PROVE FALSE
  <2>1. m \in 1 .. L - 1 /\ 2 \in 1 .. L - 1
    BY <1>1, <1>3
  <2>2. (2 * m) % L # 0
    BY <2>1, GroupAssumption
  <2>3. L % L = 0
    BY <1>1
  <2>4. QED BY <1>3, <2>2, <2>3
<1>4. L = 2 * m + 1 /\ m \in Nat
  BY <1>1, <1>2, <1>3
<1>5. QED BY <1>4

(* No reduction happens in the basepoint's own multiples below L.          *)
LEMMA SmallMultipleIs ==
  ASSUME NEW a \in 0 .. L - 1
  PROVE  Mul(a, Basepoint) = a * 8
<1> DEFINE x == a * 8
           M == 8 * L
<1>1. x \in 0 .. M - 1 /\ M \in Nat
  BY PointFacts
<1>2. x % M = x
  <2> HIDE DEF x, M
  <2>1. QED BY <1>1
<1>3. QED BY <1>2 DEF Mul, Basepoint

(* No multiple of the basepoint but 0 is in the legacy list.               *)
LEMMA MultiplesAvoidTorsion ==
  ASSUME NEW a \in 0 .. L - 1
  PROVE  /\ Mul(a, Basepoint) \notin {2 * L, L, 3 * L, 4 * L}
         /\ Mul(a, Basepoint) \notin LegacyLarge
<1>1. Mul(a, Basepoint) = a * 8 /\ L \in Nat /\ a \in Int
  BY SmallMultipleIs, PointFacts
<1>2. PICK m \in Nat : L = 2 * m + 1
  BY OrderIsOdd
<1>3. a * 8 \notin {2 * L, L, 3 * L, 4 * L}
  BY <1>1, <1>2
<1>4. (a * 8) % 8 = 0
  BY <1>1
<1>5. QED BY <1>1, <1>3, <1>4, LegacyOutsideSubgroup
-----------------------------------------------------------------------------
(* What a signed request is like.                                          *)
Honest(q) ==
  \E a, r \in 0 .. L - 1 :
    /\ q.A = Compress(Mul(a, Basepoint)) /\ q.R = Compress(Mul(r, Basepoint))
    /\ q.s \in 0 .. L - 1 /\ q.h \in 0 .. L - 1 /\ Valid(q)
    /\ q.R = Compress(Add(Mul(q.h, Neg(q.A.point)), Mul(q.s, Basepoint)))

(* Signing makes honest requests.                                          *)
LEMMA SignedIsHonest ==
  ASSUME SigningInv, NEW x \in signatures
  PROVE  /\ Honest(Request(x))
         /\ Request(x) \in [A : Encodings, R : Encodings, s : 0 .. L - 1, h : 0 .. L - 1]
<1> DEFINE r == nonces[<<x.key.prefix, x.msg>>]
           k == challenges[<<x.R, x.key.vk.A_bytes, x.msg>>]
           a == x.key.s
           A == Mul(a, Basepoint)
           R == Mul(r, Basepoint)
           sc == (r + k * a) % L
<1>1. /\ r \in 0 .. L - 1 /\ k \in 0 .. L - 1 /\ a \in 0 .. L - 1
      /\ x.key.vk = KeyOf(A) /\ x.R = Compress(R) /\ x.s = sc
  BY SignatureFacts
<1>2. Request(x) = [A |-> x.key.vk.A_bytes, R |-> x.R, s |-> x.s, h |-> k]
  BY DEF Request
<1> HIDE DEF r, k, a
<1>3. sc \in 0 .. L - 1 /\ A \in Points /\ R \in Points
  BY <1>1, SignatureEquations
<1>4. /\ Valid(Request(x))
      /\ x.R = Compress(Add(Mul(Request(x).h, x.key.vk.minus_A), Mul(x.s, Basepoint)))
  BY InvVerifies DEF SignaturesVerify
<1> HIDE DEF sc, A, R
<1>5. /\ x.key.vk.A_bytes = Compress(A) /\ x.key.vk.minus_A = Neg(A)
      /\ Compress(A).point = A /\ Compress(A) \in Encodings /\ Compress(R) \in Encodings
  <2>1. x.key.vk.A_bytes = Compress(A) /\ x.key.vk.minus_A = Neg(A)
    BY <1>1 DEF KeyOf
  <2>2. Compress(A).point = A
    BY DEF Compress
  <2>3. \A P \in Points : Compress(P) \in Encodings
    BY DEF Compress, Encodings
  <2>4. QED BY <1>3, <2>1, <2>2, <2>3
<1>6. Request(x) \in [A : Encodings, R : Encodings, s : 0 .. L - 1, h : 0 .. L - 1]
  BY <1>1, <1>2, <1>3, <1>5
<1>7. /\ Request(x).A = Compress(A) /\ Request(x).R = Compress(R)
      /\ Request(x).s = x.s /\ Request(x).s \in 0 .. L - 1 /\ Request(x).h \in 0 .. L - 1
      /\ Request(x).R = x.R /\ Neg(Request(x).A.point) = x.key.vk.minus_A
  BY <1>1, <1>2, <1>3, <1>5
<1>8. /\ Request(x).A = Compress(Mul(a, Basepoint)) /\ Request(x).R = Compress(Mul(r, Basepoint))
      /\ Request(x).R = Compress(Add(Mul(Request(x).h, Neg(Request(x).A.point)),
                                     Mul(Request(x).s, Basepoint)))
  BY <1>4, <1>7 DEF A, R
<1>9. Honest(Request(x))
  BY <1>1, <1>4, <1>7, <1>8 DEF Honest
<1>10. QED BY <1>6, <1>9
-----------------------------------------------------------------------------
(* The verifier before its first step. *)
VerifierFresh ==
  /\ key = "Unparsed" /\ minus_A = 0 /\ pc = "Idle" /\ split = NoSplit
  /\ s = 0 /\ neg_R = 0 /\ zebra = "Pending" /\ dalek = "Pending"

(* The inductive invariant: those of the parts; before the verifier has a  *)
(* request it has done nothing; its request is a signature in hand; and    *)
(* the strict mode had but one reason to reject it.                        *)
SystemInv ==
  /\ SigningInv /\ Inv
  /\ IF request = NoRequest THEN VerifierFresh
     ELSE /\ \E x \in signatures : request = Request(x)
          /\ dalek = "InvalidSignature" => request.R = Compress(0)

(* Initially, and by a step of any of the three kinds, SystemInv holds.    *)
LEMMA SystemInitInv == SystemInit => SystemInv
<1> SUFFICES ASSUME SystemInit PROVE SystemInv
  OBVIOUS
<1>1. SigningInit /\ request = NoRequest /\ Init
  BY DEF SystemInit
<1>2. SigningInv
  BY <1>1, SigningInitInv
<1>3. Inv
  BY <1>1, InitInv
<1>4. VerifierFresh
  BY <1>1 DEF Init, NoSplit, NoSplit, VerifierFresh
<1>5. QED BY <1>1, <1>2, <1>3, <1>4 DEF SystemInv

(* A verifier that has done nothing may be given any request. *)
FreshRequest ==
  /\ VerifierFresh
  /\ request \in [A : Encodings, R : Encodings, s : 0 .. L - 1, h : 0 .. L - 1]

LEMMA FreshStarts == FreshRequest => Inv
<1> SUFFICES ASSUME VerifierFresh,
                    request \in [A : Encodings, R : Encodings, s : 0 .. L - 1, h : 0 .. L - 1]
             PROVE  Init
  BY InitInv DEF FreshRequest
<1>1. QED BY RequestsAssumption DEF VerifierFresh, Init

LEMMA FreshStartsNext == FreshRequest' => Inv'
BY FreshStarts, PTL

(* The verifier keeps its request, and the strict mode rejects none that   *)
(* was signed, unless its R is the identity.                               *)
LEMMA DalekRejects ==
  ASSUME Inv, Next, Honest(request)
  PROVE  /\ request' = request
         /\ dalek' = "InvalidSignature" => dalek = "InvalidSignature" \/ request.R = Compress(0)
<1>1. PICK a \in 0 .. L - 1, r \in 0 .. L - 1 :
        /\ request.A = Compress(Mul(a, Basepoint)) /\ request.R = Compress(Mul(r, Basepoint))
        /\ request.s \in 0 .. L - 1 /\ request.h \in 0 .. L - 1
        /\ request.R = Compress(Add(Mul(request.h, Neg(request.A.point)), Mul(request.s, Basepoint)))
  BY DEF Honest
<1> DEFINE A == Mul(a, Basepoint)
           R == Mul(r, Basepoint)
<1>2. /\ A \notin {2 * L, L, 3 * L, 4 * L} /\ A \notin LegacyLarge
      /\ R \notin {2 * L, L, 3 * L, 4 * L} /\ R \notin LegacyLarge
      /\ A \in Points /\ R \in Points /\ A \in Int /\ R \in Int
  <2>1. /\ A \in Points /\ R \in Points
    BY KeyOfType
  <2>2. QED BY <2>1, MultiplesAvoidTorsion, PointFacts
<1> HIDE DEF A, R
<1>3. request.A = [point |-> A, canonical |-> TRUE] /\ request.R = [point |-> R, canonical |-> TRUE]
  BY <1>1 DEF Compress, A, R
<1>4. CASE ParseKey \/ DefaultKey
  BY <1>4 DEF ParseKey, DefaultKey
<1>5. CASE ZebraDecompose \/ ZebraScalar \/ ZebraPoint \/ ZebraCheck
  BY <1>5 DEF ZebraDecompose, ZebraScalar, ZebraPoint, ZebraCheck, ReturnZebra
<1>6. CASE DalekExclude
  <2>1. request.A # ZeroBytes
    BY <1>2, <1>3 DEF ZeroBytes, Compress
  <2>2. ASSUME request.R \in LegacyExcluded PROVE request.R = Compress(0)
    <3>1. R # -1
      BY <1>2, PointFacts DEF Points
    <3>2. /\ request.R # Undecodable
          /\ \A P : request.R # [point |-> P, canonical |-> FALSE]
      BY <1>3, <3>1 DEF Undecodable
    <3>3. PICK P \in {2 * L, 0, L, 3 * L, 4 * L} \cup LegacyLarge : request.R = Compress(P)
      BY <2>2, <3>2 DEF LegacyExcluded
    <3>4. P = R
      BY <1>3, <3>3 DEF Compress
    <3>5. P = 0
      BY <1>2, <3>3, <3>4
    <3>6. QED BY <3>3, <3>5 DEF Compress
  <2>3. QED BY <1>6, <2>1, <2>2 DEF DalekExclude, ReturnDalek
<1>7. CASE DalekScalar
  <2>1. IsCanonicalScalar(request.s)
    BY <1>1, PointFacts DEF IsCanonicalScalar
  <2>2. QED BY <1>7, <2>1 DEF DalekScalar
<1>8. CASE DalekCompare
  <2>1. s = request.s /\ minus_A = Neg(request.A.point)
    <3>1. pc = "DalekCompare"
      BY <1>8 DEF DalekCompare
    <3>2. CallInv
      BY DEF Inv
    <3>3. key = "Parsed" /\ s = request.s
      BY <3>1, <3>2 DEF CallInv
    <3>4. QED BY <3>2, <3>3 DEF CallInv, Neg, Neg
  <2>2. ExpectedR = request.R
    BY <1>1, <2>1 DEF ExpectedR, Compress, Add, Mul,
                      Basepoint
  <2>3. QED BY <1>8, <2>2 DEF DalekCompare, ReturnDalek
<1>9. QED BY <1>4, <1>5, <1>6, <1>7, <1>8 DEF Next

-----------------------------------------------------------------------------
(* Nothing signs, loads or zeroizes between the request and the verdicts.  *)
LEMMA SignStepInv == SystemInv /\ SignStep => SystemInv'
<1> SUFFICES ASSUME SystemInv, SignStep PROVE SystemInv'
  OBVIOUS
<1>1. request = NoRequest /\ SigningNext /\ UNCHANGED vars
  BY DEF SignStep
<1>2. SigningInv'
  BY <1>1, SigningNextInv DEF SystemInv
<1>3. Inv'
  <2>1. UNCHANGED vars
    BY <1>1 DEF vars, locals
  <2>2. QED BY <2>1, NextInv DEF SystemInv
<1>4. request' = NoRequest /\ VerifierFresh'
  BY <1>1 DEF vars, locals, VerifierFresh, SystemInv, NoSplit
<1>5. NoRequest' = NoRequest
  BY DEF NoRequest, Undecodable
<1>6. QED BY <1>2, <1>3, <1>4, <1>5 DEF SystemInv

(* The request is an honest one, and the verifier is fresh when it comes.  *)
LEMMA SubmitInv == SystemInv /\ Submit => SystemInv'
<1> SUFFICES ASSUME SystemInv, Submit PROVE SystemInv'
  OBVIOUS
<1>1. PICK x \in signatures : request' = Request(x)
  BY DEF Submit
<1>2. /\ request = NoRequest /\ UNCHANGED signingVars
      /\ UNCHANGED <<key, minus_A, pc, split, s, neg_R, zebra, dalek>>
  BY DEF Submit, locals
<1>3. SigningInv'
  BY <1>2, SigningNextInv DEF SystemInv
<1>4. /\ Honest(Request(x))
      /\ Request(x) \in [A : Encodings, R : Encodings, s : 0 .. L - 1, h : 0 .. L - 1]
  BY SignedIsHonest DEF SystemInv
<1>5. FreshRequest'
  <2>1. VerifierFresh'
    BY <1>2 DEF SystemInv, VerifierFresh, NoSplit
  <2>2. request' \in [A : Encodings, R : Encodings, s : 0 .. L - 1, h : 0 .. L - 1]
    BY <1>1, <1>4
  <2>3. QED BY <2>1, <2>2 DEF FreshRequest, Encodings, Undecodable, Points
<1>6. Inv'
  BY <1>5, FreshStartsNext
<1>7. x \in signatures' /\ request' = Request(x)'
  BY <1>1, <1>2 DEF signingVars, Request
<1>8. dalek' = "Pending"
  BY <1>2 DEF SystemInv, VerifierFresh
<1>9. \E y \in signatures' : request' = Request(y)'
  BY <1>7
<1>10. VerifierFresh'
  BY <1>5 DEF FreshRequest
<1>11. QED BY <1>3, <1>6, <1>8, <1>9, <1>10 DEF SystemInv

(* A verification keeps the request, whose signature stays in hand.        *)
LEMMA VerifyStepInv == SystemInv /\ VerifyStep => SystemInv'
<1> SUFFICES ASSUME SystemInv, VerifyStep PROVE SystemInv'
  OBVIOUS
<1>1. request # NoRequest /\ Next /\ UNCHANGED signingVars
  BY DEF VerifyStep
<1>2. SigningInv'
  BY <1>1, SigningNextInv DEF SystemInv
<1>3. Inv'
  BY <1>1, NextInv DEF SystemInv
<1>4. PICK x \in signatures : request = Request(x)
  BY <1>1 DEF SystemInv
<1>5. Honest(request)
  BY <1>4, SignedIsHonest DEF SystemInv
<1>6. /\ request' = request
      /\ dalek' = "InvalidSignature" => dalek = "InvalidSignature" \/ request.R = Compress(0)
  BY <1>1, <1>5, DalekRejects DEF SystemInv
<1>7. x \in signatures' /\ Request(x)' = Request(x)
  BY <1>1 DEF signingVars, Request
<1>8. \E y \in signatures' : request' = Request(y)'
  BY <1>4, <1>6, <1>7
<1>9. dalek' = "InvalidSignature" => request'.R = Compress(0)
  BY <1>1, <1>6 DEF SystemInv
<1>10. request' # NoRequest'
  BY <1>1, <1>6 DEF NoRequest, Undecodable
<1>11. Compress(0)' = Compress(0)
  BY DEF Compress
<1>12. QED BY <1>2, <1>3, <1>8, <1>9, <1>10, <1>11 DEF SystemInv

(* So every step keeps the invariant.                                      *)
LEMMA SystemNextInv ==
  SystemInv /\ [SignStep \/ Submit \/ VerifyStep]_<<signingVars, vars>> => SystemInv'
<1> SUFFICES ASSUME SystemInv, UNCHANGED <<signingVars, vars>> PROVE SystemInv'
  BY SignStepInv, SubmitInv, VerifyStepInv
<1>1. SigningInv'
  BY SigningNextInv DEF SystemInv
<1>2. Inv'
  <2>1. UNCHANGED vars
    OBVIOUS
  <2>2. QED BY <2>1, NextInv DEF SystemInv
<1>3. VerifierFresh' <=> VerifierFresh
  BY DEF vars, locals, VerifierFresh, NoSplit
<1>4. /\ request' = request /\ dalek' = dalek /\ signatures' = signatures
      /\ \A x : Request(x)' = Request(x)
  BY DEF vars, locals, signingVars, Request
<1>5. NoRequest' = NoRequest /\ Compress(0)' = Compress(0)
  BY DEF NoRequest, Undecodable, Compress
<1>6. QED BY <1>1, <1>2, <1>3, <1>4, <1>5 DEF SystemInv
-----------------------------------------------------------------------------
(* The invariant of the composition. *)
THEOREM SystemInvariant == SystemSpec => []SystemInv
<1>1. QED BY SystemInitInv, SystemNextInv, PTL DEF SystemSpec

(* No honest request is rejected by the verdict ZebraVerdict fixes.        *)
LEMMA SystemAccepts == SystemInv => HonestSignaturesAccepted
<1> SUFFICES ASSUME SystemInv, request # NoRequest
             PROVE  /\ key # "Malformed" /\ zebra # "InvalidSignature"
                    /\ dalek = "InvalidSignature" => request.R = Compress(0)
  BY DEF HonestSignaturesAccepted
<1>1. PICK x \in signatures : request = Request(x)
  BY DEF SystemInv
<1>2. Honest(request)
  BY <1>1, SignedIsHonest DEF SystemInv
<1>3. IsDecodable(request.A)
  <2>1. PICK a \in 0 .. L - 1 : request.A = Compress(Mul(a, Basepoint))
    BY <1>2 DEF Honest
  <2>2. Mul(a, Basepoint) \in Points
    BY KeyOfType
  <2>3. QED BY <2>1, <2>2 DEF Compress, IsDecodable, Points
<1>4. key # "Malformed"
  BY <1>3 DEF SystemInv, Inv, CallInv
<1>5. Criteria!Valid(request)
  <2>1. Valid(request)
    BY <1>2 DEF Honest
  <2>2. QED BY <2>1 DEF Valid, Criteria!Valid, IsDecodable, Criteria!IsDecodable,
            Points, Criteria!Points, Equation, Criteria!Equation,
            MulByCofactor, Criteria!MulByCofactor, Mul, Criteria!Mul,
            Add, Criteria!Add, Basepoint, Criteria!Basepoint
<1>6. zebra # "InvalidSignature"
  BY <1>5 DEF SystemInv, Inv, VerdictInv, ZebraVerdict
<1>7. QED BY <1>4, <1>6 DEF SystemInv

(* The default mode accepts every signature SigningKey::sign makes; the    *)
(* strict mode too, unless R is the identity.                              *)
THEOREM SignedIsAccepted == SystemSpec => []HonestSignaturesAccepted
BY SystemInvariant, SystemAccepts, PTL

(* The composition adds no behaviour to signing. *)
THEOREM SystemSigns == SystemSpec => SigningSpec
<1>1. SystemInit => SigningInit
  BY DEF SystemInit
<1>2. [SignStep \/ Submit \/ VerifyStep]_<<signingVars, vars>> => [SigningNext]_signingVars
  BY DEF SignStep, Submit, VerifyStep, vars, locals
<1>3. QED BY <1>1, <1>2, PTL DEF SystemSpec, SigningSpec
-----------------------------------------------------------------------------
(* Key documents. *)

(* What may be in hand. *)
HeldTypes ==
  SigningKeys \cup VerificationKeys \cup Foreign \cup Keypairs
    \cup {Error(e) : e \in Errors} \cup {Panic}

(* What a signing key k, and an encoded public key b, can be turned into.  *)
FormsOfSigningKey(k) ==
  {k, VerificationKey(k.A_bytes), SecretSlice(Raw(k.seed)),
   Spki("Ed25519", Raw(k.A_bytes)), PublicSlice(Raw(k.A_bytes))}
    \cup {Keypair(k.seed, b) : b \in {NoBytes, k.A_bytes}}
    \cup {Pkcs8("Ed25519", Wrapped(k.seed), b) : b \in {NoBytes, k.A_bytes}}
FormsOfKey(b) ==
  {VerificationKey(b), Spki("Ed25519", Raw(b)), PublicSlice(Raw(b))}

(* x may be in hand in a run that started from o.                          *)
Follows(x, o) ==
  \/ x.kind \in {"Error", "Panic"}
  \/ CASE o.kind = "SigningKey" -> x \in FormsOfSigningKey(o)
       [] o.kind = "VerificationKey" -> x \in FormsOfKey(o.A_bytes)
       [] o.kind = "Spki" -> x = o \/ x \in FormsOfKey(o.subject_public_key.bytes)
       [] o.kind = "PublicSlice" -> x = o \/ x \in FormsOfKey(o.slice.bytes)
       [] OTHER -> TRUE

(* The inductive invariant: what is in hand follows from the origin, and   *)
(* the last conversion did what the two properties about it say.           *)
DocumentInv ==
  DocumentTypes /\ Follows(held, origin) /\ MismatchRejected /\ OwnDocumentsAccepted

(* Each kind is one of the sets DocumentTypes lists. *)
LEMMA HeldKinds ==
  ASSUME NEW x \in HeldTypes
  PROVE  /\ x.kind = "SigningKey" =>
              \E b \in Bytes32 : x = SigningKey(b)
         /\ x.kind = "VerificationKey" => \E b \in Decodable : x = VerificationKey(b)
         /\ x.kind = "KeypairBytes" =>
              \E b \in Bytes32, c \in Bytes32 \cup {NoBytes} : x = Keypair(b, c)
         /\ x.kind = "Pkcs8" =>
              \E a \in Algorithms, y \in Slices, b \in Bytes32 \cup {NoBytes} : x = Pkcs8(a, y, b)
         /\ x.kind = "Spki" => \E a \in Algorithms, y \in Slices : x = Spki(a, y)
         /\ x.kind = "SecretSlice" => \E y \in Slices : x = SecretSlice(y)
         /\ x.kind = "PublicSlice" => \E y \in Slices : x = PublicSlice(y)
         /\ x.kind = "Garbage" => x = Garbage
         /\ x.kind \in {"SigningKey", "VerificationKey", "KeypairBytes", "Pkcs8", "Spki",
                        "SecretSlice", "PublicSlice", "Garbage", "Error", "Panic"}
BY DEF HeldTypes, SigningKeys, SigningKey, VerificationKeys, VerificationKey, Keypairs, Keypair,
       Foreign, Pkcs8, Spki, SecretSlice, PublicSlice, Garbage, Error, Panic

(* What a conversion makes of typed parts is typed. *)
LEMMA HeldMembers ==
  /\ \A b \in Bytes32 : SigningKey(b) \in HeldTypes
  /\ \A b \in Decodable : VerificationKey(b) \in HeldTypes
  /\ \A b \in Bytes32, c \in Bytes32 \cup {NoBytes} : Keypair(b, c) \in HeldTypes
  /\ \A a \in Algorithms, y \in Slices, b \in Bytes32 \cup {NoBytes} : Pkcs8(a, y, b) \in HeldTypes
  /\ \A a \in Algorithms, y \in Slices : Spki(a, y) \in HeldTypes
  /\ \A y \in Slices : SecretSlice(y) \in HeldTypes /\ PublicSlice(y) \in HeldTypes
  /\ \A e \in Errors : Error(e) \in HeldTypes
  /\ Panic \in HeldTypes
  /\ \A b \in Bytes32 : Raw(b) \in Slices /\ Wrapped(b) \in Slices
  /\ \A b \in Bytes32 : Public[b] \in Decodable /\ Public[b] \in Bytes32
  /\ \A b \in Decodable : b \in Bytes32
<1>1. /\ \A b \in Bytes32 : SigningKey(b) \in HeldTypes
      /\ \A b \in Decodable : VerificationKey(b) \in HeldTypes
  BY DEF HeldTypes, SigningKeys, VerificationKeys
<1>2. \A b \in Bytes32, c \in Bytes32 \cup {NoBytes} : Keypair(b, c) \in HeldTypes
  BY DEF HeldTypes, Keypairs
<1>3. \A a \in Algorithms, y \in Slices, b \in Bytes32 \cup {NoBytes} : Pkcs8(a, y, b) \in HeldTypes
  BY DEF HeldTypes, Foreign
<1>4. /\ \A a \in Algorithms, y \in Slices : Spki(a, y) \in HeldTypes
      /\ \A y \in Slices : SecretSlice(y) \in HeldTypes /\ PublicSlice(y) \in HeldTypes
  BY DEF HeldTypes, Foreign
<1>5. (\A e \in Errors : Error(e) \in HeldTypes) /\ Panic \in HeldTypes
  BY DEF HeldTypes
<1>6. \A b \in Bytes32 : Raw(b) \in Slices /\ Wrapped(b) \in Slices
  BY DEF Slices, Raw, Wrapped
<1>7. /\ \A b \in Bytes32 : Public[b] \in Decodable /\ Public[b] \in Bytes32
      /\ \A b \in Decodable : b \in Bytes32
  BY DocumentAssumption
<1>8. QED BY <1>1, <1>2, <1>3, <1>4, <1>5, <1>6, <1>7

(* A slice is raw, wrapped or of another length. *)
LEMMA SliceForms ==
  ASSUME NEW y \in Slices
  PROVE  \/ \E b \in Bytes32 : y = Raw(b)
         \/ \E b \in Bytes32 : y = Wrapped(b)
         \/ y = [form |-> "Other", bytes |-> NoBytes]
BY DEF Slices, Raw, Wrapped

(* What a step must establish when it turns x, in hand in a run from o, by *)
(* conversion m into y.                                                    *)
Kept(m, x, y, o) ==
  /\ y \in HeldTypes /\ Follows(y, o)
  /\ m \in {"from_pkcs8_der", "try_from_keypair"} /\ y.kind = "SigningKey"
       => x.public_key \in {NoBytes, y.A_bytes}
  /\ /\ o.kind \in {"SigningKey", "VerificationKey"}
     /\ <<m, x.kind>> \in
          {<<"try_from_slice", "SecretSlice">>, <<"from_pkcs8_der", "Pkcs8">>,
           <<"keypair_from_pkcs8_der", "Pkcs8">>, <<"vk_try_from_slice", "PublicSlice">>,
           <<"from_public_key_der", "Spki">>}
     => y.kind \notin {"Error", "Panic"}

(* What a run may start from. *)
Origins == SigningKeys \cup VerificationKeys \cup Foreign

(* A conversion with this result keeps the invariant. *)
LEMMA KeptIsEnough ==
  ASSUME NEW m, NEW y, Apply(m, y), DocumentTypes, Kept(m, held, y, origin)
  PROVE  DocumentInv'
BY DEF Apply, DocumentTypes, Kept, DocumentInv, HeldTypes, MismatchRejected, OwnDocumentsAccepted, Failed

(* The kinds of an origin. *)
LEMMA OriginKinds ==
  ASSUME NEW o \in Origins
  PROVE  /\ o \in HeldTypes
         /\ o.kind \in {"SigningKey", "VerificationKey", "Pkcs8", "Spki", "SecretSlice",
                        "PublicSlice", "Garbage"}
<1>1. o \in HeldTypes
  BY DEF Origins, HeldTypes
<1>2. QED BY <1>1 DEF Origins, SigningKeys, SigningKey, VerificationKeys, VerificationKey,
       Foreign, Pkcs8, Spki, SecretSlice, PublicSlice, Garbage

(* Origins of which only the types are tracked: foreign secret documents,  *)
(* whose key pair no property fixes.                                       *)
Loose(o) == o.kind \in {"Pkcs8", "SecretSlice", "Garbage"}

(* The encoded public key an origin names. *)
KeyBytes(o) ==
  CASE o.kind = "Spki" -> o.subject_public_key.bytes
    [] o.kind = "PublicSlice" -> o.slice.bytes
    [] OTHER -> o.A_bytes

(* What each kind in hand tells of the origin, *)
LEMMA FollowsKinds ==
  ASSUME NEW o \in Origins, NEW x \in HeldTypes, Follows(x, o), ~ Loose(o)
  PROVE  /\ x.kind = "SigningKey" => x = o
         /\ x.kind = "VerificationKey" => x.A_bytes = KeyBytes(o)
         /\ x.kind = "KeypairBytes" =>
              /\ o.kind = "SigningKey" /\ x.secret_key = o.seed
              /\ x.public_key \in {NoBytes, o.A_bytes}
         /\ x.kind = "Pkcs8" =>
              /\ o.kind = "SigningKey" /\ x.algorithm = "Ed25519" /\ x.private_key = Wrapped(o.seed)
              /\ x.public_key \in {NoBytes, o.A_bytes}
         /\ x.kind = "SecretSlice" => o.kind = "SigningKey" /\ x.slice = Raw(o.seed)
         /\ x.kind = "Spki" => x = o \/ x = Spki("Ed25519", Raw(KeyBytes(o)))
         /\ x.kind = "PublicSlice" => x = o \/ x = PublicSlice(Raw(KeyBytes(o)))
         /\ x.kind # "Garbage"
<1> USE DEF SigningKey, VerificationKey, Keypair, Pkcs8, Spki, SecretSlice, PublicSlice, Garbage,
            Error, Panic
<1>1. CASE o.kind = "SigningKey"
  <2>1. x.kind \in {"Error", "Panic"} \/ x \in FormsOfSigningKey(o)
    BY <1>1 DEF Follows
  <2>2. QED BY <1>1, <2>1 DEF FormsOfSigningKey, KeyBytes
<1>2. CASE o.kind = "VerificationKey"
  <2>1. x.kind \in {"Error", "Panic"} \/ x \in FormsOfKey(o.A_bytes)
    BY <1>2 DEF Follows
  <2>2. QED BY <1>2, <2>1 DEF FormsOfKey, KeyBytes
<1>3. CASE o.kind = "Spki"
  <2>1. x.kind \in {"Error", "Panic"} \/ x = o \/ x \in FormsOfKey(o.subject_public_key.bytes)
    BY <1>3 DEF Follows
  <2>2. QED BY <1>3, <2>1 DEF FormsOfKey, KeyBytes
<1>4. CASE o.kind = "PublicSlice"
  <2>1. x.kind \in {"Error", "Panic"} \/ x = o \/ x \in FormsOfKey(o.slice.bytes)
    BY <1>4 DEF Follows
  <2>2. QED BY <1>4, <2>1 DEF FormsOfKey, KeyBytes
<1>5. QED BY <1>1, <1>2, <1>3, <1>4, OriginKinds DEF Loose

(* and the converse: these results follow from the origin. *)
LEMMA FormsFollow ==
  ASSUME NEW o \in Origins, NEW y \in HeldTypes,
         \/ Loose(o)
         \/ y.kind \in {"Error", "Panic"}
         \/ o.kind = "SigningKey" /\ y \in FormsOfSigningKey(o)
         \/ y \in FormsOfKey(KeyBytes(o))
         \/ y = o /\ o.kind \in {"Spki", "PublicSlice"}
  PROVE  Follows(y, o)
<1>1. o.kind = "SigningKey" => FormsOfKey(KeyBytes(o)) \subseteq FormsOfSigningKey(o)
  BY DEF FormsOfKey, FormsOfSigningKey, KeyBytes
<1>2. CASE Loose(o)
  BY <1>2 DEF Loose, Follows
<1>3. CASE y.kind \in {"Error", "Panic"}
  BY <1>3 DEF Follows
<1>4. CASE o.kind = "SigningKey"
  <2>1. y.kind \in {"Error", "Panic"} \/ y \in FormsOfSigningKey(o)
    BY <1>1, <1>4 DEF Loose
  <2>2. QED BY <1>4, <2>1 DEF Follows
<1>5. CASE o.kind \in {"VerificationKey", "Spki", "PublicSlice"}
  BY <1>5 DEF Follows, KeyBytes, Loose
<1>6. QED BY <1>2, <1>4, <1>5, OriginKinds DEF Loose
-----------------------------------------------------------------------------
(* A signing key in hand is well formed, and the origin's. *)
LEMMA SigningKeyHeld ==
  ASSUME DocumentTypes, Follows(held, origin), held.kind = "SigningKey"
  PROVE  /\ held.seed \in Bytes32 /\ held.A_bytes = Public[held.seed]
         /\ held.A_bytes \in Decodable /\ held.A_bytes \in Bytes32
         /\ held \in HeldTypes /\ origin \in Origins
         /\ Loose(origin) \/ (held = origin /\ origin.kind = "SigningKey" /\ KeyBytes(origin) = held.A_bytes)
<1>1. held \in HeldTypes /\ origin \in Origins
  BY DEF DocumentTypes, HeldTypes, Origins
<1>2. PICK b \in Bytes32 : held = SigningKey(b)
  BY <1>1, HeldKinds
<1>3. held.seed = b /\ held.A_bytes = Public[b]
  BY <1>2 DEF SigningKey
<1>4. QED BY <1>1, <1>2, <1>3, FollowsKinds, HeldMembers DEF KeyBytes

(* The conversions of a signing key. *)
LEMMA SigningKeySteps ==
  ASSUME DocumentTypes, Follows(held, origin),
         ToBytes \/ ToKeypair \/ ToPkcs8 \/ ToPkcs8V1 \/ ToVerificationKey
  PROVE  DocumentInv'
<1>1. held.kind = "SigningKey"
  BY DEF ToBytes, ToKeypair, ToPkcs8, ToPkcs8V1, ToVerificationKey
<1>2. /\ held.seed \in Bytes32 /\ held.A_bytes = Public[held.seed]
      /\ held.A_bytes \in Decodable /\ held.A_bytes \in Bytes32
      /\ held \in HeldTypes /\ origin \in Origins
      /\ Loose(origin) \/ (held = origin /\ origin.kind = "SigningKey")
  BY <1>1, SigningKeyHeld
<1>3. PICK m, y :
        /\ Apply(m, y)
        /\ \/ y = SecretSlice(Raw(held.seed))
           \/ \E b \in {NoBytes, held.A_bytes} : y = Keypair(held.seed, b)
           \/ \E b \in {NoBytes, held.A_bytes} : y = Pkcs8("Ed25519", Wrapped(held.seed), b)
           \/ y = VerificationKey(held.A_bytes)
  BY DEF ToBytes, ToKeypair, ToPkcs8, ToPkcs8V1, ToVerificationKey
<1>4. y \in HeldTypes
  BY <1>2, <1>3, HeldMembers DEF Algorithms
<1>5. y \in FormsOfSigningKey(held)
  BY <1>3 DEF FormsOfSigningKey
<1>6. Follows(y, origin)
  BY <1>2, <1>4, <1>5, FormsFollow
<1>7. y.kind \in {"SecretSlice", "KeypairBytes", "Pkcs8", "VerificationKey"}
  BY <1>3 DEF SecretSlice, Keypair, Pkcs8, VerificationKey
<1>8. Kept(m, held, y, origin)
  BY <1>4, <1>6, <1>7 DEF Kept
<1>9. QED BY <1>3, <1>8, KeptIsEnough

(* An error is always allowed, except where a document of the library is   *)
(* read.                                                                   *)
LEMMA FailureKept ==
  ASSUME NEW m, NEW y, DocumentTypes, Follows(held, origin),
         y \in {Error(e) : e \in Errors} \cup {Panic},
         \/ Loose(origin) \/ origin.kind \in {"Spki", "PublicSlice"}
         \/ <<m, held.kind>> \notin
              {<<"try_from_slice", "SecretSlice">>, <<"from_pkcs8_der", "Pkcs8">>,
               <<"keypair_from_pkcs8_der", "Pkcs8">>, <<"vk_try_from_slice", "PublicSlice">>,
               <<"from_public_key_der", "Spki">>}
  PROVE  Kept(m, held, y, origin)
<1>1. y.kind \in {"Error", "Panic"} /\ y \in HeldTypes
  BY HeldMembers DEF Error, Panic
<1>2. Follows(y, origin)
  BY <1>1 DEF Follows
<1>3. QED BY <1>1, <1>2 DEF Kept, Loose

(* A signing key made from what is held is the one the run started from.   *)
LEMMA SigningKeyKept ==
  ASSUME NEW m, NEW b \in Bytes32, DocumentTypes, Follows(held, origin),
         Loose(origin) \/ (origin.kind = "SigningKey" /\ b = origin.seed),
         m \in {"from_pkcs8_der", "try_from_keypair"} => held.public_key \in {NoBytes, Public[b]}
  PROVE  Kept(m, held, SigningKey(b), origin)
<1>1. SigningKey(b) \in HeldTypes /\ SigningKey(b).kind = "SigningKey"
      /\ SigningKey(b).A_bytes = Public[b]
  BY HeldMembers DEF SigningKey
<1>2. origin \in Origins
  BY DEF DocumentTypes, Origins
<1>3. origin.kind = "SigningKey" => origin = SigningKey(origin.seed)
  <2> SUFFICES ASSUME origin.kind = "SigningKey" PROVE origin = SigningKey(origin.seed)
    OBVIOUS
  <2>1. PICK c \in Bytes32 : origin = SigningKey(c)
    BY <1>2, OriginKinds, HeldKinds
  <2>2. QED BY <2>1 DEF SigningKey
<1>4. Follows(SigningKey(b), origin)
  BY <1>1, <1>2, <1>3, FormsFollow DEF FormsOfSigningKey
<1>5. QED BY <1>1, <1>4 DEF Kept

(* A secret slice in hand is the origin's seed, unwrapped. *)
LEMMA SecretSliceHeld ==
  ASSUME DocumentTypes, Follows(held, origin), held.kind = "SecretSlice"
  PROVE  /\ held.slice \in Slices
         /\ Loose(origin) \/ (origin.kind = "SigningKey" /\ held.slice = Raw(origin.seed))
<1>1. held \in HeldTypes /\ origin \in Origins
  BY DEF DocumentTypes, HeldTypes, Origins
<1>2. PICK y \in Slices : held = SecretSlice(y)
  BY <1>1, HeldKinds
<1>3. held.slice = y
  BY <1>2 DEF SecretSlice
<1>4. QED BY <1>1, <1>3, FollowsKinds

(* The decoders of secrets: each refuses, or makes the origin's key.       *)
LEMMA TryFromSliceStep ==
  ASSUME DocumentTypes, Follows(held, origin), TryFromSlice
  PROVE  DocumentInv'
<1>1. held.kind = "SecretSlice" /\ Apply("try_from_slice", FromSlice(held.slice))
  BY DEF TryFromSlice
<1>2. /\ held.slice \in Slices
      /\ Loose(origin) \/ (origin.kind = "SigningKey" /\ held.slice = Raw(origin.seed))
  BY <1>1, SecretSliceHeld
<1>3. CASE held.slice.form = "Raw"
  <2>1. PICK b \in Bytes32 : held.slice = Raw(b)
    BY <1>2, <1>3, SliceForms DEF Raw, Wrapped
  <2>2. FromSlice(held.slice) = SigningKey(b)
    BY <2>1 DEF FromSlice, Raw
  <2>3. Loose(origin) \/ (origin.kind = "SigningKey" /\ b = origin.seed)
    BY <1>2, <2>1 DEF Raw
  <2>4. QED BY <1>1, <2>2, <2>3, SigningKeyKept, KeptIsEnough
<1>4. CASE held.slice.form # "Raw"
  <2>1. FromSlice(held.slice) = Error("InvalidSliceLength")
    BY <1>4 DEF FromSlice
  <2>2. Loose(origin)
    BY <1>2, <1>4 DEF Raw
  <2>3. QED BY <1>1, <2>1, <2>2, FailureKept, KeptIsEnough DEF Errors
<1>5. QED BY <1>3, <1>4

LEMMA FromDerStep ==
  ASSUME DocumentTypes, Follows(held, origin), FromDer
  PROVE  DocumentInv'
<1>1. Apply("from_der", FromDerOf(held))
  BY DEF FromDer
<1>2. CASE held.kind = "SecretSlice" /\ held.slice.form = "Raw"
  <2>1. /\ held.slice \in Slices
        /\ Loose(origin) \/ (origin.kind = "SigningKey" /\ held.slice = Raw(origin.seed))
    BY <1>2, SecretSliceHeld
  <2>2. PICK b \in Bytes32 : held.slice = Raw(b)
    BY <1>2, <2>1, SliceForms DEF Raw, Wrapped
  <2>3. FromDerOf(held) = SigningKey(b)
    BY <1>2, <2>2 DEF FromDerOf, Raw
  <2>4. Loose(origin) \/ (origin.kind = "SigningKey" /\ b = origin.seed)
    BY <2>1, <2>2 DEF Raw
  <2>5. QED BY <1>1, <2>3, <2>4, SigningKeyKept, KeptIsEnough
<1>3. CASE ~ (held.kind = "SecretSlice" /\ held.slice.form = "Raw")
  <2>1. FromDerOf(held) = Error("ParametersMalformed")
    BY <1>3 DEF FromDerOf
  <2>2. QED BY <1>1, <2>1, FailureKept, KeptIsEnough DEF Errors
<1>4. QED BY <1>2, <1>3

(* A document in hand names the origin's key pair. *)
LEMMA Pkcs8Held ==
  ASSUME DocumentTypes, Follows(held, origin), held.kind = "Pkcs8"
  PROVE  /\ held.private_key \in Slices /\ held.public_key \in Bytes32 \cup {NoBytes}
         /\ \/ Loose(origin)
            \/ /\ origin.kind = "SigningKey" /\ held.algorithm = "Ed25519"
               /\ held.private_key = Wrapped(origin.seed)
               /\ held.public_key \in {NoBytes, Public[origin.seed]}
<1>1. held \in HeldTypes /\ origin \in Origins
  BY DEF DocumentTypes, HeldTypes, Origins
<1>2. PICK a \in Algorithms, y \in Slices, b \in Bytes32 \cup {NoBytes} : held = Pkcs8(a, y, b)
  BY <1>1, HeldKinds
<1>3. held.private_key = y /\ held.public_key = b
  BY <1>2 DEF Pkcs8
<1>4. origin.kind = "SigningKey" => origin.A_bytes = Public[origin.seed]
  <2> SUFFICES ASSUME origin.kind = "SigningKey" PROVE origin.A_bytes = Public[origin.seed]
    OBVIOUS
  <2>1. PICK c \in Bytes32 : origin = SigningKey(c)
    BY <1>1, OriginKinds, HeldKinds
  <2>2. QED BY <2>1 DEF SigningKey
<1>5. QED BY <1>1, <1>3, <1>4, FollowsKinds

LEMMA TryFromPrivateKeyInfoStep ==
  ASSUME DocumentTypes, Follows(held, origin), TryFromPrivateKeyInfo
  PROVE  DocumentInv'
<1> DEFINE y == IF held.algorithm = "Ed25519" THEN FromSlice(held.private_key)
                ELSE Error("MalformedSecretKey")
<1>1. held.kind = "Pkcs8" /\ Apply("try_from_private_key_info", y)
  BY DEF TryFromPrivateKeyInfo
<1>2. /\ held.private_key \in Slices
      /\ Loose(origin) \/ held.private_key = Wrapped(origin.seed)
  BY <1>1, Pkcs8Held
<1>3. CASE held.algorithm = "Ed25519" /\ held.private_key.form = "Raw"
  <2>1. PICK b \in Bytes32 : held.private_key = Raw(b)
    BY <1>2, <1>3, SliceForms DEF Raw, Wrapped
  <2>2. y = SigningKey(b)
    BY <1>3, <2>1 DEF FromSlice, Raw
  <2>3. Loose(origin)
    BY <1>2, <2>1 DEF Raw, Wrapped
  <2>4. QED BY <1>1, <2>2, <2>3, SigningKeyKept, KeptIsEnough
<1>4. CASE ~ (held.algorithm = "Ed25519" /\ held.private_key.form = "Raw")
  <2>1. y \in {Error("InvalidSliceLength"), Error("MalformedSecretKey")}
    BY <1>4 DEF FromSlice
  <2>2. y \in {Error(e) : e \in Errors} \cup {Panic}
    BY <2>1 DEF Errors
  <2> HIDE DEF y
  <2>3. QED BY <1>1, <2>2, FailureKept, KeptIsEnough
<1>5. QED BY <1>3, <1>4

(* What the key pair parser returns of a document in hand.                 *)
LEMMA ParsedKeypair ==
  ASSUME DocumentTypes, Follows(held, origin)
  PROVE  \/ /\ ParseKeypair(held) = Error("KeyMalformed")
            /\ held.kind = "Pkcs8" => Loose(origin)
         \/ /\ held.kind = "Pkcs8"
            /\ \E b \in Bytes32 :
                 /\ held.private_key = Wrapped(b)
                 /\ ParseKeypair(held) = Keypair(b, held.public_key)
                 /\ Loose(origin) \/ (origin.kind = "SigningKey" /\ b = origin.seed)
<1>1. CASE held.kind = "Pkcs8" /\ held.algorithm = "Ed25519" /\ held.private_key.form = "Wrapped"
  <2>1. held.private_key \in Slices
    BY <1>1, Pkcs8Held
  <2>2. PICK b \in Bytes32 : held.private_key = Wrapped(b)
    BY <1>1, <2>1, SliceForms DEF Raw, Wrapped
  <2>3. ParseKeypair(held) = Keypair(b, held.public_key)
    BY <1>1, <2>2 DEF ParseKeypair, Wrapped
  <2>4. Loose(origin) \/ (origin.kind = "SigningKey" /\ b = origin.seed)
    BY <1>1, <2>2, Pkcs8Held DEF Wrapped
  <2>5. QED BY <1>1, <2>2, <2>3, <2>4
<1>2. CASE ~ (held.kind = "Pkcs8" /\ held.algorithm = "Ed25519" /\ held.private_key.form = "Wrapped")
  <2>1. ParseKeypair(held) = Error("KeyMalformed")
    BY <1>2 DEF ParseKeypair
  <2>2. held.kind = "Pkcs8" => Loose(origin)
    BY <1>2, Pkcs8Held DEF Wrapped
  <2>3. QED BY <2>1, <2>2
<1>3. QED BY <1>1, <1>2

LEMMA FromPkcs8Step ==
  ASSUME DocumentTypes, Follows(held, origin), FromPkcs8
  PROVE  DocumentInv'
<1>1. Apply("from_pkcs8_der", FromPkcs8Of(held))
  BY DEF FromPkcs8
<1>2. CASE /\ ParseKeypair(held) = Error("KeyMalformed")
           /\ held.kind = "Pkcs8" => Loose(origin)
  <2>1. FromPkcs8Of(held) = Panic
    BY <1>2 DEF FromPkcs8Of, Error
  <2>2. QED BY <1>1, <1>2, <2>1, FailureKept, KeptIsEnough
<1>3. ASSUME held.kind = "Pkcs8", NEW b \in Bytes32, held.private_key = Wrapped(b),
             ParseKeypair(held) = Keypair(b, held.public_key),
             Loose(origin) \/ (origin.kind = "SigningKey" /\ b = origin.seed)
      PROVE  DocumentInv'
  <2>1. /\ Keypair(b, held.public_key).kind # "Error"
        /\ Keypair(b, held.public_key).secret_key = b
        /\ Keypair(b, held.public_key).public_key = held.public_key
    BY DEF Keypair
  <2>2. CASE held.public_key \in {NoBytes, Public[b]}
    <3>1. FromPkcs8Of(held) = SigningKey(b)
      BY <1>3, <2>1, <2>2 DEF FromPkcs8Of
    <3>2. QED BY <1>1, <1>3, <2>2, <3>1, SigningKeyKept, KeptIsEnough
  <2>3. CASE held.public_key \notin {NoBytes, Public[b]}
    <3>1. FromPkcs8Of(held) = Error("KeyMalformed")
      BY <1>3, <2>1, <2>3 DEF FromPkcs8Of
    <3>2. Loose(origin)
      BY <1>3, <2>3, Pkcs8Held
    <3>3. QED BY <1>1, <3>1, <3>2, FailureKept, KeptIsEnough DEF Errors
  <2>4. QED BY <2>2, <2>3
<1>4. QED BY <1>2, <1>3, ParsedKeypair

LEMMA DecodeKeypairStep ==
  ASSUME DocumentTypes, Follows(held, origin), DecodeKeypair
  PROVE  DocumentInv'
<1>1. Apply("keypair_from_pkcs8_der", ParseKeypair(held))
  BY DEF DecodeKeypair
<1>2. CASE /\ ParseKeypair(held) = Error("KeyMalformed")
           /\ held.kind = "Pkcs8" => Loose(origin)
  BY <1>1, <1>2, FailureKept, KeptIsEnough DEF Errors
<1>3. ASSUME held.kind = "Pkcs8", NEW b \in Bytes32, held.private_key = Wrapped(b),
             ParseKeypair(held) = Keypair(b, held.public_key),
             Loose(origin) \/ (origin.kind = "SigningKey" /\ b = origin.seed)
      PROVE  DocumentInv'
  <2> DEFINE y == Keypair(b, held.public_key)
  <2>1. origin \in Origins /\ held \in HeldTypes
    BY DEF DocumentTypes, Origins, HeldTypes
  <2>2. held.public_key \in Bytes32 \cup {NoBytes} /\ y \in HeldTypes /\ y.kind = "KeypairBytes"
    BY <1>3, Pkcs8Held, HeldMembers DEF Keypair
  <2>3. Loose(origin) \/ held.public_key \in {NoBytes, origin.A_bytes}
    BY <1>3, <2>1, FollowsKinds
  <2>4. Loose(origin) \/ y \in FormsOfSigningKey(origin)
    BY <1>3, <2>3 DEF FormsOfSigningKey
  <2>5. Follows(y, origin)
    BY <1>3, <2>1, <2>2, <2>4, FormsFollow
  <2>6. Kept("keypair_from_pkcs8_der", held, y, origin)
    BY <2>2, <2>5 DEF Kept
  <2> HIDE DEF y
  <2>7. ParseKeypair(held) = y
    BY <1>3 DEF y
  <2>8. QED BY <1>1, <2>6, <2>7, KeptIsEnough
<1>4. QED BY <1>2, <1>3, ParsedKeypair

LEMMA TryFromKeypairStep ==
  ASSUME DocumentTypes, Follows(held, origin), TryFromKeypair
  PROVE  DocumentInv'
<1>1. held.kind = "KeypairBytes" /\ Apply("try_from_keypair", FromKeypairOf(held))
  BY DEF TryFromKeypair
<1>2. held \in HeldTypes /\ origin \in Origins
  BY DEF DocumentTypes, HeldTypes, Origins
<1>3. PICK b \in Bytes32, c \in Bytes32 \cup {NoBytes} : held = Keypair(b, c)
  BY <1>1, <1>2, HeldKinds
<1>4. held.secret_key = b /\ held.public_key = c
  BY <1>3 DEF Keypair
<1>5. Loose(origin) \/ (origin.kind = "SigningKey" /\ b = origin.seed)
  BY <1>1, <1>2, <1>4, FollowsKinds
<1>6. CASE c = NoBytes
  <2>1. FromKeypairOf(held) = SigningKey(b)
    BY <1>4, <1>6 DEF FromKeypairOf
  <2>2. QED BY <1>1, <1>4, <1>5, <1>6, <2>1, SigningKeyKept, KeptIsEnough
<1>7. CASE c # NoBytes
  <2>1. FromPublicDer(PublicSlice(Raw(held.public_key))).kind = "Error"
    BY DEF FromPublicDer, PublicSlice, Error
  <2>2. FromKeypairOf(held) = Error("KeyMalformed")
    BY <1>4, <1>7, <2>1 DEF FromKeypairOf
  <2>3. QED BY <1>1, <2>2, FailureKept, KeptIsEnough DEF Errors
<1>8. QED BY <1>6, <1>7
-----------------------------------------------------------------------------
(* An encoded public key in any of its forms is the one the run began with.*)
LEMMA KeyFormKept ==
  ASSUME NEW m, NEW y, DocumentTypes, Follows(held, origin),
         NEW b \in Bytes32, y \in FormsOfKey(b),
         y.kind = "VerificationKey" => b \in Decodable,
         Loose(origin) \/ b = KeyBytes(origin)
  PROVE  Kept(m, held, y, origin)
<1>1. origin \in Origins
  BY DEF DocumentTypes, Origins
<1>2. y \in HeldTypes /\ y.kind \in {"VerificationKey", "Spki", "PublicSlice"}
  BY HeldMembers DEF FormsOfKey, VerificationKey, Spki, PublicSlice, Algorithms
<1>3. Follows(y, origin)
  BY <1>1, <1>2, FormsFollow
<1>4. QED BY <1>2, <1>3 DEF Kept

(* The encoders and decoders of public keys. *)
LEMMA KeySteps ==
  ASSUME DocumentTypes, Follows(held, origin), ToSpki \/ KeyToBytes
  PROVE  DocumentInv'
<1>1. held \in HeldTypes /\ origin \in Origins
  BY DEF DocumentTypes, HeldTypes, Origins
<1>2. PICK m, y : Apply(m, y) /\ y \in {Spki("Ed25519", Raw(held.A_bytes)), PublicSlice(Raw(held.A_bytes))}
  BY DEF ToSpki, KeyToBytes
<1>3. CASE held.kind = "SigningKey"
  <2>1. held.A_bytes \in Bytes32 /\ (Loose(origin) \/ held.A_bytes = KeyBytes(origin))
    BY <1>3, SigningKeyHeld
  <2>2. y \in FormsOfKey(held.A_bytes) /\ y.kind # "VerificationKey"
    BY <1>2 DEF FormsOfKey, Spki, PublicSlice
  <2>3. QED BY <1>2, <2>1, <2>2, KeyFormKept, KeptIsEnough
<1>4. CASE held.kind = "VerificationKey"
  <2>1. PICK b \in Decodable : held = VerificationKey(b)
    BY <1>1, <1>4, HeldKinds
  <2>2. held.A_bytes \in Bytes32 /\ (Loose(origin) \/ held.A_bytes = KeyBytes(origin))
    BY <1>1, <1>4, <2>1, FollowsKinds, HeldMembers DEF VerificationKey
  <2>3. y \in FormsOfKey(held.A_bytes) /\ y.kind # "VerificationKey"
    BY <1>2 DEF FormsOfKey, Spki, PublicSlice
  <2>4. QED BY <1>2, <2>2, <2>3, KeyFormKept, KeptIsEnough
<1>5. QED BY <1>3, <1>4 DEF ToSpki, KeyToBytes

(* The encoded key of a run that starts from a key decodes. *)
LEMMA OwnKeyDecodes ==
  ASSUME NEW o \in Origins, ~ Loose(o), o.kind \notin {"Spki", "PublicSlice"}
  PROVE  o.A_bytes \in Decodable
<1>1. CASE o.kind = "SigningKey"
  <2>1. PICK c \in Bytes32 : o = SigningKey(c)
    BY <1>1, OriginKinds, HeldKinds
  <2>2. QED BY <2>1, HeldMembers DEF SigningKey
<1>2. CASE o.kind = "VerificationKey"
  <2>1. PICK c \in Decodable : o = VerificationKey(c)
    BY <1>2, OriginKinds, HeldKinds
  <2>2. QED BY <2>1 DEF VerificationKey
<1>3. QED BY <1>1, <1>2, OriginKinds DEF Loose

LEMMA FromSpkiStep ==
  ASSUME DocumentTypes, Follows(held, origin), FromSpki
  PROVE  DocumentInv'
<1>1. /\ held.kind \in {"Spki", "Pkcs8", "Garbage", "PublicSlice"}
      /\ Apply("from_public_key_der", FromPublicDer(held))
  BY DEF FromSpki
<1>2. held \in HeldTypes /\ origin \in Origins
  BY DEF DocumentTypes, HeldTypes, Origins
<1>3. CASE held.kind # "Spki"
  <2>1. FromPublicDer(held) = Error("Asn1")
    BY <1>3 DEF FromPublicDer
  <2>2. QED BY <1>1, <1>3, <2>1, FailureKept, KeptIsEnough DEF Errors
<1>4. CASE held.kind = "Spki"
  <2>1. PICK a \in Algorithms, x \in Slices : held = Spki(a, x)
    BY <1>2, <1>4, HeldKinds
  <2>2. held.algorithm = a /\ held.subject_public_key = x
    BY <2>1 DEF Spki
  <2>3. Loose(origin) \/ held = origin \/ held = Spki("Ed25519", Raw(KeyBytes(origin)))
    BY <1>2, <1>4, FollowsKinds
  <2>4. CASE a = "Ed25519" /\ x.form = "Raw" /\ x.bytes \in Decodable
    <3>1. FromPublicDer(held) = VerificationKey(x.bytes)
      BY <1>4, <2>2, <2>4 DEF FromPublicDer
    <3>2. Loose(origin) \/ x.bytes = KeyBytes(origin)
      BY <1>4, <2>2, <2>3 DEF KeyBytes, Spki, Raw
    <3>3. FromPublicDer(held) \in FormsOfKey(x.bytes)
      BY <3>1 DEF FormsOfKey
    <3>4. QED BY <1>1, <2>4, <3>2, <3>3, KeyFormKept, KeptIsEnough, HeldMembers
  <2>5. CASE ~ (a = "Ed25519" /\ x.form = "Raw" /\ x.bytes \in Decodable)
    <3>1. FromPublicDer(held) \in {Error("OidUnknown"), Error("KeyMalformed")}
      BY <1>4, <2>2, <2>5 DEF FromPublicDer
    <3>2. FromPublicDer(held) \in {Error(e) : e \in Errors} \cup {Panic}
      BY <3>1 DEF Errors
    <3>3. Loose(origin) \/ origin.kind \in {"Spki", "PublicSlice"}
      <4>1. SUFFICES ASSUME ~ Loose(origin), held # origin, origin.kind \notin {"Spki", "PublicSlice"}
                     PROVE  FALSE
        BY <1>4
      <4>2. a = "Ed25519" /\ x = Raw(KeyBytes(origin))
        BY <2>1, <2>3, <4>1 DEF Spki
      <4>3. KeyBytes(origin) = origin.A_bytes
        BY <4>1 DEF KeyBytes
      <4>4. origin.A_bytes \in Decodable
        BY <1>2, <4>1, OwnKeyDecodes
      <4>5. QED BY <2>5, <4>2, <4>3, <4>4 DEF Raw
    <3>4. QED BY <1>1, <3>2, <3>3, FailureKept, KeptIsEnough
  <2>6. QED BY <2>4, <2>5
<1>5. QED BY <1>3, <1>4

LEMMA KeyTryFromSliceStep ==
  ASSUME DocumentTypes, Follows(held, origin), KeyTryFromSlice
  PROVE  DocumentInv'
<1>1. held.kind = "PublicSlice" /\ Apply("vk_try_from_slice", KeyFromSlice(held.slice))
  BY DEF KeyTryFromSlice
<1>2. held \in HeldTypes /\ origin \in Origins
  BY DEF DocumentTypes, HeldTypes, Origins
<1>3. PICK x \in Slices : held = PublicSlice(x)
  BY <1>1, <1>2, HeldKinds
<1>4. held.slice = x
  BY <1>3 DEF PublicSlice
<1>5. Loose(origin) \/ held = origin \/ held = PublicSlice(Raw(KeyBytes(origin)))
  BY <1>1, <1>2, FollowsKinds
<1>6. CASE x.form = "Raw" /\ x.bytes \in Decodable
  <2>1. KeyFromSlice(held.slice) = VerificationKey(x.bytes)
    BY <1>4, <1>6 DEF KeyFromSlice
  <2>2. Loose(origin) \/ x.bytes = KeyBytes(origin)
    BY <1>1, <1>4, <1>5 DEF KeyBytes, PublicSlice, Raw
  <2>3. KeyFromSlice(held.slice) \in FormsOfKey(x.bytes)
    BY <2>1 DEF FormsOfKey
  <2>4. QED BY <1>1, <1>6, <2>2, <2>3, KeyFormKept, KeptIsEnough, HeldMembers
<1>7. CASE ~ (x.form = "Raw" /\ x.bytes \in Decodable)
  <2>1. KeyFromSlice(held.slice) \in {Error("InvalidSliceLength"), Error("MalformedPublicKey")}
    BY <1>4, <1>7 DEF KeyFromSlice
  <2>2. KeyFromSlice(held.slice) \in {Error(e) : e \in Errors} \cup {Panic}
    BY <2>1 DEF Errors
  <2>3. Loose(origin) \/ origin.kind \in {"Spki", "PublicSlice"}
    <3>1. SUFFICES ASSUME ~ Loose(origin), held # origin, origin.kind \notin {"Spki", "PublicSlice"}
                   PROVE  FALSE
      BY <1>1
    <3>2. x = Raw(KeyBytes(origin)) /\ KeyBytes(origin) = origin.A_bytes
      BY <1>3, <1>5, <3>1 DEF PublicSlice, KeyBytes
    <3>3. origin.A_bytes \in Decodable
      BY <1>2, <3>1, OwnKeyDecodes
    <3>4. QED BY <1>7, <3>2, <3>3 DEF Raw
  <2>4. QED BY <1>1, <2>2, <2>3, FailureKept, KeptIsEnough
<1>8. QED BY <1>6, <1>7
-----------------------------------------------------------------------------
(* The invariant holds at the start and is kept by every conversion.       *)
LEMMA DocumentInit == DocumentsInit => DocumentInv
<1> SUFFICES ASSUME DocumentsInit PROVE DocumentInv
  OBVIOUS
<1>1. DocumentTypes /\ origin \in Origins /\ held = origin /\ held \in HeldTypes
  BY DEF DocumentsInit, DocumentTypes, Origins, HeldTypes
<1>2. Follows(held, origin)
  <2>1. origin.kind = "SigningKey" => origin \in FormsOfSigningKey(origin)
    BY DEF FormsOfSigningKey
  <2>2. origin.kind = "VerificationKey" => origin \in FormsOfKey(KeyBytes(origin))
    <3> SUFFICES ASSUME origin.kind = "VerificationKey" PROVE origin \in FormsOfKey(origin.A_bytes)
      BY DEF KeyBytes
    <3>1. PICK c \in Decodable : origin = VerificationKey(c)
      BY <1>1, OriginKinds, HeldKinds
    <3>2. QED BY <3>1 DEF VerificationKey, FormsOfKey
  <2>3. QED BY <1>1, <2>1, <2>2, FormsFollow, OriginKinds DEF Loose
<1>3. MismatchRejected /\ OwnDocumentsAccepted
  BY DEF DocumentsInit, MismatchRejected, OwnDocumentsAccepted
<1>4. QED BY <1>1, <1>2, <1>3 DEF DocumentInv

LEMMA DocumentNext == DocumentInv /\ [DocumentsNext]_documentVars => DocumentInv'
<1> SUFFICES ASSUME DocumentInv, [DocumentsNext]_documentVars PROVE DocumentInv'
  OBVIOUS
<1>1. DocumentTypes /\ Follows(held, origin)
  BY DEF DocumentInv
<1>2. CASE UNCHANGED documentVars
  BY <1>2 DEF documentVars, DocumentInv, DocumentTypes, MismatchRejected, OwnDocumentsAccepted, Failed
<1>3. CASE DocumentsNext
  BY <1>1, <1>3, SigningKeySteps, TryFromSliceStep, TryFromPrivateKeyInfoStep, FromDerStep,
     FromPkcs8Step, DecodeKeypairStep, TryFromKeypairStep, KeySteps, FromSpkiStep,
     KeyTryFromSliceStep DEF DocumentsNext
<1>4. QED BY <1>2, <1>3

(* In every run of conversions, whatever the keys, byte strings and        *)
(* documents, the inductive invariant holds.                               *)
THEOREM DocumentInvariance == DocumentsSpec => []DocumentInv
BY DocumentInit, DocumentNext, PTL DEF DocumentsSpec

(* What conversions return is a key, a document or an error. *)
THEOREM DocumentsTyped == DocumentsSpec => []DocumentTypes
<1>1. DocumentInv => DocumentTypes
  BY DEF DocumentInv
<1>2. QED BY <1>1, DocumentInvariance, PTL

(* The invariant fixes the keys. *)
LEMMA FollowsSurvives == DocumentInv => KeysSurvive
<1> SUFFICES ASSUME DocumentInv PROVE KeysSurvive
  OBVIOUS
<1>1. held \in HeldTypes /\ origin \in Origins /\ Follows(held, origin)
  BY DEF DocumentInv, DocumentTypes, HeldTypes, Origins
<1>2. origin.kind = "SigningKey" /\ held.kind = "SigningKey" => held = origin
  BY <1>1, FollowsKinds DEF Loose
<1>3. ASSUME held.kind = "VerificationKey", ~ Loose(origin)
      PROVE  /\ held.A_bytes = KeyBytes(origin)
             /\ origin.kind = "VerificationKey" => held = origin
  <2>1. held.A_bytes = KeyBytes(origin)
    BY <1>1, <1>3, FollowsKinds
  <2>2. ASSUME origin.kind = "VerificationKey" PROVE held = origin
    <3>1. PICK b \in Decodable : held = VerificationKey(b)
      BY <1>1, <1>3, HeldKinds
    <3>2. PICK c \in Decodable : origin = VerificationKey(c)
      BY <1>1, <2>2, OriginKinds, HeldKinds
    <3>3. QED BY <2>1, <2>2, <3>1, <3>2 DEF KeyBytes, VerificationKey
  <2>3. QED BY <2>1, <2>2
<1>4. QED BY <1>1, <1>2, <1>3, OriginKinds DEF KeysSurvive, KeyBytes, Loose

(* Every chain of to_bytes, keypair, to_pkcs8_der, from_pkcs8_der and the   *)
(* other conversions keeps the key and the bytes of the public key.        *)
THEOREM KeysAreKept == DocumentsSpec => []KeysSurvive
BY FollowsSurvives, DocumentInvariance, PTL

(* from_pkcs8_der and TryFrom<&KeypairBytes> return no key for a document  *)
(* that names another public key.                                          *)
THEOREM MismatchesRejected == DocumentsSpec => []MismatchRejected
<1>1. DocumentInv => MismatchRejected
  BY DEF DocumentInv
<1>2. QED BY <1>1, DocumentInvariance, PTL

(* The library reads back every document it writes. *)
THEOREM OwnDocumentsRead == DocumentsSpec => []OwnDocumentsAccepted
<1>1. DocumentInv => OwnDocumentsAccepted
  BY DEF DocumentInv
<1>2. QED BY <1>1, DocumentInvariance, PTL
=============================================================================

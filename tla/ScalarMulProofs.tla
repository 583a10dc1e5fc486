-------------------------- MODULE ScalarMulProofs --------------------------
(***************************************************************************)
(* The scalar multiplications, proved: whatever the method, the scalars,   *)
(* the points and the build, every digit has an entry in its table or a    *)
(* bucket, the accumulator follows Horner's rule, and the answer is one    *)
(* the call allows.                                                        *)
(*                                                                         *)
(* The sums of weighed points are linear in the weights; a column of       *)
(* tables or buckets is such a sum with the digits of a place as weights;  *)
(* and what is left of a scalar at a place is 2^w times what is left of it *)
(* at the next, plus the digit.  The inductive invariant ScalarMulInv says *)
(* that the accumulator is the sum weighed by what is left above the place *)
(* the loop is at; a basepoint table's two passes sum the odd and the even *)
(* places instead.                                                         *)
(***************************************************************************)
EXTENDS ScalarMul, EdwardsGroupProofs
-----------------------------------------------------------------------------
(* The tables hold the multiples their loops expect.                       *)
LEMMA OddMultiplesAre ==
  ASSUME NEW P \in Points, NEW n \in Nat, n >= 2
  PROVE  OddMultiples(P, n) = [k \in 0 .. Pow2[n - 2] - 1 |-> Mul(2 * k + 1, P)]
<1> DEFINE N == Pow2[n - 2] - 1
           D == 0 .. N
           Body(f) == [k \in D |-> IF k = 0 THEN P ELSE Add(Mul(2, P), f[k - 1])]
           g == [k \in D |-> Mul(2 * k + 1, P)]
           A == CHOOSE f : f = Body(f)
<1>1. ASSUME NEW k \in Nat
      PROVE  Mul(2 * (k + 1) + 1, P) = Add(Mul(2, P), Mul(2 * k + 1, P))
  <2>1. 2 * k + 1 \in Int /\ 2 + (2 * k + 1) = 2 * (k + 1) + 1
    OBVIOUS
  <2>2. QED BY <2>1, MulAdd
<1>2. Mul(2 * 0 + 1, P) = P
  BY MulOne
<1>3. N \in Int
  <2>1. n - 2 \in Nat
    OBVIOUS
  <2>2. QED BY <2>1, Pow2Def
<1> HIDE DEF N
<1>4. g = Body(g)
  <2>1. ASSUME NEW k \in D PROVE g[k] = Body(g)[k]
    <3>1. CASE k = 0
      BY <1>2, <3>1
    <3>2. CASE k # 0
      <4>1. k - 1 \in Nat /\ k - 1 \in D /\ (k - 1) + 1 = k
        BY <1>3, <3>2
      <4>2. Mul(2 * k + 1, P) = Add(Mul(2, P), Mul(2 * (k - 1) + 1, P))
        BY <1>1, <4>1
      <4>3. QED BY <3>2, <4>1, <4>2
    <3>3. QED BY <3>1, <3>2
  <2>2. QED BY <2>1
<1>5. A = Body(A)
  <2> HIDE DEF Body, g
  <2>1. QED BY <1>4
<1>6. OddMultiples(P, n) = A
  BY DEF OddMultiples, N
<1> HIDE DEF A
<1> DEFINE T == {k \in Nat : k \in D => A[k] = Mul(2 * k + 1, P)}
<1>7. 0 \in T
  BY <1>2, <1>5
<1>8. ASSUME NEW k \in Nat, k \in T PROVE k + 1 \in T
  <2>1. CASE k + 1 \in D
    <3>1. k \in D /\ (k + 1) - 1 = k /\ k + 1 # 0
      BY <1>3, <2>1
    <3>2. A[k + 1] = Add(Mul(2, P), A[k])
      BY <1>5, <2>1, <3>1
    <3>3. QED BY <1>1, <1>8, <3>1, <3>2
  <2>2. CASE k + 1 \notin D
    BY <2>2
  <2>3. QED BY <2>1, <2>2
<1>9. Nat \subseteq T
  <2> HIDE DEF T
  <2>1. QED BY <1>7, <1>8, SetInduction
<1>10. \A k \in D : A[k] = Mul(2 * k + 1, P)
  BY <1>9
<1>11. A = [k \in D |-> A[k]]
  BY <1>5
<1>12. QED BY <1>6, <1>10, <1>11 DEF N

LEMMA MultiplesAre ==
  ASSUME NEW P \in Points, NEW n \in Nat, n >= 1
  PROVE  Multiples(P, n) = [k \in 1 .. Pow2[n - 1] |-> Mul(k, P)]
<1> DEFINE N == Pow2[n - 1]
           D == 1 .. N
           Body(f) == [k \in D |-> IF k = 1 THEN P ELSE Add(P, f[k - 1])]
           g == [k \in D |-> Mul(k, P)]
           A == CHOOSE f : f = Body(f)
<1>1. ASSUME NEW k \in Nat
      PROVE  Mul(k + 1, P) = Add(P, Mul(k, P))
  <2>1. Add(Mul(1, P), Mul(k, P)) = Mul(1 + k, P) /\ 1 + k = k + 1
    BY MulAdd
  <2>2. QED BY <2>1, MulOne
<1>2. Mul(1, P) = P
  BY MulOne
<1>3. N \in Int
  BY HalfPower
<1> HIDE DEF N
<1>4. g = Body(g)
  <2>1. ASSUME NEW k \in D PROVE g[k] = Body(g)[k]
    <3>1. CASE k = 1
      BY <1>2, <3>1
    <3>2. CASE k # 1
      <4>1. k - 1 \in Nat /\ k - 1 \in D /\ (k - 1) + 1 = k
        BY <1>3, <3>2
      <4>2. Mul(k, P) = Add(P, Mul(k - 1, P))
        BY <1>1, <4>1
      <4>3. QED BY <3>2, <4>1, <4>2
    <3>3. QED BY <3>1, <3>2
  <2>2. QED BY <2>1
<1>5. A = Body(A)
  <2> HIDE DEF Body, g
  <2>1. QED BY <1>4
<1>6. Multiples(P, n) = A
  BY DEF Multiples, N
<1> HIDE DEF A
<1> DEFINE T == {k \in Nat : k \in D => A[k] = Mul(k, P)}
<1>7. 0 \in T
  OBVIOUS
<1>8. ASSUME NEW k \in Nat, k \in T PROVE k + 1 \in T
  <2>1. CASE k + 1 \in D /\ k # 0
    <3>1. k \in D /\ (k + 1) - 1 = k /\ k + 1 # 1
      BY <1>3, <2>1
    <3>2. A[k + 1] = Add(P, A[k])
      BY <1>5, <2>1, <3>1
    <3>3. QED BY <1>1, <1>8, <3>1, <3>2
  <2>2. CASE k + 1 \in D /\ k = 0
    BY <1>2, <1>5, <2>2
  <2>3. CASE k + 1 \notin D
    BY <2>3
  <2>4. QED BY <2>1, <2>2, <2>3
<1>9. Nat \subseteq T
  <2> HIDE DEF T
  <2>1. QED BY <1>7, <1>8, SetInduction
<1>10. \A k \in D : A[k] = Mul(k, P)
  BY <1>9
<1>11. A = [k \in D |-> A[k]]
  BY <1>5
<1>12. QED BY <1>6, <1>10, <1>11 DEF N

LEMMA BaseTablesAre ==
  ASSUME NEW P \in Points, NEW n \in Nat
  PROVE  BaseTables(P, n) =
           [k \in 0 .. RadixBits \div 8 - 1 |-> Multiples(Mul(Pow2[2 * n * k], P), n)]
<1> DEFINE N == RadixBits \div 8 - 1
           D == 0 .. N
           Body(f) == [k \in D |-> IF k = 0 THEN P ELSE MulByPow2(n + n, f[k - 1])]
           g == [k \in D |-> Mul(Pow2[2 * n * k], P)]
           A == CHOOSE f : f = Body(f)
<1>1. ASSUME NEW k \in Nat
      PROVE  Mul(Pow2[2 * n * (k + 1)], P) = MulByPow2(n + n, Mul(Pow2[2 * n * k], P))
  <2>1. 2 * n * k \in Nat /\ n + n \in Nat /\ 2 * n * (k + 1) = (n + n) + 2 * n * k
    OBVIOUS
  <2> DEFINE a == 2 * n * k
             b == n + n
  <2>2. a \in Nat /\ b \in Nat /\ 2 * n * (k + 1) = b + a
    BY <2>1
  <2> HIDE DEF a, b
  <2>3. Pow2[b + a] = Pow2[b] * Pow2[a]
    BY <2>2, Pow2Sum
  <2>4. Pow2[b] \in Int /\ Pow2[a] \in Int
    BY <2>2, Pow2Def
  <2>5. Mul(Pow2[b], Mul(Pow2[a], P)) = Mul(Pow2[b] * Pow2[a], P)
    BY <2>4, MulMul
  <2>6. QED BY <2>2, <2>3, <2>5 DEF MulByPow2, a, b
<1>2. Mul(Pow2[2 * n * 0], P) = P
  <2>1. 2 * n * 0 = 0
    OBVIOUS
  <2>2. QED BY <2>1, MulOne, Pow2Def
<1>3. N \in Int
  BY WindowAssumption
<1> HIDE DEF N
<1>4. g = Body(g)
  <2>1. ASSUME NEW k \in D PROVE g[k] = Body(g)[k]
    <3>1. CASE k = 0
      BY <1>2, <3>1
    <3>2. CASE k # 0
      <4>1. k - 1 \in Nat /\ k - 1 \in D /\ (k - 1) + 1 = k
        BY <1>3, <3>2
      <4>2. Mul(Pow2[2 * n * k], P) = MulByPow2(n + n, Mul(Pow2[2 * n * (k - 1)], P))
        BY <1>1, <4>1
      <4>3. QED BY <3>2, <4>1, <4>2
    <3>3. QED BY <3>1, <3>2
  <2>2. QED BY <2>1
<1>5. A = Body(A)
  <2> HIDE DEF Body, g
  <2>1. QED BY <1>4
<1>6. BaseTables(P, n) = [k \in D |-> Multiples(A[k], n)]
  BY DEF BaseTables, N
<1> HIDE DEF A
<1> DEFINE T == {k \in Nat : k \in D => A[k] = Mul(Pow2[2 * n * k], P)}
<1>7. 0 \in T
  BY <1>2, <1>5
<1>8. ASSUME NEW k \in Nat, k \in T PROVE k + 1 \in T
  <2>1. CASE k + 1 \in D
    <3>1. k \in D /\ (k + 1) - 1 = k /\ k + 1 # 0
      BY <1>3, <2>1
    <3>2. A[k + 1] = MulByPow2(n + n, A[k])
      BY <1>5, <2>1, <3>1
    <3>3. QED BY <1>1, <1>8, <3>1, <3>2
  <2>2. CASE k + 1 \notin D
    BY <2>2
  <2>3. QED BY <2>1, <2>2
<1>9. Nat \subseteq T
  <2> HIDE DEF T
  <2>1. QED BY <1>7, <1>8, SetInduction
<1>10. \A k \in D : A[k] = Mul(Pow2[2 * n * k], P)
  BY <1>9
<1>11. QED BY <1>6, <1>10 DEF N

(* A digit selects its multiple of the point.                              *)
LEMMA TermIs ==
  ASSUME NEW P \in Points, NEW t \in Nat, NEW v \in 2 .. 8, v <= t, NEW d \in Int,
         d # 0 => d % 2 = 1 /\ -Pow2[v - 1] < d /\ d < Pow2[v - 1]
  PROVE  /\ Term(OddMultiples(P, t), d) = Mul(d, P)
         /\ d # 0 => Abs(d) \div 2 \in DOMAIN OddMultiples(P, t)
<1> DEFINE A == OddMultiples(P, t)
           N == Pow2[t - 2]
           h == Pow2[v - 1]
<1>1. N \in Nat /\ h \in Nat /\ h <= 2 * N
  <2>1. t - 2 \in Nat /\ t - 1 \in Nat /\ v - 1 \in Nat /\ (t - 2) + 1 = t - 1 /\ v - 1 <= t - 1
    OBVIOUS
  <2>2. N \in Nat /\ h \in Nat /\ Pow2[t - 1] = 2 * N
    BY <2>1, Pow2Def
  <2>3. h <= Pow2[t - 1]
    BY <2>1, Pow2Monotone
  <2>4. QED BY <2>2, <2>3
<1>2. A = [k \in 0 .. N - 1 |-> Mul(2 * k + 1, P)]
  <2>1. t >= 2
    OBVIOUS
  <2>2. QED BY <2>1, OddMultiplesAre
<1> HIDE DEF A, N, h
<1>3. d # 0 => d % 2 = 1 /\ -h < d /\ d < h
  BY DEF h
<1>4. CASE d = 0
  BY <1>4, MulOne DEF Term
<1>5. CASE d > 0
  <2> DEFINE k == d \div 2
  <2>1. k \in 0 .. N - 1 /\ 2 * k + 1 = d /\ Abs(d) = d
    BY <1>1, <1>3, <1>5 DEF Abs
  <2>2. A[k] = Mul(d, P) /\ k \in DOMAIN A
    BY <1>2, <2>1
  <2>3. Term(A, d) = A[k]
    BY <1>5 DEF Term
  <2>4. QED BY <2>1, <2>2, <2>3 DEF A
<1>6. CASE d < 0
  <2> DEFINE k == (-d) \div 2
  <2>1. k \in 0 .. N - 1 /\ 2 * k + 1 = -d /\ Abs(d) = -d /\ -d \in Int
    BY <1>1, <1>3, <1>6 DEF Abs
  <2>2. A[k] = Mul(-d, P) /\ k \in DOMAIN A
    BY <1>2, <2>1
  <2>3. Neg(Mul(-d, P)) = Mul(-(-d), P)
    BY <2>1, MulNeg
  <2>4. Term(A, d) = Neg(A[k]) /\ -(-d) = d
    BY <1>6 DEF Term
  <2>5. QED BY <2>1, <2>2, <2>3, <2>4 DEF A
<1>7. QED BY <1>4, <1>5, <1>6

(* A centered digit selects its multiple too.                              *)
LEMMA SelectIs ==
  ASSUME NEW P \in Points, NEW n \in Nat, n >= 1,
         NEW d \in -Pow2[n - 1] .. Pow2[n - 1]
  PROVE  /\ Select(Multiples(P, n), d) = Mul(d, P)
         /\ d # 0 => Abs(d) \in DOMAIN Multiples(P, n)
<1> DEFINE A == Multiples(P, n)
           N == Pow2[n - 1]
<1>1. N \in Nat /\ d \in Int /\ -N <= d /\ d <= N
  BY HalfPower
<1>2. A = [k \in 1 .. N |-> Mul(k, P)]
  BY MultiplesAre
<1> HIDE DEF A, N
<1>3. CASE d = 0
  BY <1>3, MulOne DEF Select
<1>4. CASE d > 0
  <2>1. d \in 1 .. N /\ Abs(d) = d
    BY <1>1, <1>4 DEF Abs
  <2>2. A[d] = Mul(d, P) /\ d \in DOMAIN A
    BY <1>2, <2>1
  <2>3. QED BY <1>4, <2>1, <2>2 DEF A, Select
<1>5. CASE d < 0
  <2>1. -d \in 1 .. N /\ Abs(d) = -d /\ -d \in Int /\ -(-d) = d /\ ~ (d > 0) /\ d # 0
    BY <1>1, <1>5 DEF Abs
  <2>2. A[-d] = Mul(-d, P) /\ -d \in DOMAIN A
    BY <1>2, <2>1
  <2>3. Neg(Mul(-d, P)) = Mul(-(-d), P)
    BY <2>1, MulNeg
  <2>4. QED BY <2>1, <2>2, <2>3 DEF A, Select
<1>6. QED BY <1>1, <1>3, <1>4, <1>5
-----------------------------------------------------------------------------
(* The sum of points weighed by integers. *)
Weigh(c, P) == PointSum([k \in DOMAIN P |-> Mul(c[k], P[k])])

(* f is a times c plus e, weight by weight.                                *)
WeightsCombine(f, a, c, e, n) ==
  \A k \in 1 .. n : c[k] \in Int /\ e[k] \in Int /\ f[k] = a * c[k] + e[k]

(* The sum of weighed points is a point.                                   *)
LEMMA WeighedPoints ==
  ASSUME NEW P \in Seq(Points), NEW c, \A k \in 1 .. Len(P) : c[k] \in Int
  PROVE  /\ [k \in DOMAIN P |-> Mul(c[k], P[k])] \in Seq(Points)
         /\ Len([k \in DOMAIN P |-> Mul(c[k], P[k])]) = Len(P)
         /\ \A k \in 1 .. Len(P) :
              /\ [i \in DOMAIN P |-> Mul(c[i], P[i])][k] = Mul(c[k], P[k])
              /\ P[k] \in Points
         /\ Weigh(c, P) \in Points
<1> DEFINE n == Len(P)
           u == [k \in DOMAIN P |-> Mul(c[k], P[k])]
<1>1. n \in Nat /\ DOMAIN P = 1 .. n /\ \A k \in 1 .. n : P[k] \in Points
  BY LenProperties, ElementOfSeq
<1>2. u = [k \in 1 .. n |-> Mul(c[k], P[k])]
  BY <1>1
<1>3. \A k \in 1 .. n : Mul(c[k], P[k]) \in Points
  BY <1>1, MulPoint, PointIsInt
<1> HIDE DEF u, n
<1>4. u \in [1 .. n -> Points] /\ \A k \in 1 .. n : u[k] = Mul(c[k], P[k])
  BY <1>2, <1>3
<1>5. u \in Seq(Points) /\ Len(u) = n
  BY <1>1, <1>4
<1>6. PointSum(u) \in Points
  BY <1>5, PointSumType
<1>7. QED BY <1>1, <1>4, <1>5, <1>6 DEF Weigh, u, n

(* It is linear in the weights.                                            *)
LEMMA WeighCombines ==
  ASSUME NEW P \in Seq(Points), NEW a \in Int, NEW f, NEW c, NEW e,
         WeightsCombine(f, a, c, e, Len(P))
  PROVE  Weigh(f, P) = Add(Mul(a, Weigh(c, P)), Weigh(e, P))
<1> DEFINE n == Len(P)
           u == [k \in DOMAIN P |-> Mul(f[k], P[k])]
           s == [k \in DOMAIN P |-> Mul(c[k], P[k])]
           t == [k \in DOMAIN P |-> Mul(e[k], P[k])]
<1>1. \A k \in 1 .. n : /\ c[k] \in Int /\ e[k] \in Int /\ f[k] = a * c[k] + e[k]
                        /\ f[k] \in Int /\ a * c[k] \in Int
  BY DEF WeightsCombine
<1> HIDE DEF n
<1>2. /\ s \in Seq(Points) /\ Len(s) = n /\ \A k \in 1 .. n : s[k] = Mul(c[k], P[k])
      /\ t \in Seq(Points) /\ Len(t) = n /\ \A k \in 1 .. n : t[k] = Mul(e[k], P[k])
      /\ u \in Seq(Points) /\ Len(u) = n /\ \A k \in 1 .. n : u[k] = Mul(f[k], P[k])
      /\ \A k \in 1 .. n : P[k] \in Points
  <2>1. \A k \in 1 .. n : c[k] \in Int
    BY <1>1
  <2>2. \A k \in 1 .. n : e[k] \in Int
    BY <1>1
  <2>3. \A k \in 1 .. n : f[k] \in Int
    BY <1>1
  <2>4. /\ s \in Seq(Points) /\ Len(s) = n /\ \A k \in 1 .. n : s[k] = Mul(c[k], P[k])
        /\ \A k \in 1 .. n : P[k] \in Points
    BY <2>1, WeighedPoints DEF n
  <2>5. t \in Seq(Points) /\ Len(t) = n /\ \A k \in 1 .. n : t[k] = Mul(e[k], P[k])
    BY <2>2, WeighedPoints DEF n
  <2>6. u \in Seq(Points) /\ Len(u) = n /\ \A k \in 1 .. n : u[k] = Mul(f[k], P[k])
    BY <2>3, WeighedPoints DEF n
  <2>7. QED BY <2>4, <2>5, <2>6
<1> HIDE DEF u, s, t
<1>3. ASSUME NEW k \in 1 .. n PROVE u[k] = Add(Mul(a, s[k]), t[k])
  <2>1. Mul(a, Mul(c[k], P[k])) = Mul(a * c[k], P[k])
    BY <1>1, <1>2, MulMul
  <2>2. Add(Mul(a * c[k], P[k]), Mul(e[k], P[k])) = Mul(a * c[k] + e[k], P[k])
    BY <1>1, <1>2, MulAdd
  <2>3. QED BY <1>1, <1>2, <2>1, <2>2
<1>4. Combines(u, a, s, t)
  BY <1>2, <1>3 DEF Combines
<1>5. PointSum(u) = Add(Mul(a, PointSum(s)), PointSum(t))
  BY <1>4, PointSumCombines
<1>6. QED BY <1>5 DEF Weigh, u, s, t

(* With the factor 1, as the loops add two sums. *)
LEMMA WeighAdds ==
  ASSUME NEW P \in Seq(Points), NEW f, NEW c, NEW e,
         \A k \in 1 .. Len(P) : c[k] \in Int /\ e[k] \in Int /\ f[k] = c[k] + e[k]
  PROVE  Weigh(f, P) = Add(Weigh(c, P), Weigh(e, P))
<1>1. WeightsCombine(f, 1, c, e, Len(P))
  BY DEF WeightsCombine
<1>2. Weigh(f, P) = Add(Mul(1, Weigh(c, P)), Weigh(e, P))
  BY <1>1, WeighCombines
<1>3. \A k \in 1 .. Len(P) : c[k] \in Int
  OBVIOUS
<1>4. Weigh(c, P) \in Points
  BY <1>3, WeighedPoints
<1>5. QED BY <1>2, <1>4, MulOne

LEMMA WeighSame ==
  ASSUME NEW P \in Seq(Points), NEW c, NEW e, \A k \in 1 .. Len(P) : c[k] = e[k]
  PROVE  Weigh(c, P) = Weigh(e, P)
<1>1. DOMAIN P = 1 .. Len(P)
  BY LenProperties
<1>2. QED BY <1>1 DEF Weigh

LEMMA WeighZero ==
  ASSUME NEW P \in Seq(Points), NEW c, \A k \in 1 .. Len(P) : c[k] = 0
  PROVE  Weigh(c, P) = 0
<1> DEFINE n == Len(P)
           u == [k \in DOMAIN P |-> Mul(c[k], P[k])]
<1>1. \A k \in 1 .. n : c[k] \in Int
  OBVIOUS
<1>2. /\ u \in Seq(Points) /\ Len(u) = n
      /\ \A k \in 1 .. n : u[k] = Mul(c[k], P[k]) /\ P[k] \in Points
  BY <1>1, WeighedPoints
<1>3. \A k \in 1 .. n : u[k] = 0
  BY <1>2, MulOne
<1> HIDE DEF u
<1>4. QED BY <1>2, <1>3, PointSumZero DEF Weigh, u

-----------------------------------------------------------------------------
(* A recursion from the top bucket down is solved by what satisfies it.    *)
Downward(last, s, top) ==
  CHOOSE f : f = [b \in 0 .. top |-> IF b = top THEN last ELSE Add(f[b + 1], s[b])]

(* g satisfies the equations of that recursion.                            *)
SolvesDownward(g, last, s, top) ==
  g[top] = last /\ \A b \in 0 .. top - 1 : g[b] = Add(g[b + 1], s[b])

LEMMA RunsDown ==
  ASSUME NEW top \in Nat, NEW s, NEW last, NEW g, SolvesDownward(g, last, s, top)
  PROVE  \A b \in 0 .. top : Downward(last, s, top)[b] = g[b]
<1> DEFINE D == 0 .. top
           Body(f) == [b \in D |-> IF b = top THEN last ELSE Add(f[b + 1], s[b])]
           h == [b \in D |-> g[b]]
           F == CHOOSE f : f = Body(f)
<1>1. g[top] = last /\ \A b \in 0 .. top - 1 : g[b] = Add(g[b + 1], s[b])
  BY DEF SolvesDownward
<1>2. h = Body(h)
  <2>1. ASSUME NEW b \in D PROVE h[b] = Body(h)[b]
    <3>1. CASE b = top
      BY <1>1, <3>1
    <3>2. CASE b # top
      <4>1. b \in 0 .. top - 1 /\ b + 1 \in D
        BY <3>2
      <4>2. QED BY <1>1, <3>2, <4>1
    <3>3. QED BY <3>1, <3>2
  <2>2. QED BY <2>1
<1>3. F = Body(F)
  <2> HIDE DEF Body, h
  <2>1. QED BY <1>2
<1> HIDE DEF F
<1> DEFINE T == {i \in Nat : i \in D => F[top - i] = g[top - i]}
<1>4. 0 \in T
  <2>1. top - 0 = top /\ top \in D
    OBVIOUS
  <2>2. F[top] = last
    BY <1>3, <2>1
  <2>3. QED BY <1>1, <2>1, <2>2
<1>5. ASSUME NEW i \in Nat, i \in T PROVE i + 1 \in T
  <2>1. CASE i + 1 \in D
    <3> DEFINE b == top - (i + 1)
    <3>1. b \in D /\ b # top /\ b \in 0 .. top - 1 /\ b + 1 = top - i /\ i \in D
      BY <2>1
    <3>2. F[b] = Add(F[b + 1], s[b])
      BY <1>3, <3>1
    <3>3. F[top - i] = g[top - i]
      BY <1>5, <3>1
    <3>4. QED BY <1>1, <3>1, <3>2, <3>3
  <2>2. CASE i + 1 \notin D
    BY <2>2
  <2>3. QED BY <2>1, <2>2
<1>6. Nat \subseteq T
  <2> HIDE DEF T
  <2>1. QED BY <1>4, <1>5, SetInduction
<1>7. ASSUME NEW b \in D PROVE F[b] = g[b]
  <2>1. top - b \in Nat /\ top - b \in D /\ top - (top - b) = b
    OBVIOUS
  <2>2. QED BY <1>6, <2>1
<1>8. Downward(last, s, top) = F
  BY DEF Downward, F
<1>9. QED BY <1>7, <1>8

(* What a digit d gives the bucket b, the running sum down to bucket b and *)
(* the sum of those.                                                       *)
Hit(d, b) == IF d = b + 1 THEN 1 ELSE IF d = -(b + 1) THEN -1 ELSE 0
Sign(d, b) == IF d > b THEN 1 ELSE IF d < -b THEN -1 ELSE 0
Excess(d, b) == IF d > b THEN d - b ELSE IF d < -b THEN d + b ELSE 0

LEMMA BucketDigits ==
  ASSUME NEW d \in Int, NEW b \in Nat
  PROVE  /\ Hit(d, b) \in Int /\ Sign(d, b) \in Int /\ Excess(d, b) \in Int
         /\ Sign(d, b) = Sign(d, b + 1) + Hit(d, b)
         /\ Excess(d, b) = Excess(d, b + 1) + Sign(d, b)
         /\ Excess(d, 0) = d
         /\ d <= b + 1 /\ -d <= b + 1 => Sign(d, b) = Hit(d, b) /\ Excess(d, b) = Hit(d, b)
<1>1. Hit(d, b) \in Int /\ Sign(d, b) \in Int /\ Excess(d, b) \in Int
  BY DEF Hit, Sign, Excess
<1>2. Sign(d, b) = Sign(d, b + 1) + Hit(d, b)
  BY DEF Hit, Sign
<1>3. Excess(d, b) = Excess(d, b + 1) + Sign(d, b)
  BY DEF Excess, Sign
<1>4. Excess(d, 0) = d
  BY DEF Excess
<1>5. d <= b + 1 /\ -d <= b + 1 => Sign(d, b) = Hit(d, b) /\ Excess(d, b) = Hit(d, b)
  BY DEF Hit, Sign, Excess
<1>6. QED BY <1>1, <1>2, <1>3, <1>4, <1>5

(* The rows are digits of n bits, one for each of the call's points.       *)
FitBuckets(rows, place, n) ==
  /\ call.points \in Seq(Points) /\ DOMAIN rows = DOMAIN call.points
  /\ \A k \in 1 .. Len(call.points) : rows[k][place] \in -Pow2[n - 1] .. Pow2[n - 1]

(* A bucket holds the points whose digit hits it.                          *)
LEMMA BucketIs ==
  ASSUME NEW rows, NEW place, NEW n \in Nat, n >= 1, FitBuckets(rows, place, n),
         NEW b \in 0 .. Pow2[n - 1] - 1
  PROVE  Buckets(rows, place, n)[b] =
           Weigh([k \in DOMAIN rows |-> Hit(rows[k][place], b)], call.points)
<1> DEFINE P == call.points
           c == [k \in DOMAIN rows |-> Hit(rows[k][place], b)]
           u == [k \in DOMAIN rows |->
                   CASE rows[k][place] = b + 1    -> P[k]
                     [] rows[k][place] = -(b + 1) -> Neg(P[k])
                     [] OTHER                     -> 0]
           v == [k \in DOMAIN P |-> Mul(c[k], P[k])]
<1>1. /\ P \in Seq(Points) /\ DOMAIN rows = DOMAIN P /\ DOMAIN P = 1 .. Len(P)
      /\ \A k \in DOMAIN rows : P[k] \in Points /\ rows[k][place] \in Int
  <2>1. Pow2[n - 1] \in Nat
    BY HalfPower
  <2>2. /\ P \in Seq(Points) /\ DOMAIN rows = DOMAIN P /\ DOMAIN P = 1 .. Len(P)
        /\ \A k \in 1 .. Len(P) : rows[k][place] \in Int
    BY <2>1, LenProperties DEF FitBuckets
  <2>3. \A k \in 1 .. Len(P) : P[k] \in Points
    BY <2>2, ElementOfSeq
  <2>4. QED BY <2>2, <2>3
<1>2. b \in Nat
  OBVIOUS
<1>3. ASSUME NEW k \in DOMAIN rows PROVE u[k] = v[k]
  <2> DEFINE d == rows[k][place]
             R == P[k]
  <2>1. R \in Points /\ d \in Int
    BY <1>1
  <2>2. u[k] = CASE d = b + 1 -> R [] d = -(b + 1) -> Neg(R) [] OTHER -> 0
    OBVIOUS
  <2>3. v[k] = Mul(Hit(d, b), R)
    BY <1>1
  <2> HIDE DEF u, v, d, R
  <2>4. Mul(1, R) = R /\ Mul(0, R) = 0 /\ Neg(R) = Mul(-1, R)
    <3>1. Neg(Mul(1, R)) = Mul(-1, R)
      BY <2>1, MulNeg
    <3>2. QED BY <2>1, <3>1, MulOne
  <2>5. b + 1 # -(b + 1)
    BY <1>2
  <2>6. CASE d = b + 1
    BY <2>2, <2>3, <2>4, <2>5, <2>6 DEF Hit
  <2>7. CASE d = -(b + 1)
    BY <2>2, <2>3, <2>4, <2>5, <2>7 DEF Hit
  <2>8. CASE d # b + 1 /\ d # -(b + 1)
    BY <2>2, <2>3, <2>4, <2>8 DEF Hit
  <2>9. QED BY <2>6, <2>7, <2>8
<1>4. u = v
  <2>1. DOMAIN u = DOMAIN rows /\ DOMAIN v = DOMAIN rows
    BY <1>1
  <2>2. u = [k \in DOMAIN rows |-> u[k]] /\ v = [k \in DOMAIN rows |-> v[k]]
    BY <1>1
  <2> HIDE DEF u, v
  <2>3. QED BY <1>3, <2>2
<1>5. Buckets(rows, place, n)[b] = PointSum(u)
  BY DEF Buckets, PointSum
<1> HIDE DEF u
<1>6. QED BY <1>4, <1>5 DEF Weigh, v, c

(* The running sums weigh each point by its digit: what Pippenger adds at  *)
(* a place.                                                                *)
LEMMA BucketSumIs ==
  ASSUME NEW rows, NEW place, NEW n \in Nat, n >= 1, FitBuckets(rows, place, n)
  PROVE  BucketSum(Buckets(rows, place, n), n) =
           Weigh([k \in DOMAIN rows |-> rows[k][place]], call.points)
<1> DEFINE P == call.points
           m == Len(P)
           top == Pow2[n - 1] - 1
           d(k) == rows[k][place]
           hit(b) == [k \in DOMAIN rows |-> Hit(d(k), b)]
           sign(b) == [k \in DOMAIN rows |-> Sign(d(k), b)]
           excess(b) == [k \in DOMAIN rows |-> Excess(d(k), b)]
           B == Buckets(rows, place, n)
           R == [b \in 0 .. top |-> Weigh(sign(b), P)]
           E == [b \in 0 .. top |-> Weigh(excess(b), P)]
<1>1. /\ P \in Seq(Points) /\ DOMAIN rows = 1 .. m /\ top \in Nat
      /\ \A k \in 1 .. m : d(k) \in Int /\ d(k) <= top + 1 /\ -d(k) <= top + 1
  <2>1. Pow2[n - 1] \in Nat /\ Pow2[n - 1] >= 1
    BY HalfPower
  <2>2. P \in Seq(Points) /\ DOMAIN rows = 1 .. m
    BY LenProperties DEF FitBuckets
  <2>3. ASSUME NEW k \in 1 .. m
        PROVE  d(k) \in Int /\ d(k) <= top + 1 /\ -d(k) <= top + 1
    <3>1. d(k) \in -Pow2[n - 1] .. Pow2[n - 1]
      BY DEF FitBuckets
    <3> HIDE DEF d
    <3>2. QED BY <2>1, <3>1
  <2>4. top \in Nat
    BY <2>1
  <2>5. QED BY <2>2, <2>3, <2>4
<1>2. \A b \in 0 .. top : B[b] = Weigh(hit(b), P)
  BY BucketIs
<1> HIDE DEF B, top, m, d
<1>3. ASSUME NEW b \in 0 .. top - 1
      PROVE  R[b] = Add(R[b + 1], B[b]) /\ E[b] = Add(E[b + 1], R[b])
  <2>1. b \in Nat /\ b \in 0 .. top /\ b + 1 \in 0 .. top /\ b + 1 \in Nat
    BY <1>1
  <2>2. \A k \in 1 .. m : /\ Hit(d(k), b) \in Int /\ Sign(d(k), b) \in Int
                          /\ Excess(d(k), b) \in Int
                          /\ Sign(d(k), b) = Sign(d(k), b + 1) + Hit(d(k), b)
                          /\ Excess(d(k), b) = Excess(d(k), b + 1) + Sign(d(k), b)
    BY <1>1, <2>1, BucketDigits
  <2>3. \A k \in 1 .. m : Sign(d(k), b + 1) \in Int /\ Excess(d(k), b + 1) \in Int
    BY <1>1, <2>1, BucketDigits
  <2>4. Weigh(sign(b), P) = Add(Weigh(sign(b + 1), P), Weigh(hit(b), P))
    <3>1. \A k \in 1 .. m : /\ sign(b + 1)[k] \in Int /\ hit(b)[k] \in Int
                            /\ sign(b)[k] = sign(b + 1)[k] + hit(b)[k]
      BY <1>1, <2>2, <2>3
    <3> HIDE DEF sign, hit
    <3>2. QED BY <1>1, <3>1, WeighAdds DEF m
  <2>5. Weigh(excess(b), P) = Add(Weigh(excess(b + 1), P), Weigh(sign(b), P))
    <3>1. \A k \in 1 .. m : /\ excess(b + 1)[k] \in Int /\ sign(b)[k] \in Int
                            /\ excess(b)[k] = excess(b + 1)[k] + sign(b)[k]
      BY <1>1, <2>2, <2>3
    <3> HIDE DEF sign, excess
    <3>2. QED BY <1>1, <3>1, WeighAdds DEF m
  <2> HIDE DEF sign, hit, excess
  <2>6. QED BY <1>2, <2>1, <2>4, <2>5
<1>4. R[top] = B[top] /\ E[top] = B[top]
  <2>1. top \in Nat /\ top \in 0 .. top
    BY <1>1
  <2>2. \A k \in 1 .. m : Sign(d(k), top) = Hit(d(k), top) /\ Excess(d(k), top) = Hit(d(k), top)
    BY <1>1, <2>1, BucketDigits
  <2>3. Weigh(sign(top), P) = Weigh(hit(top), P)
    <3>1. \A k \in 1 .. m : sign(top)[k] = hit(top)[k]
      BY <1>1, <2>2
    <3> HIDE DEF sign, hit
    <3>2. QED BY <1>1, <3>1, WeighSame DEF m
  <2>4. Weigh(excess(top), P) = Weigh(hit(top), P)
    <3>1. \A k \in 1 .. m : excess(top)[k] = hit(top)[k]
      BY <1>1, <2>2
    <3> HIDE DEF excess, hit
    <3>2. QED BY <1>1, <3>1, WeighSame DEF m
  <2> HIDE DEF sign, hit, excess
  <2>5. QED BY <1>2, <2>1, <2>3, <2>4
<1>5. E[0] = Weigh([k \in DOMAIN rows |-> d(k)], P)
  <2>1. 0 \in 0 .. top
    BY <1>1
  <2>2. \A k \in 1 .. m : Excess(d(k), 0) = d(k)
    BY <1>1, BucketDigits
  <2>3. excess(0) = [k \in DOMAIN rows |-> d(k)]
    BY <1>1, <2>2
  <2>4. QED BY <2>1, <2>3
<1> HIDE DEF R, E
<1> DEFINE last == B[top]
           running == Downward(last, B, top)
           total == Downward(last, running, top)
<1>6. \A b \in 0 .. top : running[b] = R[b]
  <2>1. SolvesDownward(R, last, B, top)
    BY <1>3, <1>4 DEF SolvesDownward
  <2> HIDE DEF last
  <2>2. top \in Nat
    BY <1>1
  <2>3. QED BY <2>1, <2>2, RunsDown
<1>7. BucketSum(B, n) = total[0]
  BY DEF BucketSum, Downward, top
<1> HIDE DEF running
<1>8. \A b \in 0 .. top : total[b] = E[b]
  <2>1. E[top] = last /\ top \in Nat
    BY <1>1, <1>4
  <2>2. ASSUME NEW b \in 0 .. top - 1 PROVE E[b] = Add(E[b + 1], running[b])
    <3>1. b \in 0 .. top
      BY <1>1
    <3>2. QED BY <1>3, <1>6, <3>1
  <2> HIDE DEF last
  <2>3. SolvesDownward(E, last, running, top)
    BY <2>1, <2>2 DEF SolvesDownward
  <2>4. QED BY <2>1, <2>3, RunsDown
<1> HIDE DEF total
<1>9. 0 \in 0 .. top
  BY <1>1
<1>10. QED BY <1>5, <1>7, <1>8, <1>9 DEF B, d

-----------------------------------------------------------------------------
(* What the assumptions say of the sizes of non-adjacent forms.            *)
LEMMA NafConstants ==
  /\ NafBits \in Nat /\ NafBits >= 4 /\ NafBits - 1 \in Nat
  /\ Half \in Nat /\ Half >= 2 /\ NafBits = 2 * Half
  /\ NafWidth \in 2 .. 8 /\ BigWidth \in 2 .. 8 /\ NafWidth <= BigWidth
  /\ ShortBound = Pow2[Half] /\ Pow2[Half] \in Nat /\ Pow2[Half] >= 1
<1>1. /\ Half \in Nat /\ Half >= 2 /\ 2 * Half = NafBits
      /\ NafWidth \in 2 .. 8 /\ BigWidth \in NafWidth .. 8 /\ ShortBound = Pow2[Half]
  BY NafAssumption
<1>2. Pow2[Half] \in Nat /\ Pow2[Half] >= 1
  BY <1>1, Pow2Positive
<1>3. QED BY <1>1, <1>2

(* What the assumptions say of a call.                                     *)
LEMMA CallFacts ==
  ASSUME NEW c \in Calls
  PROVE  /\ c.method \in NafMethods \cup WindowMethods
         /\ c.static \in Seq(Points) /\ c.points \in Seq(Points \cup {None})
         /\ c.static_scalars \in Seq(Nat) /\ c.scalars \in Seq(Nat)
         /\ c.method # "precomputed" => c.static = <<>> /\ c.static_scalars = <<>>
         /\ c.method \notin {"straus", "precomputed", "pippenger"} => ~ HasNone(c)
         /\ c.method \notin {"straus", "precomputed", "pippenger", "straus_ct"} =>
              /\ ~ Mismatched(c)
              /\ Len(c.points) = IF c.method = "triple_base" THEN 2 ELSE 1
BY CallsAssumption

LEMMA BasepointIsPoint == Basepoint \in Points
BY OrderPositive DEF Basepoint, Points

(* Without an undecodable point the lists are lists of points.             *)
LEMMA DecodablePoints ==
  ASSUME NEW c \in Calls, ~ HasNone(c)
  PROVE  c.points \in Seq(Points) /\ AllPoints(c) \in Seq(Points)
<1>1. c.points \in Seq(Points \cup {None}) /\ \A i \in DOMAIN c.points : c.points[i] # None
  BY CallFacts DEF HasNone
<1>2. c.points \in Seq(Points)
  <2> DEFINE P == c.points
             n == Len(P)
  <2>1. n \in Nat /\ DOMAIN P = 1 .. n /\ P \in [1 .. n -> Points \cup {None}]
    BY <1>1, LenProperties
  <2>2. \A i \in 1 .. n : P[i] \in Points
    BY <1>1, <2>1
  <2> HIDE DEF P, n
  <2>3. P \in [1 .. n -> Points]
    BY <2>1, <2>2
  <2>4. P \in Seq(Points)
    BY <2>1, <2>3
  <2>5. QED BY <2>4 DEF P
<1>3. Append(c.points, Basepoint) \in Seq(Points)
  BY <1>2, BasepointIsPoint, AppendProperties
<1>4. QED BY <1>2, <1>3 DEF AllPoints

(* A combination of lists, of which the first may be shorter.              *)
LEMMA CombineIs ==
  ASSUME NEW s, NEW P \in Seq(Points), Len(s) = Len(P)
  PROVE  Combine(s, P) = Weigh(s, P)
<1>1. DOMAIN P = 1 .. Len(P) /\ Len(P) \in Nat
  BY LenProperties
<1>2. (IF Len(s) < Len(P) THEN Len(s) ELSE Len(P)) = Len(P)
  OBVIOUS
<1>3. QED BY <1>1, <1>2 DEF Combine, Weigh, PointSum

LEMMA ScalarsAreInt ==
  ASSUME NEW s \in Seq(Nat)
  PROVE  \A k \in 1 .. Len(s) : s[k] \in Nat /\ s[k] \in Int
BY ElementOfSeq

LEMMA CombineNothing == Combine(<<>>, <<>>) = 0
<1>1. [i \in 1 .. Len(<<>>) |-> Mul(<<>>[i], <<>>[i])] = <<>>
  OBVIOUS
<1>2. (IF Len(<<>>) < Len(<<>>) THEN Len(<<>>) ELSE Len(<<>>)) = Len(<<>>)
  OBVIOUS
<1>3. QED BY <1>1, <1>2, PointSumEmpty DEF Combine, PointSum

(* Without a precomputation the answer is the combination of the lists.    *)
LEMMA PlainOutcome ==
  ASSUME NEW c \in Calls, c.method # "precomputed", ~ HasLong(c), ~ HasNone(c),
         ~ Mismatched(c)
  PROVE  /\ Len(c.scalars) = Len(AllPoints(c))
         /\ Outcomes(c) = {Weigh(c.scalars, AllPoints(c))}
         /\ Weigh(c.scalars, AllPoints(c)) \in Points
<1> DEFINE s == c.scalars
           P == AllPoints(c)
<1>1. s \in Seq(Nat) /\ P \in Seq(Points) /\ Len(s) = Len(P)
  BY CallFacts, DecodablePoints DEF Mismatched
<1>2. Combine(c.static_scalars, c.static) = 0
  BY CallFacts, CombineNothing
<1>3. Combine(s, P) = Weigh(s, P) /\ Weigh(s, P) \in Points
  <2> HIDE DEF s, P
  <2>1. \A k \in 1 .. Len(P) : s[k] \in Int
    BY <1>1, ScalarsAreInt
  <2>2. QED BY <1>1, <2>1, CombineIs, WeighedPoints
<1>4. Outcomes(c) = {Add(Combine(c.static_scalars, c.static), Combine(s, P))}
  BY DEF Outcomes
<1>5. Add(0, Weigh(s, P)) = Weigh(s, P)
  BY <1>3, MulOne
<1>6. QED BY <1>1, <1>2, <1>3, <1>4, <1>5

LEMMA AddIsPoint ==
  ASSUME NEW P \in Points, NEW R \in Points, NEW S \in Points
  PROVE  /\ Add(P, R) \in Points /\ Add(P, R) = Add(R, P)
         /\ Add(Add(P, R), S) = Add(P, Add(R, S))
<1>1. P \in Int /\ R \in Int /\ S \in Int /\ P + R = R + P /\ 0 \in Points
  BY PointIsInt, MulOne
<1>2. Add(P, R) \in Points /\ Add(R, S) \in Points
  BY <1>1, AddPoint
<1>3. Add(P, R) = Add(R, P)
  BY <1>1 DEF Add
<1>4. Add(Add(Mul(1, P), R), Add(Mul(1, 0), S)) = Add(Mul(1, Add(P, 0)), Add(R, S))
  BY <1>1, AddRegroups
<1>5. /\ Mul(1, P) = P /\ Mul(1, 0) = 0 /\ Add(0, S) = S /\ Add(P, 0) = P
  BY <1>1, MulOne
<1>6. QED BY <1>2, <1>3, <1>4, <1>5

(* u is s followed by t, as facts about its elements.                      *)
Concats(u, s, t) ==
  /\ Len(u) = Len(s) + Len(t) /\ Len(s) \in Nat /\ Len(t) \in Nat
  /\ \A k \in 1 .. Len(s) : u[k] = s[k]
  /\ \A k \in 1 .. Len(t) : u[Len(s) + k] = t[k]

LEMMA ConcatFacts ==
  ASSUME NEW S, NEW s \in Seq(S), NEW t \in Seq(S)
  PROVE  s \o t \in Seq(S) /\ Concats(s \o t, s, t)
<1> DEFINE u == s \o t
           m == Len(s)
           n == Len(t)
<1>1. /\ u \in Seq(S) /\ m \in Nat /\ n \in Nat /\ Len(u) = m + n
      /\ \A i \in 1 .. m + n : u[i] = IF i <= m THEN s[i] ELSE t[i - m]
  BY ConcatProperties, LenProperties
<1> HIDE DEF u, m, n
<1>2. ASSUME NEW k \in 1 .. n PROVE u[m + k] = t[k]
  <2>1. m + k \in 1 .. m + n /\ ~ (m + k <= m) /\ (m + k) - m = k
    BY <1>1
  <2>2. QED BY <1>1, <2>1
<1>3. ASSUME NEW k \in 1 .. m PROVE u[k] = s[k]
  BY <1>1
<1>4. QED BY <1>1, <1>2, <1>3 DEF u, m, n, Concats

(* Two lists of weighed points add up to the two sums.                     *)
LEMMA WeighConcat ==
  ASSUME NEW x \in Seq(Nat), NEW y \in Seq(Nat), NEW P \in Seq(Points), NEW R \in Seq(Points),
         Len(x) = Len(P), Len(y) = Len(R)
  PROVE  /\ P \o R \in Seq(Points) /\ x \o y \in Seq(Nat) /\ Len(x \o y) = Len(P \o R)
         /\ Weigh(x \o y, P \o R) = Add(Weigh(x, P), Weigh(y, R))
<1> DEFINE m == Len(P)
           n == Len(R)
           s == [k \in DOMAIN P |-> Mul(x[k], P[k])]
           t == [k \in DOMAIN R |-> Mul(y[k], R[k])]
           u == [k \in DOMAIN (P \o R) |-> Mul((x \o y)[k], (P \o R)[k])]
<1>1. /\ P \o R \in Seq(Points) /\ Len(P \o R) = m + n /\ m \in Nat /\ n \in Nat
      /\ \A k \in 1 .. m : (P \o R)[k] = P[k]
      /\ \A k \in 1 .. n : (P \o R)[m + k] = R[k]
  <2>1. P \o R \in Seq(Points) /\ Concats(P \o R, P, R)
    BY ConcatFacts
  <2>2. QED BY <2>1 DEF Concats
<1>2. /\ x \o y \in Seq(Nat) /\ Len(x \o y) = m + n
      /\ \A k \in 1 .. m : (x \o y)[k] = x[k]
      /\ \A k \in 1 .. n : (x \o y)[m + k] = y[k]
  <2>1. x \o y \in Seq(Nat) /\ Concats(x \o y, x, y)
    BY ConcatFacts
  <2>2. QED BY <2>1 DEF Concats
<1>3. /\ s \in Seq(Points) /\ Len(s) = m /\ \A k \in 1 .. m : s[k] = Mul(x[k], P[k])
      /\ Weigh(x, P) \in Points
  BY ScalarsAreInt, WeighedPoints
<1>4. /\ t \in Seq(Points) /\ Len(t) = n /\ \A k \in 1 .. n : t[k] = Mul(y[k], R[k])
      /\ Weigh(y, R) \in Points
  BY ScalarsAreInt, WeighedPoints
<1>5. /\ u \in Seq(Points) /\ Len(u) = m + n
      /\ \A k \in 1 .. m + n : u[k] = Mul((x \o y)[k], (P \o R)[k])
      /\ Weigh(x \o y, P \o R) \in Points
  <2> DEFINE z == x \o y
             S == P \o R
  <2>1. z \in Seq(Nat) /\ S \in Seq(Points) /\ Len(z) = Len(S) /\ Len(S) = m + n
    BY <1>1, <1>2
  <2> HIDE DEF z, S
  <2>2. \A k \in 1 .. Len(S) : z[k] \in Int
    BY <2>1, ScalarsAreInt
  <2>3. /\ [k \in DOMAIN S |-> Mul(z[k], S[k])] \in Seq(Points)
        /\ Len([k \in DOMAIN S |-> Mul(z[k], S[k])]) = Len(S)
        /\ \A k \in 1 .. Len(S) :
             [i \in DOMAIN S |-> Mul(z[i], S[i])][k] = Mul(z[k], S[k])
        /\ Weigh(z, S) \in Points
    BY <2>1, <2>2, WeighedPoints
  <2>4. QED BY <2>1, <2>3 DEF z, S
<1> HIDE DEF s, t, u
<1>6. u = s \o t
  <2> DEFINE z == s \o t
  <2>1. z \in Seq(Points) /\ Concats(z, s, t)
    BY <1>3, <1>4, ConcatFacts
  <2>2. /\ Len(z) = m + n
        /\ \A k \in 1 .. m : z[k] = s[k]
        /\ \A k \in 1 .. n : z[m + k] = t[k]
    BY <1>3, <1>4, <2>1 DEF Concats
  <2> HIDE DEF m, n, z
  <2>3. ASSUME NEW k \in 1 .. m PROVE k \in 1 .. m + n /\ u[k] = z[k]
    <3>1. k \in 1 .. m + n
      BY <1>1
    <3>2. u[k] = Mul((x \o y)[k], (P \o R)[k])
      BY <1>5, <3>1
    <3>3. (x \o y)[k] = x[k] /\ (P \o R)[k] = P[k]
      BY <1>1, <1>2
    <3>4. s[k] = Mul(x[k], P[k]) /\ z[k] = s[k]
      BY <1>3, <2>2
    <3>5. QED BY <3>1, <3>2, <3>3, <3>4
  <2>4. ASSUME NEW k \in 1 .. n PROVE u[m + k] = z[m + k]
    <3>1. m + k \in 1 .. m + n
      BY <1>1
    <3>2. u[m + k] = Mul((x \o y)[m + k], (P \o R)[m + k])
      BY <1>5, <3>1
    <3>3. (x \o y)[m + k] = y[k] /\ (P \o R)[m + k] = R[k]
      BY <1>1, <1>2
    <3>4. t[k] = Mul(y[k], R[k]) /\ z[m + k] = t[k]
      BY <1>4, <2>2
    <3>5. QED BY <3>2, <3>3, <3>4
  <2>5. ASSUME NEW k \in 1 .. m + n PROVE u[k] = z[k]
    <3>1. k \in 1 .. m \/ (k - m \in 1 .. n /\ m + (k - m) = k)
      BY <1>1
    <3>2. QED BY <2>3, <2>4, <3>1
  <2>6. u = z
    BY <1>5, <2>1, <2>2, <2>5, SeqEqual
  <2>7. QED BY <2>6 DEF z
<1>7. Cong(PointSum(u), PointSum(s) + PointSum(t), 8 * L)
  BY <1>3, <1>4, <1>6, PointSumConcat
<1>8. Weigh(x \o y, P \o R) = PointSum(u) /\ Weigh(x, P) = PointSum(s) /\ Weigh(y, R) = PointSum(t)
  BY DEF Weigh, u, s, t
<1>9. QED
  <2> DEFINE a == PointSum(s)
             b == PointSum(t)
             c == PointSum(u)
  <2>1. a \in Points /\ b \in Points /\ c \in Points
    BY <1>3, <1>4, <1>5, PointSumType
  <2> HIDE DEF a, b, c
  <2>2. /\ a \in Int /\ b \in Int /\ a + b \in Int
        /\ Add(a, b) \in Points /\ Cong(Add(a, b), a + b, 8 * L)
    BY <2>1, PointIsInt, AddCong
  <2>3. c = Add(a, b)
    BY <1>7, <2>1, <2>2, SamePoint DEF a, b, c
  <2>4. QED BY <1>1, <1>2, <1>8, <2>3 DEF a, b, c

(* The points of a precomputation that have a scalar. *)
Used(c) == [i \in 1 .. Len(c.static_scalars) |-> c.static[i]]

(* The answer due to a call with a precomputed table: one sum over both    *)
(* lists.                                                                  *)
LEMMA PrecomputedOutcome ==
  ASSUME NEW c \in Calls, c.method = "precomputed", ~ HasNone(c), ~ Mismatched(c)
  PROVE  /\ c.points \in Seq(Points) /\ Used(c) \in Seq(Points)
         /\ Len(Used(c)) = Len(c.static_scalars) /\ Len(c.points) = Len(c.scalars)
         /\ Outcomes(c) = {Weigh(c.scalars \o c.static_scalars, c.points \o Used(c))}
<1> DEFINE x == c.scalars
           y == c.static_scalars
           P == c.points
           R == Used(c)
           n == Len(y)
<1>1. /\ x \in Seq(Nat) /\ y \in Seq(Nat) /\ P \in Seq(Points) /\ c.static \in Seq(Points)
      /\ Len(x) = Len(P) /\ n <= Len(c.static) /\ n \in Nat /\ Len(c.static) \in Nat
  <2>1. /\ x \in Seq(Nat) /\ y \in Seq(Nat) /\ P \in Seq(Points) /\ c.static \in Seq(Points)
    BY CallFacts, DecodablePoints
  <2>2. AllPoints(c) = P
    BY DEF AllPoints
  <2>3. Len(x) = Len(P) /\ ~ (Len(y) > Len(c.static))
    BY <2>2 DEF Mismatched
  <2>4. Len(y) \in Nat /\ Len(c.static) \in Nat
    BY <2>1, LenProperties
  <2>5. QED BY <2>1, <2>3, <2>4
<1>2. R \in Seq(Points) /\ Len(R) = n /\ DOMAIN R = 1 .. n /\ \A i \in 1 .. n : R[i] = c.static[i]
  <2> DEFINE S == c.static
  <2>1. \A i \in 1 .. n : S[i] \in Points
    BY <1>1, ElementOfSeq
  <2>2. R = [i \in 1 .. n |-> S[i]]
    BY DEF Used
  <2> HIDE DEF n, S, R
  <2>3. R \in [1 .. n -> Points] /\ \A i \in 1 .. n : R[i] = S[i]
    BY <2>1, <2>2
  <2>4. QED BY <1>1, <2>3 DEF S
<1> HIDE DEF R
<1>3. Combine(y, c.static) = Weigh(y, R)
  <2>1. (IF Len(y) < Len(c.static) THEN Len(y) ELSE Len(c.static)) = n
    BY <1>1
  <2>2. [i \in 1 .. n |-> Mul(y[i], c.static[i])] = [k \in DOMAIN R |-> Mul(y[k], R[k])]
    BY <1>2
  <2>3. QED BY <2>1, <2>2 DEF Combine, Weigh, PointSum
<1>4. Combine(x, P) = Weigh(x, P)
  <2> HIDE DEF x, P
  <2>1. QED BY <1>1, CombineIs
<1>5. Weigh(x, P) \in Points /\ Weigh(y, R) \in Points
  <2> HIDE DEF x, y, P
  <2>1. \A k \in 1 .. Len(P) : x[k] \in Int
    BY <1>1, ScalarsAreInt
  <2>2. \A k \in 1 .. Len(R) : y[k] \in Int
    BY <1>1, <1>2, ScalarsAreInt
  <2>3. QED BY <1>1, <1>2, <2>1, <2>2, WeighedPoints
<1>6. Weigh(x \o y, P \o R) = Add(Weigh(x, P), Weigh(y, R))
  <2> HIDE DEF x, y, P
  <2>1. QED BY <1>1, <1>2, WeighConcat
<1>7. Outcomes(c) = {Add(Combine(y, c.static), Combine(x, AllPoints(c)))}
  BY DEF Outcomes, HasLong
<1>8. AllPoints(c) = P
  BY DEF AllPoints
<1>9. Add(Weigh(x, P), Weigh(y, R)) = Add(Weigh(y, R), Weigh(x, P))
  BY <1>5, AddIsPoint
<1>10. QED BY <1>1, <1>2, <1>3, <1>4, <1>6, <1>7, <1>8, <1>9 DEF R

-----------------------------------------------------------------------------
(* The loop over non-adjacent forms: the digits are those of scalars x in  *)
(* forms of widths v, the tables are of widths t and of the points P.      *)
FitsNafs(x, v, t, P) ==
  /\ P \in Seq(Points)
  /\ \A k \in 1 .. Len(P) :
       /\ x[k] \in Nat /\ x[k] < Pow2[NafBits - 1]
       /\ v[k] \in 2 .. 8 /\ t[k] \in Nat /\ v[k] <= t[k]

NafsAre(nafs, multiples, x, v, t, P) ==
  /\ FitsNafs(x, v, t, P)
  /\ nafs = [k \in 1 .. Len(P) |-> Naf(x[k], v[k], NafBits)]
  /\ multiples = [k \in 1 .. Len(P) |-> OddMultiples(P[k], t[k])]

NafArrays(x, v, t, P) == NafsAre(digits, tables, x, v, t, P)

(* What Naf leaves at a place, of each scalar. *)
Left(x, v, P, place) == [k \in 1 .. Len(P) |-> NafK(x[k], v[k])[place]]

(* The sum of all the terms is the call's answer, and the accumulator is   *)
(* the sum of what is left at the place the loop has reached.              *)
NafLoop(x, v, P) ==
  ~ HasLong(call) =>
    /\ Outcomes(call) = {Weigh(x, P)}
    /\ Q = Weigh(Left(x, v, P, j + 1), P)

(* The invariant of the methods in non-adjacent form.                      *)
NafInv ==
  /\ pc \in {"Start", "Loop", "Done"} /\ j \in 0 .. NafBits - 1
  /\ pc = "Start" => Q = 0
  /\ \E x, v, t, P : NafArrays(x, v, t, P) /\ (pc = "Loop" => NafLoop(x, v, P))

(* A term's digits are differences of K, and select multiples of P.        *)
TermFits(d, table, K, y, P) ==
  /\ P \in Points /\ K \in [Nat -> Int] /\ K[0] = y
  /\ \A i \in Nat : i >= NafBits => K[i] = 0
  /\ d \in [0 .. NafBits - 1 -> -128 .. 127]
  /\ \A i \in 0 .. NafBits - 1 :
       /\ d[i] \in Int /\ d[i] = K[i] - 2 * K[i + 1]
       /\ Term(table, d[i]) = Mul(d[i], P)
       /\ d[i] # 0 => d[i] % 2 = 1 /\ Abs(d[i]) \div 2 \in DOMAIN table

(* A scalar that leaves the last place free for a carry, and a table wide  *)
(* enough for its digits.                                                  *)
LEMMA NafTermFits ==
  ASSUME NEW y \in Nat, y < Pow2[NafBits - 1], NEW u \in 2 .. 8, NEW t \in Nat, u <= t,
         NEW P \in Points
  PROVE  TermFits(Naf(y, u, NafBits), OddMultiples(P, t), NafK(y, u), y, P)
<1> DEFINE K == NafK(y, u)
           d == Naf(y, u, NafBits)
           A == OddMultiples(P, t)
           b == NafBits
<1>1. b \in Nat /\ b >= 1 /\ y < Pow2[b - 1] /\ d = Naf(y, u, b)
  BY NafConstants
<1> HIDE DEF b
<1>2. /\ NafK(y, u) \in [Nat -> Int] /\ NafK(y, u)[0] = y
      /\ \A i \in Nat : i >= b => NafK(y, u)[i] = 0
      /\ Naf(y, u, b) \in [0 .. b - 1 -> -128 .. 127]
      /\ \A i \in 0 .. b - 1 :
           /\ Naf(y, u, b)[i] = NafK(y, u)[i] - Pow2[1] * NafK(y, u)[i + 1]
           /\ Naf(y, u, b)[i] # 0 =>
                /\ Naf(y, u, b)[i] % 2 = 1
                /\ -Pow2[u - 1] < Naf(y, u, b)[i]
                /\ Naf(y, u, b)[i] < Pow2[u - 1]
  <2> HIDE DEF K, d
  <2>1. QED BY <1>1, NafDigits
<1> HIDE DEF K, d, A
<1>3. /\ K \in [Nat -> Int] /\ K[0] = y
      /\ \A i \in Nat : i >= b => K[i] = 0
      /\ d \in [0 .. b - 1 -> -128 .. 127]
      /\ \A i \in 0 .. b - 1 :
           /\ d[i] = K[i] - 2 * K[i + 1]
           /\ d[i] # 0 => d[i] % 2 = 1 /\ -Pow2[u - 1] < d[i] /\ d[i] < Pow2[u - 1]
  <2>1. /\ K \in [Nat -> Int] /\ K[0] = y
        /\ \A i \in Nat : i >= b => K[i] = 0
        /\ d \in [0 .. b - 1 -> -128 .. 127]
        /\ \A i \in 0 .. b - 1 :
             /\ d[i] = K[i] - Pow2[1] * K[i + 1]
             /\ d[i] # 0 => d[i] % 2 = 1 /\ -Pow2[u - 1] < d[i] /\ d[i] < Pow2[u - 1]
    BY <1>1, <1>2, Zenon DEF K
  <2>2. Pow2[1] = 2
    BY SmallPowers
  <2>3. QED BY <2>1, <2>2, Zenon
<1>4. ASSUME NEW i \in 0 .. b - 1
      PROVE  /\ d[i] \in Int /\ Term(A, d[i]) = Mul(d[i], P)
             /\ d[i] # 0 => Abs(d[i]) \div 2 \in DOMAIN A
  <2>1. d[i] \in -128 .. 127
    BY <1>3
  <2>2. d[i] \in Int
    BY <2>1
  <2>3. d[i] # 0 => d[i] % 2 = 1 /\ -Pow2[u - 1] < d[i] /\ d[i] < Pow2[u - 1]
    BY <1>3
  <2>4. QED BY <2>2, <2>3, TermIs DEF A
<1>5. TermFits(d, A, K, y, P)
  BY <1>3, <1>4 DEF TermFits, b
<1>6. QED BY <1>5 DEF d, A, K

(* So every term of the arrays fits.                                       *)
LEMMA NafArrayFacts ==
  ASSUME NEW x, NEW v, NEW t, NEW P, NafArrays(x, v, t, P)
  PROVE  /\ P \in Seq(Points) /\ Len(P) \in Nat /\ DOMAIN P = 1 .. Len(P)
         /\ DOMAIN digits = 1 .. Len(P) /\ DOMAIN tables = 1 .. Len(P)
         /\ \A k \in 1 .. Len(P) :
              TermFits(digits[k], tables[k], NafK(x[k], v[k]), x[k], P[k])
<1> DEFINE n == Len(P)
<1>1. /\ P \in Seq(Points) /\ n \in Nat /\ DOMAIN P = 1 .. n
      /\ digits = [k \in 1 .. n |-> Naf(x[k], v[k], NafBits)]
      /\ tables = [k \in 1 .. n |-> OddMultiples(P[k], t[k])]
  BY LenProperties DEF NafArrays, NafsAre, FitsNafs
<1>2. \A k \in 1 .. n : /\ x[k] \in Nat /\ x[k] < Pow2[NafBits - 1] /\ P[k] \in Points
                        /\ v[k] \in 2 .. 8 /\ t[k] \in Nat /\ v[k] <= t[k]
  BY <1>1, ElementOfSeq DEF NafArrays, NafsAre, FitsNafs
<1> HIDE DEF n
<1>3. ASSUME NEW k \in 1 .. n
      PROVE  TermFits(digits[k], tables[k], NafK(x[k], v[k]), x[k], P[k])
  <2>1. TermFits(Naf(x[k], v[k], NafBits), OddMultiples(P[k], t[k]), NafK(x[k], v[k]),
                 x[k], P[k])
    BY <1>2, NafTermFits
  <2>2. QED BY <1>1, <2>1
<1>4. DOMAIN digits = 1 .. n /\ DOMAIN tables = 1 .. n
  BY <1>1
<1>5. QED BY <1>1, <1>3, <1>4 DEF n

(* The column is the sum of the points weighed by their digits.            *)
LEMMA NafColumnIs ==
  ASSUME NEW x, NEW v, NEW t, NEW P, NafArrays(x, v, t, P), NEW i \in 0 .. NafBits - 1
  PROVE  NafColumn(i) = Weigh([k \in 1 .. Len(P) |-> digits[k][i]], P)
<1> DEFINE n == Len(P)
<1>1. /\ DOMAIN digits = 1 .. n /\ DOMAIN P = 1 .. n
      /\ \A k \in 1 .. n : TermFits(digits[k], tables[k], NafK(x[k], v[k]), x[k], P[k])
  BY NafArrayFacts
<1> HIDE DEF n
<1>2. \A k \in 1 .. n : Term(tables[k], digits[k][i]) = Mul(digits[k][i], P[k])
  BY <1>1 DEF TermFits
<1>3. [k \in DOMAIN digits |-> Term(tables[k], digits[k][i])]
        = [k \in DOMAIN P |-> Mul([m \in 1 .. n |-> digits[m][i]][k], P[k])]
  BY <1>1, <1>2
<1>4. QED BY <1>3 DEF NafColumn, Weigh, PointSum, n

(* One place down, what is left is doubled and gets its digit.             *)
LEMMA NafLeftStep ==
  ASSUME NEW x, NEW v, NEW t, NEW P, NafArrays(x, v, t, P), NEW i \in 0 .. NafBits - 1
  PROVE  /\ Weigh(Left(x, v, P, i), P) =
              Add(Mul(2, Weigh(Left(x, v, P, i + 1), P)), NafColumn(i))
         /\ Weigh(Left(x, v, P, i), P) \in Points
<1> DEFINE n == Len(P)
           d == [k \in 1 .. n |-> digits[k][i]]
           a == Left(x, v, P, i)
           b == Left(x, v, P, i + 1)
<1>1. P \in Seq(Points) /\ NafColumn(i) = Weigh(d, P)
  BY NafArrayFacts, NafColumnIs
<1>2. ASSUME NEW k \in 1 .. n
      PROVE  b[k] \in Int /\ d[k] \in Int /\ a[k] \in Int /\ a[k] = 2 * b[k] + d[k]
  <2> DEFINE K == NafK(x[k], v[k])
  <2>1. TermFits(digits[k], tables[k], K, x[k], P[k])
    BY NafArrayFacts
  <2>2. a[k] = K[i] /\ b[k] = K[i + 1] /\ d[k] = digits[k][i] /\ i \in Nat
    BY DEF Left
  <2> HIDE DEF K
  <2>3. K[i] \in Int /\ K[i + 1] \in Int /\ digits[k][i] = K[i] - 2 * K[i + 1]
    BY <2>1, <2>2 DEF TermFits
  <2> HIDE DEF a, b, d
  <2>4. QED BY <2>2, <2>3
<1> HIDE DEF a, b, d
<1>3. WeightsCombine(a, 2, b, d, n)
  BY <1>2 DEF WeightsCombine
<1>4. Weigh(a, P) = Add(Mul(2, Weigh(b, P)), Weigh(d, P))
  BY <1>1, <1>3, WeighCombines
<1>5. Weigh(a, P) \in Points
  BY <1>1, <1>2, WeighedPoints
<1>6. QED BY <1>1, <1>4, <1>5 DEF a, b

(* From place 0 on everything is left.                                     *)
LEMMA NafLeftFirst ==
  ASSUME NEW x, NEW v, NEW t, NEW P, NafArrays(x, v, t, P)
  PROVE  Weigh(Left(x, v, P, 0), P) = Weigh(x, P)
<1>1. /\ P \in Seq(Points)
      /\ \A k \in 1 .. Len(P) : NafK(x[k], v[k])[0] = x[k]
  <2>1. \A k \in 1 .. Len(P) : TermFits(digits[k], tables[k], NafK(x[k], v[k]), x[k], P[k])
    BY NafArrayFacts
  <2>2. QED BY <2>1, NafArrayFacts DEF TermFits
<1>2. \A k \in 1 .. Len(P) : Left(x, v, P, 0)[k] = x[k]
  BY <1>1 DEF Left
<1>3. QED BY <1>1, <1>2, WeighSame

(* The loop starts at a place above which there are no digits.             *)
LEMMA MaxOfPlaces ==
  ASSUME NEW n \in Nat, NEW S, S \subseteq 0 .. n, S # {}
  PROVE  Max(S) \in S /\ \A i \in S : i <= Max(S)
<1> DEFINE D == {n - i : i \in S}
<1>1. D \subseteq Nat /\ D # {}
  <2>1. \A i \in S : n - i \in Nat
    OBVIOUS
  <2>2. QED BY <2>1
<1>2. PICK d \in D : \A e \in D : d <= e
  <2> HIDE DEF D
  <2>1. QED BY <1>1, LeastElement
<1>3. PICK m \in S : d = n - m
  BY <1>2
<1>4. ASSUME NEW i \in S PROVE m >= i
  <2>1. n - i \in D
    OBVIOUS
  <2>2. d <= n - i
    BY <1>2, <2>1
  <2>3. QED BY <1>3, <2>2
<1>5. Max(S) \in S /\ \A i \in S : Max(S) >= i
  BY <1>3, <1>4 DEF Max
<1>6. QED BY <1>5

(* Above the highest place with a digit there is none, up to the limit.    *)
LEMMA TopPlaceIs ==
  ASSUME NEW nafs, NEW limit \in Nat
  PROVE  /\ TopPlace(nafs, limit) \in 0 .. limit
         /\ \A i \in 0 .. limit : i > TopPlace(nafs, limit) =>
              \A k \in DOMAIN nafs : nafs[k][i] = 0
<1> DEFINE S == {0} \cup {i \in 0 .. limit : \E k \in DOMAIN nafs : nafs[k][i] # 0}
<1>1. S \subseteq 0 .. limit /\ S # {}
  OBVIOUS
<1>2. TopPlace(nafs, limit) = Max(S)
  BY DEF TopPlace
<1>3. Max(S) \in S /\ \A i \in S : i <= Max(S)
  <2> HIDE DEF S
  <2>1. QED BY <1>1, MaxOfPlaces
<1>4. ASSUME NEW i \in 0 .. limit, i > Max(S), NEW k \in DOMAIN nafs, nafs[k][i] # 0
      PROVE  FALSE
  <2>1. i \in S
    BY <1>4
  <2>2. i <= Max(S) /\ Max(S) \in Int
    BY <1>1, <1>3, <2>1
  <2> HIDE DEF S
  <2>3. QED BY <1>4, <2>2
<1>5. QED BY <1>1, <1>2, <1>3, <1>4

-----------------------------------------------------------------------------
(* A loop may start at a place if no term has a digit from there to a      *)
(* limit, and none of them anything left beyond it.                        *)
Skips(nafs, place, limit, x, P) ==
  /\ limit \in 0 .. NafBits - 1 /\ place \in 0 .. limit
  /\ \A k \in 1 .. Len(P) : limit < NafBits - 1 => x[k] <= Pow2[limit]
  /\ \A i \in 0 .. limit : i > place => \A k \in 1 .. Len(P) : nafs[k][i] = 0

(* Then nothing is left above that place, and 0 is the right accumulator   *)
(* to start from.                                                          *)
LEMMA NafStartsAtTop ==
  ASSUME NEW x, NEW v, NEW t, NEW P, NEW nafs, NEW multiples,
         NafsAre(nafs, multiples, x, v, t, P),
         NEW place, NEW limit, Skips(nafs, place, limit, x, P)
  PROVE  Weigh(Left(x, v, P, place + 1), P) = 0
<1>1. /\ P \in Seq(Points) /\ Len(P) \in Nat
      /\ nafs = [k \in 1 .. Len(P) |-> Naf(x[k], v[k], NafBits)]
  BY LenProperties DEF NafsAre, FitsNafs
<1>2. ASSUME NEW k \in 1 .. Len(P)
      PROVE  Left(x, v, P, place + 1)[k] = 0
  <2> DEFINE y == x[k]
             u == v[k]
             K == NafK(y, u)
             b == NafBits
  <2>1. y \in Nat /\ y < Pow2[b - 1] /\ u \in 2 .. 8 /\ u \in Nat /\ u >= 2
    BY DEF NafsAre, FitsNafs
  <2>2. b \in Nat /\ b >= 1 /\ b - 1 \in Nat
    BY NafConstants
  <2>3. nafs[k] = Naf(y, u, b)
    BY <1>1
  <2>4. /\ limit \in 0 .. b - 1 /\ place \in 0 .. limit
        /\ limit < b - 1 => y <= Pow2[limit]
        /\ \A i \in 0 .. limit : i > place => nafs[k][i] = 0
    BY DEF Skips
  <2>5. Left(x, v, P, place + 1)[k] = K[place + 1]
    BY DEF Left
  <2> HIDE DEF y, u, b
  <2>6. /\ K \in [Nat -> Int]
        /\ \A i \in Nat : i >= b => K[i] = 0
        /\ \A i \in 0 .. b - 1 : nafs[k][i] = K[i] - 2 * K[i + 1]
    <3>1. P[k] \in Points /\ t[k] \in Nat /\ u <= t[k]
      BY <1>1, ElementOfSeq DEF NafsAre, FitsNafs, u
    <3>2. TermFits(Naf(y, u, b), OddMultiples(P[k], t[k]), NafK(y, u), y, P[k])
      BY <2>1, <3>1, NafTermFits DEF b
    <3>3. TermFits(nafs[k], OddMultiples(P[k], t[k]), K, y, P[k])
      BY <2>3, <3>2
    <3> HIDE DEF K
    <3>4. QED BY <3>3 DEF TermFits, b
  <2>7. limit \in Nat /\ limit + 1 \in Nat /\ place \in Nat /\ place + 1 \in Nat
    BY <2>2, <2>4
  <2>8. K[limit + 1] = 0
    <3>1. CASE limit = b - 1
      BY <2>2, <2>6, <2>7, <3>1
    <3>2. CASE limit < b - 1
      <4>1. \A i \in Nat : NafK(y, u)[i] \in Nat /\ (i > limit => NafK(y, u)[i] = 0)
        <5>1. y <= Pow2[limit]
          BY <2>4, <3>2
        <5> HIDE DEF K
        <5>2. QED BY <2>1, <2>7, <5>1, NafVanishes
      <4>2. QED BY <2>7, <4>1
    <3>3. QED BY <2>2, <2>4, <3>1, <3>2
  <2> HIDE DEF K
  <2> DEFINE p == place + 1
             q == limit + 1
  <2>9. p \in Nat /\ q \in Nat /\ p <= q /\ K[q] = 0
    BY <2>4, <2>7, <2>8
  <2>10. ASSUME NEW i \in p .. q - 1 PROVE K[i] - 2 * K[i + 1] = 0
    <3>1. i \in 0 .. limit /\ i \in 0 .. b - 1 /\ i > place
      BY <2>2, <2>4, <2>7
    <3>2. nafs[k][i] = 0 /\ nafs[k][i] = K[i] - 2 * K[i + 1]
      BY <2>4, <2>6, <3>1
    <3>3. QED BY <3>2, Zenon
  <2> HIDE DEF p, q
  <2>11. K[p] = 0
    BY <2>6, <2>9, <2>10, NafSkipsZeros
  <2>12. QED BY <2>5, <2>11 DEF p
<1>3. QED BY <1>1, <1>2, WeighZero

(* The place the search finds is such a place.                             *)
LEMMA SkipsToTop ==
  ASSUME NEW nafs, NEW limit \in 0 .. NafBits - 1, NEW x, NEW P, DOMAIN nafs = 1 .. Len(P),
         \A k \in 1 .. Len(P) : limit < NafBits - 1 => x[k] <= Pow2[limit]
  PROVE  Skips(nafs, TopPlace(nafs, limit), limit, x, P)
<1>1. limit \in Nat
  BY NafConstants
<1>2. QED BY <1>1, TopPlaceIs DEF Skips
-----------------------------------------------------------------------------
(* The scalars of these methods leave room for the carry.                  *)
LEMMA NafScalars ==
  ASSUME NEW c \in Calls, c.method \in NafMethods
  PROVE  /\ \A k \in 1 .. Len(c.scalars) :
              c.scalars[k] \in Nat /\ c.scalars[k] < Pow2[NafBits - 1]
         /\ \A k \in 1 .. Len(c.static_scalars) :
              c.static_scalars[k] \in Nat /\ c.static_scalars[k] < Pow2[NafBits - 1]
<1> DEFINE s == c.static_scalars
           u == c.scalars
           z == s \o u
<1>1. s \in Seq(Nat) /\ u \in Seq(Nat)
  BY CallFacts
<1>2. \A k \in DOMAIN z : z[k] < Pow2[NafBits - 1]
  BY NafAssumption
<1> HIDE DEF s, u
<1>3. z \in Seq(Nat) /\ Concats(z, s, u)
  BY <1>1, ConcatFacts
<1> HIDE DEF z
<1>4. DOMAIN z = 1 .. Len(s) + Len(u) /\ Len(s) \in Nat /\ Len(u) \in Nat
  BY <1>3, LenProperties DEF Concats
<1>5. \A k \in 1 .. Len(s) : k \in DOMAIN z /\ z[k] = s[k]
  BY <1>3, <1>4 DEF Concats
<1>6. \A k \in 1 .. Len(u) : Len(s) + k \in DOMAIN z /\ z[Len(s) + k] = u[k]
  BY <1>3, <1>4 DEF Concats
<1>7. \A k \in 1 .. Len(s) : s[k] \in Nat /\ s[k] < Pow2[NafBits - 1]
  BY <1>1, <1>2, <1>5, ElementOfSeq
<1>8. \A k \in 1 .. Len(u) : u[k] \in Nat /\ u[k] < Pow2[NafBits - 1]
  BY <1>1, <1>2, <1>6, ElementOfSeq
<1>9. QED BY <1>7, <1>8 DEF s, u

(* No table is narrower than the digits that select from it, in either     *)
(* build.                                                                  *)
LEMMA BasepointWidths ==
  /\ BasepointWidth \in 2 .. 8 /\ NafWidth \in 2 .. 8 /\ BigWidth \in 2 .. 8
  /\ NafWidth <= BasepointWidth /\ NafWidth <= BigWidth
  /\ BasepointWidth \in Nat /\ NafWidth \in Nat /\ BigWidth \in Nat
  /\ BasepointWidth <= BasepointWidth /\ NafWidth <= NafWidth
BY NafConstants DEF BasepointWidth

(* Two sequences given by their elements, one after the other.             *)
LEMMA ConcatIs ==
  ASSUME NEW m \in Nat, NEW n \in Nat, NEW f, NEW g, NEW s, NEW t,
         s = [k \in 1 .. m |-> f[k]], t = [k \in 1 .. n |-> g[k]]
  PROVE  s \o t = [k \in 1 .. m + n |-> IF k <= m THEN f[k] ELSE g[k - m]]
<1> DEFINE S == {f[k] : k \in 1 .. m} \cup {g[k] : k \in 1 .. n}
<1>1. s \in Seq(S) /\ t \in Seq(S) /\ Len(s) = m /\ Len(t) = n
  <2>1. s \in [1 .. m -> S] /\ t \in [1 .. n -> S]
    OBVIOUS
  <2> HIDE DEF S
  <2>2. QED BY <2>1
<1> HIDE DEF S
<1>2. s \o t \in Seq(S) /\ Concats(s \o t, s, t)
  BY <1>1, ConcatFacts
<1> DEFINE z == s \o t
<1> HIDE DEF z
<1>3. DOMAIN z = 1 .. m + n /\ z = [k \in DOMAIN z |-> z[k]]
  <2>1. z \in Seq(S) /\ Len(z) = m + n
    BY <1>1, <1>2 DEF Concats, z
  <2>2. QED BY <2>1
<1>4. ASSUME NEW k \in 1 .. m + n PROVE z[k] = IF k <= m THEN f[k] ELSE g[k - m]
  <2>1. CASE k <= m
    <3>1. k \in 1 .. m
      BY <2>1
    <3>2. z[k] = s[k]
      BY <1>1, <1>2, <3>1 DEF Concats, z
    <3>3. QED BY <2>1, <3>1, <3>2
  <2>2. CASE ~ (k <= m)
    <3>1. k - m \in 1 .. n /\ m + (k - m) = k
      BY <2>2
    <3>2. z[k] = t[k - m]
      BY <1>1, <1>2, <3>1 DEF Concats, z
    <3>3. QED BY <2>2, <3>1, <3>2
  <2>3. QED BY <2>1, <2>2
<1>5. QED BY <1>3, <1>4 DEF z

(* One more point, one more term.                                          *)
LEMMA WeighAppend ==
  ASSUME NEW P \in Seq(Points), NEW R \in Points, NEW x,
         \A k \in 1 .. Len(P) + 1 : x[k] \in Int
  PROVE  /\ Append(P, R) \in Seq(Points) /\ Len(Append(P, R)) = Len(P) + 1
         /\ \A k \in 1 .. Len(P) : Append(P, R)[k] = P[k]
         /\ Append(P, R)[Len(P) + 1] = R
         /\ Weigh(x, P) \in Points
         /\ Weigh(x, Append(P, R)) = Add(Weigh(x, P), Mul(x[Len(P) + 1], R))
<1> DEFINE n == Len(P)
           S == Append(P, R)
           u == [k \in DOMAIN P |-> Mul(x[k], P[k])]
           z == [k \in DOMAIN S |-> Mul(x[k], S[k])]
           r == Mul(x[n + 1], R)
<1>1. /\ S \in Seq(Points) /\ Len(S) = n + 1 /\ n \in Nat
      /\ \A k \in 1 .. n : S[k] = P[k] /\ S[n + 1] = R
  BY LenProperties
<1>1a. S[n + 1] = R
  OBVIOUS
<1>2. /\ \A k \in 1 .. n : x[k] \in Int
      /\ x[n + 1] \in Int /\ \A k \in 1 .. n + 1 : x[k] \in Int
  BY <1>1
<1> HIDE DEF S
<1>3. u \in Seq(Points) /\ Len(u) = n /\ Weigh(x, P) \in Points
      /\ \A k \in 1 .. n : u[k] = Mul(x[k], P[k])
  BY <1>2, WeighedPoints
<1>4. z \in Seq(Points) /\ Len(z) = n + 1
      /\ \A k \in 1 .. n + 1 : z[k] = Mul(x[k], S[k])
  <2> HIDE DEF n
  <2>1. \A k \in 1 .. Len(S) : x[k] \in Int
    BY <1>1, <1>2
  <2>2. /\ z \in Seq(Points) /\ Len(z) = Len(S)
        /\ \A k \in 1 .. Len(S) : z[k] = Mul(x[k], S[k])
    BY <1>1, <2>1, WeighedPoints
  <2>3. QED BY <1>1, <2>2
<1>5. r \in Points
  BY <1>2, PointIsInt, MulPoint
<1> HIDE DEF u, z, r, n
<1>6. z = Append(u, r)
  <2> DEFINE a == Append(u, r)
  <2>1. /\ a \in Seq(Points) /\ Len(a) = n + 1 /\ \A k \in 1 .. n : a[k] = u[k]
        /\ a[n + 1] = r
    BY <1>1, <1>3, <1>5
  <2> HIDE DEF a
  <2>2. ASSUME NEW k \in 1 .. n + 1 PROVE a[k] = z[k]
    <3>1. CASE k = n + 1
      BY <1>1, <1>1a, <1>4, <2>1, <3>1 DEF r
    <3>2. CASE k \in 1 .. n
      BY <1>1, <1>3, <1>4, <2>1, <3>2
    <3>3. QED BY <1>1, <3>1, <3>2
  <2>3. a = z
    BY <1>1, <1>4, <2>1, <2>2
  <2>4. QED BY <2>3 DEF a
<1>7. PointSum(z) = Add(PointSum(u), r)
  BY <1>3, <1>5, <1>6, PointSumAppend
<1>8. QED BY <1>1, <1>1a, <1>3, <1>7 DEF Weigh, z, u, r, S, n
-----------------------------------------------------------------------------
(* A loop that starts right: its digits and tables are those of terms whose*)
(* sum is the answer, and nothing is left above its first place.           *)
NafStarts(c, nafs, multiples, place) ==
  \E x, v, t, P :
    /\ NafsAre(nafs, multiples, x, v, t, P) /\ place \in 0 .. NafBits - 1
    /\ ~ HasLong(c) => Outcomes(c) = {Weigh(x, P)} /\ Weigh(Left(x, v, P, place + 1), P) = 0

(* What each method sets up is right for its loop.                         *)
LEMMA StrausStarts ==
  ASSUME NEW c \in Calls, c.method = "straus", ~ HasNone(c), Len(c.scalars) = Len(c.points)
  PROVE  NafStarts(c, SmallNafs(c.scalars), SmallTables(c.points), NafBits - 1)
<1> DEFINE x == c.scalars
           P == c.points
           v == [k \in 1 .. Len(P) |-> NafWidth]
           nafs == SmallNafs(x)
           multiples == SmallTables(P)
           e == NafBits - 1
<1>1. ~ HasLong(c) /\ ~ Mismatched(c) /\ AllPoints(c) = P /\ c.method # "precomputed"
  <2>1. c.static_scalars = <<>> /\ c.static = <<>>
    BY CallFacts
  <2>2. AllPoints(c) = P
    BY DEF AllPoints
  <2>3. Len(c.static_scalars) = 0 /\ Len(c.static) = 0
    BY <2>1
  <2>4. QED BY <2>2, <2>3 DEF HasLong, Mismatched
<1>2. Outcomes(c) = {Weigh(x, P)}
  BY <1>1, PlainOutcome
<1>3. P \in Seq(Points) /\ x \in Seq(Nat) /\ Len(x) = Len(P)
  BY DecodablePoints, CallFacts
<1>4. \A k \in 1 .. Len(x) : x[k] \in Nat /\ x[k] < Pow2[NafBits - 1]
  BY NafScalars DEF NafMethods
<1>5. DOMAIN x = 1 .. Len(P) /\ DOMAIN P = 1 .. Len(P) /\ Len(P) \in Nat
  BY <1>3, LenProperties
<1> HIDE DEF x, P
<1>6. FitsNafs(x, v, v, P)
  BY <1>3, <1>4, BasepointWidths DEF FitsNafs
<1>7. NafsAre(nafs, multiples, x, v, v, P)
  <2>1. nafs = [k \in 1 .. Len(P) |-> Naf(x[k], v[k], NafBits)]
    BY <1>5 DEF SmallNafs, SmallNaf
  <2>2. multiples = [k \in 1 .. Len(P) |-> OddMultiples(P[k], v[k])]
    BY <1>5 DEF SmallTables
  <2>3. QED BY <1>6, <2>1, <2>2 DEF NafsAre
<1> HIDE DEF nafs, multiples, v
<1>8. e \in 0 .. e /\ e \in Nat
  BY NafConstants
<1>9. Skips(nafs, e, e, x, P)
  BY <1>8 DEF Skips
<1> HIDE DEF e
<1>10. Weigh(Left(x, v, P, e + 1), P) = 0
  BY <1>7, <1>9, NafStartsAtTop
<1>11. e \in 0 .. NafBits - 1
  BY <1>8 DEF e
<1>12. NafStarts(c, nafs, multiples, e)
  BY <1>2, <1>7, <1>10, <1>11 DEF NafStarts
<1>13. QED BY <1>12 DEF nafs, multiples, e, x, P

LEMMA PrecomputedStarts ==
  ASSUME NEW c \in Calls, c.method = "precomputed", ~ HasNone(c), ~ Mismatched(c)
  PROVE  NafStarts(c, SmallNafs(c.scalars) \o SmallNafs(c.static_scalars),
                   SmallTables(c.points)
                     \o [k \in DOMAIN c.static_scalars |-> OddMultiples(c.static[k], BigWidth)],
                   NafBits - 1)
<1> DEFINE s == c.scalars
           z == c.static_scalars
           p == c.points
           U == Used(c)
           m == Len(s)
           n == Len(z)
           x == s \o z
           P == p \o U
           v == [k \in 1 .. m + n |-> NafWidth]
           t == [k \in 1 .. m + n |-> IF k <= m THEN NafWidth ELSE BigWidth]
           nafs == SmallNafs(s) \o SmallNafs(z)
           big == [k \in DOMAIN z |-> OddMultiples(c.static[k], BigWidth)]
           multiples == SmallTables(p) \o big
           e == NafBits - 1
<1>1. /\ p \in Seq(Points) /\ U \in Seq(Points) /\ Len(U) = n /\ Len(p) = m
      /\ Outcomes(c) = {Weigh(x, P)}
  BY PrecomputedOutcome
<1>2. s \in Seq(Nat) /\ z \in Seq(Nat)
  BY CallFacts
<1>3. /\ \A k \in 1 .. m : s[k] \in Nat /\ s[k] < Pow2[NafBits - 1]
      /\ \A k \in 1 .. n : z[k] \in Nat /\ z[k] < Pow2[NafBits - 1]
  BY NafScalars DEF NafMethods
<1>4. \A k \in 1 .. n : U[k] = c.static[k]
  BY DEF Used
<1>5. /\ DOMAIN s = 1 .. m /\ DOMAIN z = 1 .. n /\ DOMAIN p = 1 .. m /\ DOMAIN U = 1 .. n
      /\ m \in Nat /\ n \in Nat
  BY <1>1, <1>2, LenProperties
<1> HIDE DEF s, z, p, U, m, n
<1>6. /\ x = [k \in 1 .. m + n |-> IF k <= m THEN s[k] ELSE z[k - m]]
      /\ P = [k \in 1 .. m + n |-> IF k <= m THEN p[k] ELSE U[k - m]]
      /\ P \in Seq(Points) /\ Len(P) = m + n
  <2>1. /\ s = [k \in 1 .. m |-> s[k]] /\ z = [k \in 1 .. n |-> z[k]]
        /\ p = [k \in 1 .. m |-> p[k]] /\ U = [k \in 1 .. n |-> U[k]]
    BY <1>1, <1>2, <1>5
  <2>2. x = [k \in 1 .. m + n |-> IF k <= m THEN s[k] ELSE z[k - m]]
    BY <1>5, <2>1, ConcatIs
  <2>3. P = [k \in 1 .. m + n |-> IF k <= m THEN p[k] ELSE U[k - m]]
    BY <1>5, <2>1, ConcatIs
  <2>4. P \in Seq(Points) /\ Concats(P, p, U)
    BY <1>1, ConcatFacts
  <2>5. Len(P) = m + n
    BY <1>1, <2>4 DEF Concats
  <2>6. QED BY <2>2, <2>3, <2>4, <2>5
<1> HIDE DEF x, P
<1>7. FitsNafs(x, v, t, P)
  <2>1. ASSUME NEW k \in 1 .. m + n
        PROVE  x[k] \in Nat /\ x[k] < Pow2[NafBits - 1]
    <3>1. CASE k <= m
      <4>1. k \in 1 .. m
        BY <3>1
      <4>2. QED BY <1>3, <1>6, <3>1, <4>1
    <3>2. CASE ~ (k <= m)
      <4>1. k - m \in 1 .. n
        BY <1>5, <3>2
      <4>2. QED BY <1>3, <1>6, <3>2, <4>1
    <3>3. QED BY <3>1, <3>2
  <2>2. ASSUME NEW k \in 1 .. m + n
        PROVE  v[k] \in 2 .. 8 /\ t[k] \in Nat /\ v[k] <= t[k]
    BY BasepointWidths
  <2> HIDE DEF v, t
  <2>3. QED BY <1>6, <2>1, <2>2 DEF FitsNafs
<1>8. nafs = [k \in 1 .. Len(P) |-> Naf(x[k], v[k], NafBits)]
  <2> DEFINE f == SmallNafs(s)
             g == SmallNafs(z)
  <2>1. /\ f = [k \in 1 .. m |-> f[k]] /\ g = [k \in 1 .. n |-> g[k]]
        /\ \A k \in 1 .. m : f[k] = Naf(s[k], NafWidth, NafBits)
        /\ \A k \in 1 .. n : g[k] = Naf(z[k], NafWidth, NafBits)
    BY <1>5 DEF SmallNafs, SmallNaf
  <2> HIDE DEF f, g
  <2>2. f \o g = [k \in 1 .. m + n |-> IF k <= m THEN f[k] ELSE g[k - m]]
    BY <1>5, <2>1, ConcatIs
  <2>3. ASSUME NEW k \in 1 .. m + n
        PROVE  (IF k <= m THEN f[k] ELSE g[k - m]) = Naf(x[k], v[k], NafBits)
    <3>1. v[k] = NafWidth
      OBVIOUS
    <3>2. CASE k <= m
      <4>1. k \in 1 .. m
        BY <3>2
      <4>2. QED BY <1>6, <2>1, <3>1, <3>2, <4>1
    <3>3. CASE ~ (k <= m)
      <4>1. k - m \in 1 .. n
        BY <1>5, <3>3
      <4>2. QED BY <1>6, <2>1, <3>1, <3>3, <4>1
    <3>4. QED BY <3>2, <3>3
  <2>4. QED BY <1>6, <2>2, <2>3 DEF f, g
<1>9. multiples = [k \in 1 .. Len(P) |-> OddMultiples(P[k], t[k])]
  <2> DEFINE f == SmallTables(p)
  <2>1. /\ f = [k \in 1 .. m |-> f[k]] /\ big = [k \in 1 .. n |-> big[k]]
        /\ \A k \in 1 .. m : f[k] = OddMultiples(p[k], NafWidth)
        /\ \A k \in 1 .. n : big[k] = OddMultiples(U[k], BigWidth)
    BY <1>4, <1>5 DEF SmallTables
  <2> HIDE DEF f, big
  <2>2. f \o big = [k \in 1 .. m + n |-> IF k <= m THEN f[k] ELSE big[k - m]]
    BY <1>5, <2>1, ConcatIs
  <2>3. ASSUME NEW k \in 1 .. m + n
        PROVE  (IF k <= m THEN f[k] ELSE big[k - m]) = OddMultiples(P[k], t[k])
    <3>1. t[k] = IF k <= m THEN NafWidth ELSE BigWidth
      OBVIOUS
    <3>2. CASE k <= m
      <4>1. k \in 1 .. m
        BY <3>2
      <4>2. QED BY <1>6, <2>1, <3>1, <3>2, <4>1
    <3>3. CASE ~ (k <= m)
      <4>1. k - m \in 1 .. n
        BY <1>5, <3>3
      <4>2. QED BY <1>6, <2>1, <3>1, <3>3, <4>1
    <3>4. QED BY <3>2, <3>3
  <2>4. QED BY <1>6, <2>2, <2>3 DEF f
<1> HIDE DEF nafs, multiples, v, t
<1>10. NafsAre(nafs, multiples, x, v, t, P)
  BY <1>7, <1>8, <1>9 DEF NafsAre
<1>11. e \in 0 .. e /\ e \in Nat
  BY NafConstants
<1>12. Skips(nafs, e, e, x, P)
  BY <1>11 DEF Skips
<1> HIDE DEF e
<1>13. Weigh(Left(x, v, P, e + 1), P) = 0
  BY <1>10, <1>12, NafStartsAtTop
<1>14. e \in 0 .. NafBits - 1
  BY <1>11 DEF e
<1>15. NafStarts(c, nafs, multiples, e)
  BY <1>1, <1>10, <1>13, <1>14 DEF NafStarts
<1>16. QED BY <1>15 DEF nafs, multiples, big, e, s, z, p

(* The elements of a list with one more point.                             *)
LEMMA AppendIs ==
  ASSUME NEW P \in Seq(Points), NEW R \in Points
  PROVE  /\ Append(P, R) \in Seq(Points) /\ Len(Append(P, R)) = Len(P) + 1
         /\ \A k \in 1 .. Len(P) : Append(P, R)[k] = P[k]
         /\ Append(P, R)[Len(P) + 1] = R
<1>1. Append(P, R) \in Seq(Points) /\ Len(Append(P, R)) = Len(P) + 1
  OBVIOUS
<1>2. \A k \in 1 .. Len(P) : Append(P, R)[k] = P[k]
  BY LenProperties
<1>3. Append(P, R)[Len(P) + 1] = R
  OBVIOUS
<1>4. QED BY <1>1, <1>2, <1>3

(* Likewise for the two methods that add the basepoint.                    *)
LEMMA DoubleStarts ==
  ASSUME NEW c \in Calls, c.method = "double_base", NEW nafs,
         nafs = <<SmallNaf(c.scalars[1]), Naf(c.scalars[2], BasepointWidth, NafBits)>>
  PROVE  NafStarts(c, nafs, <<OddMultiples(c.points[1], NafWidth),
                              OddMultiples(Basepoint, BasepointWidth)>>,
                   TopPlace(nafs, NafBits - 1))
<1> DEFINE x == c.scalars
           p == c.points
           P == Append(p, Basepoint)
           v == <<NafWidth, BasepointWidth>>
           multiples == <<OddMultiples(p[1], NafWidth), OddMultiples(Basepoint, BasepointWidth)>>
           e == NafBits - 1
<1>1. /\ ~ HasLong(c) /\ ~ Mismatched(c) /\ ~ HasNone(c) /\ c.method # "precomputed"
      /\ AllPoints(c) = P /\ Len(p) = 1
  BY CallFacts DEF AllPoints, HasLong
<1>2. Outcomes(c) = {Weigh(x, P)} /\ Len(x) = Len(P)
  BY <1>1, PlainOutcome
<1>3. p \in Seq(Points)
  BY <1>1, DecodablePoints
<1>4. \A k \in 1 .. Len(x) : x[k] \in Nat /\ x[k] < Pow2[NafBits - 1]
  BY NafScalars DEF NafMethods
<1> HIDE DEF x, p
<1>5. /\ P \in Seq(Points) /\ Len(P) = 2 /\ P[1] = p[1] /\ P[2] = Basepoint
  <2>1. 1 \in 1 .. Len(p) /\ Len(p) + 1 = 2
    BY <1>1
  <2>2. QED BY <1>3, <2>1, BasepointIsPoint, AppendIs
<1> HIDE DEF P
<1>6. v[1] = NafWidth /\ v[2] = BasepointWidth
  OBVIOUS
<1>7. 1 .. 2 = {1, 2}
  OBVIOUS
<1>8. FitsNafs(x, v, v, P)
  <2> HIDE DEF v
  <2>1. \A k \in 1 .. 2 : v[k] \in 2 .. 8 /\ v[k] \in Nat /\ v[k] <= v[k]
    BY <1>6, <1>7, BasepointWidths
  <2>2. QED BY <1>2, <1>4, <1>5, <2>1 DEF FitsNafs
<1>9. nafs = [k \in 1 .. Len(P) |-> Naf(x[k], v[k], NafBits)]
  BY <1>5, <1>7 DEF SmallNaf, x
<1>10. multiples = [k \in 1 .. Len(P) |-> OddMultiples(P[k], v[k])]
  BY <1>5, <1>7
<1> HIDE DEF multiples, v
<1>11. NafsAre(nafs, multiples, x, v, v, P)
  BY <1>8, <1>9, <1>10 DEF NafsAre
<1>12. e \in 0 .. NafBits - 1 /\ ~ (e < NafBits - 1) /\ e \in Nat
  BY NafConstants
<1>13. DOMAIN nafs = 1 .. Len(P)
  BY <1>9
<1> HIDE DEF e
<1>14. Skips(nafs, TopPlace(nafs, e), e, x, P)
  BY <1>12, <1>13, SkipsToTop
<1>15. Weigh(Left(x, v, P, TopPlace(nafs, e) + 1), P) = 0
  BY <1>11, <1>14, NafStartsAtTop
<1>16. TopPlace(nafs, e) \in 0 .. NafBits - 1
  BY <1>12, TopPlaceIs DEF e
<1>17. NafStarts(c, nafs, multiples, TopPlace(nafs, e))
  BY <1>2, <1>11, <1>15, <1>16 DEF NafStarts
<1>18. QED BY <1>17 DEF multiples, e, p

(* The halves of the long scalar, for the basepoint and its multiple.      *)
LEMMA Halves ==
  ASSUME NEW b \in Nat, b < Pow2[NafBits - 1]
  PROVE  /\ b % Pow2[Half] \in Nat /\ b % Pow2[Half] < Pow2[Half]
         /\ b \div Pow2[Half] \in Nat /\ b \div Pow2[Half] < Pow2[Half]
         /\ b = (b % Pow2[Half]) + (b \div Pow2[Half]) * Pow2[Half]
         /\ Pow2[Half] <= Pow2[NafBits - 1] /\ Pow2[Half] <= Pow2[HEEA_MAX_INDEX]
         /\ HEEA_MAX_INDEX \in 0 .. NafBits - 1
<1> DEFINE H == Pow2[Half]
<1>1. /\ Half \in Nat /\ Half >= 2 /\ NafBits = Half + Half /\ NafBits - 1 \in Nat
      /\ Half <= NafBits - 1 /\ HEEA_MAX_INDEX \in Nat /\ Half <= HEEA_MAX_INDEX
      /\ HEEA_MAX_INDEX <= NafBits - 1 /\ NafBits \in Nat /\ NafBits - 1 <= NafBits
  BY NafConstants DEF HEEA_MAX_INDEX
<1>2. H \in Nat /\ H >= 1
  BY NafConstants
<1>3. Pow2[NafBits - 1] <= Pow2[NafBits]
  BY <1>1, Pow2Monotone
<1>4. Pow2[NafBits - 1] \in Nat /\ Pow2[NafBits] \in Nat
  BY <1>1, Pow2Positive
<1>5. b < Pow2[Half + Half]
  BY <1>1, <1>3, <1>4
<1>6. b \div H \in 0 .. H - 1
  BY <1>1, <1>5, DivSmall
<1>7. b % H \in 0 .. H - 1 /\ b = H * (b \div H) + (b % H)
  <2>1. b \in Int
    OBVIOUS
  <2>2. QED BY <1>1, <2>1, DivFacts
<1>8. Pow2[Half] <= Pow2[NafBits - 1]
  BY <1>1, Pow2Monotone
<1>9. Pow2[Half] <= Pow2[HEEA_MAX_INDEX]
  BY <1>1, Pow2Monotone
<1> DEFINE q == b \div H
           r == b % H
<1>10. b = r + q * H
  <2>1. q \in Int /\ r \in Int /\ b = H * q + r
    BY <1>2, <1>6, <1>7
  <2> HIDE DEF q, r, H
  <2>2. QED BY <1>2, <2>1
<1>11. r \in Nat /\ r < H /\ q \in Nat /\ q < H
  <2> HIDE DEF q, r, H
  <2>1. q \in 0 .. H - 1 /\ r \in 0 .. H - 1
    BY <1>6, <1>7 DEF q, r
  <2>2. QED BY <1>2, <2>1
<1>12. HEEA_MAX_INDEX \in 0 .. NafBits - 1
  BY <1>1
<1>13. QED BY <1>8, <1>9, <1>10, <1>11, <1>12, Zenon

(* The halves of the long scalar weigh the basepoint and its multiple by   *)
(* 2^Half, and the short scalars leave nothing above HEEA_MAX_INDEX.       *)
LEMMA TripleStarts ==
  ASSUME NEW c \in Calls, c.method = "triple_base", NEW nafs, NEW B2,
         B2 = Mul(Pow2[Half], Basepoint),
         nafs = SmallNafs(<<c.scalars[1], c.scalars[2],
                            c.scalars[3] % Pow2[Half], c.scalars[3] \div Pow2[Half]>>)
  PROVE  NafStarts(c, nafs,
                   SmallTables(c.points)
                     \o <<OddMultiples(Basepoint, BasepointWidth),
                          OddMultiples(B2, BasepointWidth)>>,
                   TopPlace(nafs, HEEA_MAX_INDEX))
<1> DEFINE s == c.scalars
           p == c.points
           H == Pow2[Half]
           B == Basepoint
           b == s[3]
           x == <<s[1], s[2], b % H, b \div H>>
           P3 == Append(p, B)
           P == Append(P3, B2)
           v == [k \in 1 .. 4 |-> NafWidth]
           t == [k \in 1 .. 4 |-> IF k <= 2 THEN NafWidth ELSE BasepointWidth]
           big == <<OddMultiples(B, BasepointWidth), OddMultiples(B2, BasepointWidth)>>
           multiples == SmallTables(p) \o big
           e == HEEA_MAX_INDEX
<1>1. /\ ~ Mismatched(c) /\ ~ HasNone(c) /\ c.method # "precomputed"
      /\ AllPoints(c) = P3 /\ Len(p) = 2
  BY CallFacts DEF AllPoints
<1>2. Len(s) = Len(P3)
  BY <1>1, CallFacts DEF Mismatched
<1>3. ~ HasLong(c) => Outcomes(c) = {Weigh(s, P3)}
  BY <1>1, PlainOutcome
<1>4. p \in Seq(Points)
  BY <1>1, DecodablePoints
<1>5. \A k \in 1 .. Len(s) : s[k] \in Nat /\ s[k] < Pow2[NafBits - 1]
  BY NafScalars DEF NafMethods
<1>6. ~ HasLong(c) => s[1] < H /\ s[2] < H
  BY NafConstants DEF HasLong, IsShort
<1>7a. B2 = Mul(H, B)
  OBVIOUS
<1>7. B \in Points /\ B2 \in Points /\ H \in Int /\ H \in Nat
  <2>1. H \in Nat /\ H \in Int
    BY NafConstants
  <2> HIDE DEF H
  <2>2. B \in Points /\ B \in Int
    BY BasepointIsPoint, PointIsInt
  <2>3. Mul(H, B) \in Points
    BY <2>1, <2>2, MulPoint
  <2>4. QED BY <1>7a, <2>1, <2>2, <2>3
<1> HIDE DEF s, p, B
<1>8. /\ P3 \in Seq(Points) /\ Len(P3) = 3 /\ P3[1] = p[1] /\ P3[2] = p[2] /\ P3[3] = B
  <2>1. 1 \in 1 .. Len(p) /\ 2 \in 1 .. Len(p) /\ Len(p) + 1 = 3
    BY <1>1
  <2>2. QED BY <1>4, <1>7, <2>1, AppendIs
<1> HIDE DEF P3
<1>9. /\ P \in Seq(Points) /\ Len(P) = 4 /\ P[1] = p[1] /\ P[2] = p[2] /\ P[3] = B
      /\ P[4] = B2
  <2>1. 1 \in 1 .. Len(P3) /\ 2 \in 1 .. Len(P3) /\ 3 \in 1 .. Len(P3) /\ Len(P3) + 1 = 4
    BY <1>8
  <2>2. /\ P \in Seq(Points) /\ Len(P) = Len(P3) + 1
        /\ \A k \in 1 .. Len(P3) : P[k] = P3[k]
        /\ P[Len(P3) + 1] = B2
    BY <1>7, <1>8, AppendIs
  <2> HIDE DEF P
  <2>3. QED BY <1>8, <2>1, <2>2
<1> HIDE DEF P
<1>10. /\ s[1] \in Nat /\ s[2] \in Nat /\ b \in Nat
       /\ s[1] < Pow2[NafBits - 1] /\ s[2] < Pow2[NafBits - 1] /\ b < Pow2[NafBits - 1]
  BY <1>2, <1>5, <1>8
<1>11. /\ b % H \in Nat /\ b % H < H /\ b \div H \in Nat /\ b \div H < H
       /\ b = (b % H) + (b \div H) * H
       /\ H <= Pow2[NafBits - 1] /\ H <= Pow2[e] /\ e \in 0 .. NafBits - 1
  BY <1>10, Halves
<1>12. x[1] = s[1] /\ x[2] = s[2] /\ x[3] = b % H /\ x[4] = b \div H /\ DOMAIN x = 1 .. 4
  OBVIOUS
<1>13. 1 .. 4 = {1, 2, 3, 4} /\ 1 .. 2 = {1, 2}
  OBVIOUS
<1>14. nafs = [k \in 1 .. Len(P) |-> Naf(x[k], v[k], NafBits)]
  <2>1. nafs = SmallNafs(x)
    BY DEF s
  <2> HIDE DEF x
  <2>2. QED BY <1>9, <1>12, <2>1 DEF SmallNafs, SmallNaf
<1> HIDE DEF x, e, b, H
<1>15. Pow2[NafBits - 1] \in Nat /\ Pow2[e] \in Nat /\ e \in Nat
  BY <1>11, NafConstants, Pow2Positive
<1>16. \A k \in 1 .. 4 : x[k] \in Nat /\ x[k] \in Int /\ x[k] < Pow2[NafBits - 1]
  BY <1>7, <1>10, <1>11, <1>12, <1>13, <1>15
<1>17. FitsNafs(x, v, t, P)
  <2>1. ASSUME NEW k \in 1 .. 4
        PROVE  v[k] \in 2 .. 8 /\ t[k] \in Nat /\ v[k] <= t[k]
    BY BasepointWidths
  <2> HIDE DEF v, t
  <2>2. QED BY <1>9, <1>16, <2>1 DEF FitsNafs
<1>18. multiples = [k \in 1 .. Len(P) |-> OddMultiples(P[k], t[k])]
  <2> DEFINE f == SmallTables(p)
             O1 == OddMultiples(B, BasepointWidth)
             O2 == OddMultiples(B2, BasepointWidth)
             two == 2
  <2>1. DOMAIN p = 1 .. two
    BY <1>1, <1>4, LenProperties
  <2>2. /\ f = [k \in 1 .. two |-> f[k]]
        /\ \A k \in 1 .. two : f[k] = OddMultiples(p[k], NafWidth)
    BY <2>1 DEF SmallTables
  <2>3. big = [k \in 1 .. two |-> big[k]] /\ big[1] = O1 /\ big[2] = O2
    <3>1. big = <<O1, O2>>
      BY DEF big
    <3>2. 1 .. two = {1, 2}
      BY <1>13
    <3> HIDE DEF O1, O2, big, two
    <3>3. DOMAIN big = 1 .. two /\ big[1] = O1 /\ big[2] = O2
      BY <3>1, <3>2
    <3>4. big = [k \in DOMAIN big |-> big[k]]
      BY <3>1
    <3>5. QED BY <3>3, <3>4
  <2>4. two \in Nat
    OBVIOUS
  <2> HIDE DEF f, big, two
  <2>5. multiples = [k \in 1 .. two + two |-> IF k <= two THEN f[k] ELSE big[k - two]]
    BY <2>2, <2>3, <2>4, ConcatIs DEF f
  <2>6. ASSUME NEW k \in 1 .. 4
        PROVE  (IF k <= 2 THEN f[k] ELSE big[k - 2]) = OddMultiples(P[k], t[k])
    <3>1. t[k] = IF k <= 2 THEN NafWidth ELSE BasepointWidth
      OBVIOUS
    <3>2. CASE k = 1
      BY <1>9, <2>2, <3>1, <3>2 DEF two
    <3>3. CASE k = 2
      BY <1>9, <2>2, <3>1, <3>3 DEF two
    <3>4. CASE k = 3
      BY <1>9, <2>3, <3>1, <3>4
    <3>5. CASE k = 4
      BY <1>9, <2>3, <3>1, <3>5
    <3>6. QED BY <1>13, <3>2, <3>3, <3>4, <3>5
  <2>7. two + two = 4 /\ two = 2
    BY DEF two
  <2>8. QED BY <1>9, <2>5, <2>6, <2>7
<1> HIDE DEF multiples, v, t
<1>19. NafsAre(nafs, multiples, x, v, t, P)
  BY <1>14, <1>17, <1>18 DEF NafsAre
<1>20. TopPlace(nafs, e) \in 0 .. NafBits - 1
  <2>1. TopPlace(nafs, e) \in 0 .. e
    BY <1>15, TopPlaceIs
  <2>2. QED BY <1>11, <1>15, <2>1, NafConstants
<1>21. ASSUME ~ HasLong(c)
       PROVE  Outcomes(c) = {Weigh(x, P)} /\ Weigh(Left(x, v, P, TopPlace(nafs, e) + 1), P) = 0
  <2>1. \A k \in 1 .. Len(P) : e < NafBits - 1 => x[k] <= Pow2[e]
    <3>1. x[1] <= Pow2[e] /\ x[2] <= Pow2[e] /\ x[3] <= Pow2[e] /\ x[4] <= Pow2[e]
      BY <1>6, <1>7, <1>10, <1>11, <1>12, <1>15, <1>21
    <3>2. QED BY <1>9, <1>13, <3>1
  <2>2. DOMAIN nafs = 1 .. Len(P)
    BY <1>14
  <2>3. Skips(nafs, TopPlace(nafs, e), e, x, P)
    BY <1>11, <2>1, <2>2, SkipsToTop
  <2>4. Weigh(Left(x, v, P, TopPlace(nafs, e) + 1), P) = 0
    BY <1>19, <2>3, NafStartsAtTop
  <2>5. Weigh(x, P) = Weigh(s, P3)
    <3> DEFINE X == Weigh(x, p)
               q == x[4]
               r == x[3]
    <3>1. /\ Weigh(x, P3) = Add(X, Mul(r, B)) /\ X \in Points
      <4>1. \A k \in 1 .. Len(p) + 1 : x[k] \in Int
        BY <1>1, <1>16
      <4>2. Len(p) + 1 = 3
        BY <1>1
      <4>3. QED BY <1>4, <1>7, <4>1, <4>2, WeighAppend DEF P3
    <3>2. Weigh(x, P) = Add(Weigh(x, P3), Mul(q, B2))
      <4>1. \A k \in 1 .. Len(P3) + 1 : x[k] \in Int
        BY <1>8, <1>16
      <4>2. Len(P3) + 1 = 4
        BY <1>8
      <4>3. x[4] = x[Len(P3) + 1]
        BY <4>2
      <4> HIDE DEF q, r, X
      <4>4. Weigh(x, Append(P3, B2)) = Add(Weigh(x, P3), Mul(x[Len(P3) + 1], B2))
        BY <1>7, <1>8, <4>1, WeighAppend
      <4>5. QED BY <4>3, <4>4 DEF P, q
    <3>3. Weigh(s, P3) = Add(Weigh(s, p), Mul(b, B))
      <4>1. \A k \in 1 .. Len(p) + 1 : s[k] \in Int
        BY <1>1, <1>2, <1>5, <1>8
      <4>2. Len(p) + 1 = 3
        BY <1>1
      <4>3. QED BY <1>4, <1>7, <4>1, <4>2, WeighAppend DEF P3, b
    <3>4. Weigh(s, p) = X
      <4>1. \A k \in 1 .. Len(p) : s[k] = x[k]
        BY <1>1, <1>12, <1>13
      <4>2. QED BY <1>4, <4>1, WeighSame
    <3>5. /\ q \in Int /\ r \in Int /\ q * H \in Int /\ b = r + q * H
      BY <1>7, <1>11, <1>12
    <3> HIDE DEF X, q, r
    <3>6. Mul(q, B2) = Mul(q * H, B)
      <4>1. Mul(q, Mul(H, B)) = Mul(q * H, B)
        BY <1>7, <3>5, MulMul
      <4>2. QED BY <1>7a, <4>1 DEF H, B
    <3>7. Add(Mul(r, B), Mul(q * H, B)) = Mul(b, B)
      BY <1>7, <3>5, MulAdd
    <3>8. Mul(r, B) \in Points /\ Mul(q * H, B) \in Points
      BY <1>7, <3>5, PointIsInt, MulPoint
    <3>9. Add(Add(X, Mul(r, B)), Mul(q * H, B)) = Add(X, Add(Mul(r, B), Mul(q * H, B)))
      BY <3>1, <3>8, AddIsPoint
    <3>10. QED BY <3>1, <3>2, <3>3, <3>4, <3>6, <3>7, <3>9
  <2>6. QED BY <1>3, <1>21, <2>4, <2>5
<1>22. NafStarts(c, nafs, multiples, TopPlace(nafs, e))
  BY <1>19, <1>20, <1>21 DEF NafStarts
<1>23. QED BY <1>22 DEF multiples, big, e, p, B

-----------------------------------------------------------------------------
(* The call, the accumulator and the answer.                               *)
CallInv ==
  /\ call \in Calls /\ build \in BOOLEAN \X BOOLEAN /\ Q \in Points
  /\ result \in Points \cup {None, Panic, Pending}
  /\ IF pc = "Done" THEN result \in Outcomes(call) ELSE result = Pending

(* The answers other than a point are allowed where they are given.        *)
LEMMA Refusals ==
  ASSUME NEW c \in Calls
  PROVE  /\ HasLong(c) => Outcomes(c) = Points \cup {Panic}
         /\ c.method # "triple_base" /\ Mismatched(c) => Panic \in Outcomes(c)
         /\ c.method # "triple_base" /\ HasNone(c) => None \in Outcomes(c)
<1>1. HasLong(c) => Outcomes(c) = Points \cup {Panic}
  <2>1. HasLong(c) => ~ Mismatched(c) /\ ~ HasNone(c)
    BY CallFacts DEF HasLong
  <2>2. QED BY <2>1 DEF Outcomes
<1>2. c.method # "triple_base" => ~ HasLong(c)
  BY DEF HasLong
<1>3. c.method # "triple_base" /\ Mismatched(c) => Panic \in Outcomes(c)
  BY <1>2 DEF Outcomes
<1>4. c.method # "triple_base" /\ HasNone(c) => None \in Outcomes(c)
  BY <1>2 DEF Outcomes
<1>5. QED BY <1>1, <1>3, <1>4

(* A refusal, or an answer the loop arrives at.                            *)
LEMMA Returns ==
  ASSUME CallInv, NEW value, Return(value), value \in Outcomes(call),
         value \in Points \cup {None, Panic}, Q' \in Points
  PROVE  CallInv'
<1>1. /\ result' = value /\ pc' = "Done" /\ call' = call /\ build' = build
  BY DEF Return
<1>2. QED BY <1>1 DEF CallInv, build

(* The refusals leave the loop where it was.                               *)
LEMMA NafReturns ==
  ASSUME NafInv, NEW value, Return(value)
  PROVE  NafInv'
<1>1. /\ pc' = "Done" /\ digits' = digits /\ tables' = tables /\ j' = j
  BY DEF Return
<1>2. PICK x, v, t, P : NafArrays(x, v, t, P)
  BY DEF NafInv
<1>3. NafsAre(digits', tables', x, v, t, P)
  BY <1>1, <1>2 DEF NafArrays
<1>4. QED BY <1>1, <1>3 DEF NafInv, NafArrays

(* A start and a step of the loop keep the invariant; the last step        *)
(* returns the answer due.                                                 *)
LEMMA NafStartInv ==
  ASSUME CallInv, NafInv, pc = "Start", NEW nafs, NEW multiples, NEW place,
         NafStarts(call, nafs, multiples, place), StartLoop(nafs, multiples, place)
  PROVE  CallInv' /\ NafInv'
<1>1. /\ digits' = nafs /\ tables' = multiples /\ j' = place /\ pc' = "Loop"
      /\ call' = call /\ result' = result /\ build' = build /\ w' = w /\ Q' = Q
  BY DEF StartLoop
<1>2. CallInv'
  BY <1>1 DEF CallInv, build
<1>3. PICK x, v, t, P :
        /\ NafsAre(nafs, multiples, x, v, t, P) /\ place \in 0 .. NafBits - 1
        /\ ~ HasLong(call) =>
             Outcomes(call) = {Weigh(x, P)} /\ Weigh(Left(x, v, P, place + 1), P) = 0
  BY DEF NafStarts
<1>4. Q' = 0
  BY <1>1 DEF NafInv
<1>5. NafArrays(x, v, t, P)'
  <2>1. NafsAre(digits', tables', x, v, t, P)
    BY <1>1, <1>3
  <2>2. QED BY <2>1 DEF NafArrays
<1>6. NafLoop(x, v, P)'
  <2>1. ~ HasLong(call') =>
          Outcomes(call') = {Weigh(x, P)} /\ Q' = Weigh(Left(x, v, P, j' + 1), P)
    BY <1>1, <1>3, <1>4
  <2>2. QED BY <2>1 DEF NafLoop
<1>7. NafInv'
  BY <1>1, <1>3, <1>5, <1>6 DEF NafInv
<1>8. QED BY <1>2, <1>7

LEMMA DoubleAndAddInv ==
  ASSUME CallInv, NafInv, DoubleAndAdd
  PROVE  CallInv' /\ NafInv'
<1>1. /\ pc = "Loop" /\ Q' = Add(Mul(2, Q), NafColumn(j))
      /\ IF j = 0 THEN Return(Q')
         ELSE j' = j - 1 /\ UNCHANGED <<call, result, build, pc, w, digits, tables>>
  BY DEF DoubleAndAdd
<1>2. PICK x, v, t, P : NafArrays(x, v, t, P) /\ NafLoop(x, v, P)
  BY <1>1 DEF NafInv
<1>3. j \in 0 .. NafBits - 1 /\ j \in Int /\ NafBits \in Nat
  BY NafConstants DEF NafInv
<1>4. Q' \in Points
  <2>1. NafColumn(j) \in Points
    <3> DEFINE d == [k \in 1 .. Len(P) |-> digits[k][j]]
    <3>1. P \in Seq(Points) /\ NafColumn(j) = Weigh(d, P)
      BY <1>2, <1>3, NafArrayFacts, NafColumnIs
    <3>2. ASSUME NEW k \in 1 .. Len(P) PROVE d[k] \in Int
      <4>1. TermFits(digits[k], tables[k], NafK(x[k], v[k]), x[k], P[k])
        BY <1>2, NafArrayFacts
      <4>2. digits[k][j] \in Int
        BY <1>3, <4>1 DEF TermFits
      <4>3. QED BY <4>2
    <3> HIDE DEF d
    <3>3. QED BY <3>1, <3>2, WeighedPoints
  <2>2. Q \in Points /\ 2 \in Int
    BY DEF CallInv
  <2>3. Mul(2, Q) \in Points
    BY <2>2, PointIsInt, MulPoint
  <2>4. QED BY <1>1, <2>1, <2>3, AddIsPoint
<1>5. ~ HasLong(call) =>
        Outcomes(call) = {Weigh(x, P)} /\ Q' = Weigh(Left(x, v, P, j), P)
  <2>1. Weigh(Left(x, v, P, j), P) =
          Add(Mul(2, Weigh(Left(x, v, P, j + 1), P)), NafColumn(j))
    BY <1>2, <1>3, NafLeftStep
  <2>2. ~ HasLong(call) =>
          Outcomes(call) = {Weigh(x, P)} /\ Q = Weigh(Left(x, v, P, j + 1), P)
    BY <1>2 DEF NafLoop
  <2>3. QED BY <1>1, <2>1, <2>2
<1>6. CASE j = 0
  <2>1. Return(Q')
    BY <1>1, <1>6
  <2>2. Q' \in Outcomes(call)
    <3>1. CASE HasLong(call)
      BY <1>4, <3>1, Refusals DEF CallInv
    <3>2. CASE ~ HasLong(call)
      <4>1. Weigh(Left(x, v, P, 0), P) = Weigh(x, P)
        BY <1>2, NafLeftFirst
      <4>2. QED BY <1>5, <1>6, <3>2, <4>1
    <3>3. QED BY <3>1, <3>2
  <2>3. CallInv'
    BY <1>4, <2>1, <2>2, Returns
  <2>4. NafInv'
    BY <2>1, NafReturns
  <2>5. QED BY <2>3, <2>4
<1>7. CASE j # 0
  <2>1. j' = j - 1 /\ call' = call /\ result' = result /\ build' = build /\ pc' = pc
        /\ digits' = digits /\ tables' = tables
    BY <1>1, <1>7
  <2>2. CallInv'
    BY <1>4, <2>1 DEF CallInv, build
  <2>3. NafArrays(x, v, t, P)'
    <3>1. NafsAre(digits', tables', x, v, t, P)
      BY <1>2, <2>1 DEF NafArrays
    <3>2. QED BY <3>1 DEF NafArrays
  <2>4. NafLoop(x, v, P)'
    <3>1. j' + 1 = j
      BY <1>3, <2>1
    <3>2. ~ HasLong(call') =>
            Outcomes(call') = {Weigh(x, P)} /\ Q' = Weigh(Left(x, v, P, j' + 1), P)
      BY <1>5, <2>1, <3>1
    <3>3. QED BY <3>2 DEF NafLoop
  <2>5. pc' = "Loop" /\ j' \in 0 .. NafBits - 1
    BY <1>1, <1>3, <1>7, <2>1
  <2>6. NafInv'
    BY <2>3, <2>4, <2>5 DEF NafInv
  <2>7. QED BY <2>2, <2>6
<1>8. QED BY <1>6, <1>7

(* So every step over non-adjacent forms does.                             *)
LEMMA NafStepInv ==
  ASSUME CallInv, NafInv, NafStep
  PROVE  CallInv' /\ NafInv'
<1>1. call \in Calls /\ Q \in Points
  BY DEF CallInv
<1>2. CASE StartDouble
  <2> DEFINE nafs == <<SmallNaf(call.scalars[1]),
                       Naf(call.scalars[2], BasepointWidth, NafBits)>>
             multiples == <<OddMultiples(call.points[1], NafWidth),
                            OddMultiples(Basepoint, BasepointWidth)>>
             place == TopPlace(nafs, NafBits - 1)
  <2>1. pc = "Start" /\ call.method = "double_base" /\ StartLoop(nafs, multiples, place)
    BY <1>2 DEF StartDouble
  <2>2. NafStarts(call, nafs, multiples, place)
    BY <1>1, <2>1, DoubleStarts
  <2> HIDE DEF nafs, multiples, place
  <2>3. QED BY <2>1, <2>2, NafStartInv
<1>3. CASE StartTriple
  <2> DEFINE b == call.scalars[3]
             B2 == Mul(Pow2[Half], Basepoint)
             nafs == SmallNafs(<<call.scalars[1], call.scalars[2],
                                 b % Pow2[Half], b \div Pow2[Half]>>)
             multiples == SmallTables(call.points)
                            \o <<OddMultiples(Basepoint, BasepointWidth),
                                 OddMultiples(B2, BasepointWidth)>>
             place == TopPlace(nafs, HEEA_MAX_INDEX)
  <2>1. pc = "Start" /\ call.method = "triple_base" /\ StartLoop(nafs, multiples, place)
    BY <1>3 DEF StartTriple
  <2>2. NafStarts(call, nafs, multiples, place)
    BY <1>1, <2>1, TripleStarts
  <2> HIDE DEF nafs, multiples, place
  <2>3. QED BY <2>1, <2>2, NafStartInv
<1>4. CASE RejectLong
  <2>1. HasLong(call) /\ Return(Panic) /\ Q' = Q
    BY <1>4 DEF RejectLong
  <2>2. Panic \in Outcomes(call)
    BY <1>1, <2>1, Refusals
  <2>3. QED BY <1>1, <2>1, <2>2, Returns, NafReturns
<1>5. CASE StartStraus
  <2>1. pc = "Start" /\ call.method = "straus"
    BY <1>5 DEF StartStraus
  <2>2. CASE Len(call.scalars) # Len(call.points)
    <3>1. Return(Panic) /\ Q' = Q
      BY <1>5, <2>2 DEF StartStraus
    <3>2. Mismatched(call)
      BY <2>1, <2>2 DEF Mismatched, AllPoints
    <3>3. Panic \in Outcomes(call)
      BY <1>1, <2>1, <3>2, Refusals
    <3>4. QED BY <1>1, <3>1, <3>3, Returns, NafReturns
  <2>3. CASE Len(call.scalars) = Len(call.points) /\ HasNone(call)
    <3>1. Return(None) /\ Q' = Q
      BY <1>5, <2>3 DEF StartStraus
    <3>2. None \in Outcomes(call)
      BY <1>1, <2>1, <2>3, Refusals
    <3>3. QED BY <1>1, <3>1, <3>2, Returns, NafReturns
  <2>4. CASE Len(call.scalars) = Len(call.points) /\ ~ HasNone(call)
    <3>1. StartLoop(SmallNafs(call.scalars), SmallTables(call.points), NafBits - 1)
      BY <1>5, <2>4 DEF StartStraus
    <3>2. NafStarts(call, SmallNafs(call.scalars), SmallTables(call.points), NafBits - 1)
      BY <1>1, <2>1, <2>4, StrausStarts
    <3>3. QED BY <2>1, <3>1, <3>2, NafStartInv
  <2>5. QED BY <2>2, <2>3, <2>4
<1>6. CASE StartPrecomputed
  <2>1. pc = "Start" /\ call.method = "precomputed"
    BY <1>6 DEF StartPrecomputed
  <2>2. CASE HasNone(call)
    <3>1. Return(None) /\ Q' = Q
      BY <1>6, <2>2 DEF StartPrecomputed
    <3>2. None \in Outcomes(call)
      BY <1>1, <2>1, <2>2, Refusals
    <3>3. QED BY <1>1, <3>1, <3>2, Returns, NafReturns
  <2>3. CASE ~ HasNone(call) /\ Mismatched(call)
    <3>1. Return(Panic) /\ Q' = Q
      BY <1>6, <2>3 DEF StartPrecomputed
    <3>2. Panic \in Outcomes(call)
      BY <1>1, <2>1, <2>3, Refusals
    <3>3. QED BY <1>1, <3>1, <3>2, Returns, NafReturns
  <2>4. CASE ~ HasNone(call) /\ ~ Mismatched(call)
    <3> DEFINE nafs == SmallNafs(call.scalars) \o SmallNafs(call.static_scalars)
               multiples == SmallTables(call.points)
                              \o [k \in DOMAIN call.static_scalars |->
                                    OddMultiples(call.static[k], BigWidth)]
    <3>1. StartLoop(nafs, multiples, NafBits - 1)
      BY <1>6, <2>4 DEF StartPrecomputed
    <3>2. NafStarts(call, nafs, multiples, NafBits - 1)
      BY <1>1, <2>1, <2>4, PrecomputedStarts
    <3> HIDE DEF nafs, multiples
    <3>3. QED BY <2>1, <3>1, <3>2, NafStartInv
  <2>5. QED BY <2>2, <2>3, <2>4
<1>7. CASE DoubleAndAdd
  BY <1>7, DoubleAndAddInv
<1>8. QED BY <1>2, <1>3, <1>4, <1>5, <1>6, <1>7 DEF NafStep

-----------------------------------------------------------------------------
(* What the assumptions say of the number of centered digits.              *)
LEMMA WindowConstants ==
  ASSUME NEW v \in 4 .. 8
  PROVE  /\ SizeHint(v) \in Nat /\ SizeHint(v) >= 2 /\ SizeHint(v) <= RadixBits \div 4
         /\ RadixBits \in Nat /\ RadixBits % 8 = 0 /\ RadixBits % 7 # 0 /\ RadixBits >= 16
         /\ RadixBits \div 4 \in Nat
         /\ \A i \in 0 .. SizeHint(v) - 1 : i \div 2 \in 0 .. RadixBits \div 8 - 1
<1> DEFINE B == RadixBits
           d == (B + v - 1) \div v
<1>1. B \in Nat /\ B % 8 = 0 /\ B % 7 # 0 /\ B >= 16
  BY WindowAssumption
<1> HIDE DEF B
<1>2. /\ d \in Nat /\ d >= 2 /\ d <= B \div 4 /\ (v = 8 => d + 1 <= B \div 4)
      /\ B \div 4 \in Nat
  <2> DEFINE e == d
  <2>1. e = (B + v - 1) \div v
    OBVIOUS
  <2> HIDE DEF e
  <2>2. /\ B \div 4 \in Nat /\ e \in Nat /\ e >= 2 /\ e <= B \div 4
        /\ (v = 8 => e + 1 <= B \div 4)
    BY <1>1, <2>1, CountFacts
  <2>3. QED BY <2>2 DEF e
<1>3. SizeHint(v) = d + (IF v = 8 THEN 1 ELSE 0)
  BY DEF SizeHint, B
<1> HIDE DEF d
<1>4. SizeHint(v) \in Nat /\ SizeHint(v) >= 2 /\ SizeHint(v) <= B \div 4
  BY <1>2, <1>3
<1>5. ASSUME NEW i \in 0 .. SizeHint(v) - 1
      PROVE  i \div 2 \in 0 .. B \div 8 - 1
  BY <1>1, <1>4
<1>6. QED BY <1>1, <1>2, <1>4, <1>5 DEF B

(* The digits of a scalar, as differences of what recentering leaves.      *)
RowFits(row, A, y, v) == RadixRow(row, A, y, v, SizeHint(v))

(* The digits of a scalar, with room for the carry, fit their tables and   *)
(* sum to it.                                                              *)
LEMMA RadixRowFits ==
  ASSUME NEW v \in 4 .. 8, NEW y \in Nat, y < Pow2[RadixBits - 1]
  PROVE  RowFits(Radix(y, v, SizeHint(v)), RadixAbove(y, v, SizeHint(v)), y, v)
<1> DEFINE B == RadixBits
           d == (B + v - 1) \div v
           n == SizeHint(v)
<1>1. B \in Nat /\ B % 8 = 0 /\ B % 7 # 0 /\ B >= 16 /\ y < Pow2[B - 1] /\ n \in Nat
  BY WindowConstants
<1>2. n = IF v = 8 THEN d + 1 ELSE d
  <2>1. n = d + (IF v = 8 THEN 1 ELSE 0) /\ d \in Int
    BY <1>1 DEF SizeHint
  <2> HIDE DEF n, d
  <2>2. QED BY <2>1
<1> HIDE DEF B, n
<1>3. RadixCount(B, v, d, n)
  BY <1>1, <1>2 DEF RadixCount
<1> HIDE DEF d
<1>4. RadixRow(Radix(y, v, n), RadixAbove(y, v, n), y, v, n)
  BY <1>1, <1>3, RadixDigits
<1>5. QED BY <1>4 DEF RowFits, n

LEMMA RowsFit ==
  ASSUME NEW c \in Calls, c.method \in WindowMethods, NEW v \in 4 .. 8
  PROVE  /\ DOMAIN DigitsOf(c.scalars, v) = 1 .. Len(c.scalars) /\ Len(c.scalars) \in Nat
         /\ \A k \in 1 .. Len(c.scalars) :
              /\ c.scalars[k] \in Nat
              /\ RowFits(DigitsOf(c.scalars, v)[k],
                         RadixAbove(c.scalars[k], v, SizeHint(v)), c.scalars[k], v)
<1> DEFINE s == c.scalars
<1>1. s \in Seq(Nat) /\ DOMAIN s = 1 .. Len(s) /\ Len(s) \in Nat
  BY CallFacts, LenProperties
<1>2. \A k \in DOMAIN s : s[k] < Pow2[RadixBits - 1]
  BY WindowAssumption
<1> HIDE DEF s
<1>3. ASSUME NEW k \in 1 .. Len(s)
      PROVE  /\ s[k] \in Nat
             /\ RowFits(DigitsOf(s, v)[k], RadixAbove(s[k], v, SizeHint(v)), s[k], v)
  <2>1. s[k] \in Nat /\ s[k] < Pow2[RadixBits - 1]
    BY <1>1, <1>2, ElementOfSeq
  <2>2. DigitsOf(s, v)[k] = Radix(s[k], v, SizeHint(v))
    BY <1>1 DEF DigitsOf
  <2>3. QED BY <2>1, <2>2, RadixRowFits
<1>4. DOMAIN DigitsOf(s, v) = 1 .. Len(s)
  BY <1>1 DEF DigitsOf
<1>5. QED BY <1>1, <1>3, <1>4 DEF s
-----------------------------------------------------------------------------
(* What recentering leaves at a place, of each scalar.                     *)
Above(c, v, place) ==
  [k \in 1 .. Len(c.points) |-> RadixAbove(c.scalars[k], v, SizeHint(v))[place]]

(* The digits at a place.                                                  *)
Row(c, v, place) == [k \in DOMAIN DigitsOf(c.scalars, v) |-> DigitsOf(c.scalars, v)[k][place]]

(* A call with a scalar for every point and no undecodable point.          *)
WindowCall(c) ==
  c \in Calls /\ c.method \in WindowMethods /\ ~ Mismatched(c) /\ ~ HasNone(c)

(* A call that gets past the checks of its method has one answer due.      *)
LEMMA WindowCallFacts ==
  ASSUME NEW c, WindowCall(c)
  PROVE  /\ c \in Calls /\ c.method \in WindowMethods
         /\ c.points \in Seq(Points) /\ Len(c.points) \in Nat
         /\ DOMAIN c.points = 1 .. Len(c.points) /\ Len(c.scalars) = Len(c.points)
         /\ Outcomes(c) = {Weigh(c.scalars, c.points)}
<1>1. /\ c \in Calls /\ c.method \in WindowMethods /\ ~ Mismatched(c) /\ ~ HasNone(c)
      /\ c.method # "precomputed" /\ ~ HasLong(c) /\ AllPoints(c) = c.points
  BY DEF WindowCall, WindowMethods, HasLong, AllPoints
<1>2. c.points \in Seq(Points)
  BY <1>1, DecodablePoints
<1>3. Len(c.scalars) = Len(c.points) /\ Outcomes(c) = {Weigh(c.scalars, c.points)}
  BY <1>1, PlainOutcome
<1>4. Len(c.points) \in Nat /\ DOMAIN c.points = 1 .. Len(c.points)
  BY <1>2, LenProperties
<1>5. QED BY <1>1, <1>2, <1>3, <1>4

(* One place of Horner's rule.                                             *)
LEMMA AboveStep ==
  ASSUME NEW c, WindowCall(c), NEW v \in 4 .. 8, NEW i \in 0 .. SizeHint(v) - 1
  PROVE  /\ Weigh(Above(c, v, i), c.points) =
              Add(Mul(Pow2[v], Weigh(Above(c, v, i + 1), c.points)),
                  Weigh(Row(c, v, i), c.points))
         /\ Weigh(Row(c, v, i), c.points) \in Points
         /\ Weigh(Above(c, v, i), c.points) \in Points
<1> DEFINE P == c.points
           n == Len(P)
           a == Above(c, v, i)
           b == Above(c, v, i + 1)
           d == Row(c, v, i)
           p == Pow2[v]
<1>1. /\ c \in Calls /\ c.method \in WindowMethods /\ P \in Seq(Points) /\ n \in Nat
      /\ Len(c.scalars) = n
  BY WindowCallFacts
<1>2. i \in Nat /\ i + 1 \in Nat
  BY WindowConstants
<1>3. ASSUME NEW k \in 1 .. n
      PROVE  b[k] \in Int /\ d[k] \in Int /\ a[k] \in Int /\ a[k] = p * b[k] + d[k]
  <2> DEFINE A == RadixAbove(c.scalars[k], v, SizeHint(v))
             row == DigitsOf(c.scalars, v)[k]
  <2>1. RowFits(row, A, c.scalars[k], v) /\ k \in DOMAIN DigitsOf(c.scalars, v)
    BY <1>1, RowsFit
  <2>2. a[k] = A[i] /\ b[k] = A[i + 1] /\ d[k] = row[i]
    BY <2>1 DEF Above, Row
  <2> HIDE DEF a, b, d, A, row
  <2>3. A[i] \in Int /\ A[i + 1] \in Int /\ row[i] \in Int /\ row[i] = A[i] - p * A[i + 1]
    BY <1>2, <2>1 DEF RowFits, RadixRow
  <2>4. p \in Nat
    <3>1. v \in Nat
      OBVIOUS
    <3>2. QED BY <3>1, Pow2Positive
  <2> HIDE DEF p
  <2>5. QED BY <2>2, <2>3, <2>4
<1>4. p \in Int
  <2>1. v \in Nat
    OBVIOUS
  <2>2. QED BY <2>1, Pow2Positive
<1> HIDE DEF a, b, d, P, p
<1>5. WeightsCombine(a, p, b, d, n)
  BY <1>3 DEF WeightsCombine
<1>6. Weigh(a, P) = Add(Mul(p, Weigh(b, P)), Weigh(d, P))
  BY <1>1, <1>4, <1>5, WeighCombines
<1>7. Weigh(a, P) \in Points
  BY <1>1, <1>3, WeighedPoints
<1>8. Weigh(d, P) \in Points
  BY <1>1, <1>3, WeighedPoints
<1>9. QED BY <1>6, <1>7, <1>8 DEF a, b, d, P, p

(* Nothing is above the last place; from place 0 on the answer is due.     *)
LEMMA AboveEnds ==
  ASSUME NEW c, WindowCall(c), NEW v \in 4 .. 8
  PROVE  /\ Weigh(Above(c, v, SizeHint(v)), c.points) = 0
         /\ Weigh(Above(c, v, SizeHint(v) - 1), c.points) =
              Weigh(Row(c, v, SizeHint(v) - 1), c.points)
         /\ {Weigh(Above(c, v, 0), c.points)} = Outcomes(c)
<1> DEFINE P == c.points
           n == Len(P)
           S == SizeHint(v)
           m == S - 1
<1>1. /\ c \in Calls /\ c.method \in WindowMethods /\ P \in Seq(Points) /\ n \in Nat
      /\ Len(c.scalars) = n /\ Outcomes(c) = {Weigh(c.scalars, P)}
  BY WindowCallFacts
<1>2. S \in Nat /\ S >= 2 /\ m \in 0 .. S - 1 /\ m \in Nat /\ m + 1 = S
  BY WindowConstants
<1>3. ASSUME NEW k \in 1 .. n
      PROVE  /\ Above(c, v, S)[k] = 0 /\ Above(c, v, 0)[k] = c.scalars[k]
             /\ Above(c, v, m)[k] = Row(c, v, m)[k]
  <2> DEFINE A == RadixAbove(c.scalars[k], v, SizeHint(v))
             row == DigitsOf(c.scalars, v)[k]
             p == Pow2[v]
  <2>1. RowFits(row, A, c.scalars[k], v) /\ k \in DOMAIN DigitsOf(c.scalars, v)
    BY <1>1, RowsFit
  <2>2. Above(c, v, S)[k] = A[S] /\ Above(c, v, 0)[k] = A[0] /\ Above(c, v, m)[k] = A[m]
    BY DEF Above
  <2>2a. Row(c, v, m)[k] = row[m]
    BY <2>1 DEF Row
  <2> HIDE DEF A, row
  <2>3. A[0] = c.scalars[k] /\ A[S] = 0 /\ A[m] \in Int
    BY <1>2, <2>1 DEF RowFits, RadixRow
  <2>4. row[m] = A[m] - p * A[m + 1] /\ p \in Int
    <3>1. row[m] = A[m] - p * A[m + 1]
      BY <1>2, <2>1 DEF RowFits, RadixRow
    <3>2. v \in Nat
      OBVIOUS
    <3>3. p \in Int
      BY <3>2, Pow2Positive
    <3>4. QED BY <3>1, <3>3
  <2> HIDE DEF p, m, S
  <2>5. row[m] = A[m]
    BY <1>2, <2>3, <2>4
  <2>6. QED BY <2>2, <2>2a, <2>3, <2>5
<1> HIDE DEF m, S, P, n
<1>4. Weigh(Above(c, v, S), P) = 0
  BY <1>1, <1>3, WeighZero DEF n
<1>5. Weigh(Above(c, v, m), P) = Weigh(Row(c, v, m), P)
  BY <1>1, <1>3, WeighSame DEF n
<1>6. Weigh(Above(c, v, 0), P) = Weigh(c.scalars, P)
  BY <1>1, <1>3, WeighSame DEF n
<1>7. QED BY <1>1, <1>4, <1>5, <1>6 DEF m, S, P

-----------------------------------------------------------------------------
(* The digits and the tables of a call.                                    *)
Ready(c, v, rows, multiples) ==
  /\ WindowCall(c) /\ v \in 4 .. 8 /\ rows = DigitsOf(c.scalars, v)
  /\ c.method \in {"variable_base", "straus_ct"} =>
       multiples = [k \in 1 .. Len(c.points) |-> Multiples(c.points[k], v)]
  /\ c.method = "base_table" => multiples = BaseTables(c.points[1], v)

WindowReady == Ready(call, w, digits, tables)

(* The loop over columns: the accumulator is the sum of what recentering   *)
(* left at the place it has reached.                                       *)
ColumnsInv ==
  /\ call.method # "base_table" /\ j \in 0 .. SizeHint(w) - 1
  /\ Q = Weigh(Above(call, w, j + 1), call.points)

(* What a basepoint table adds for a digit at an odd or an even place, in  *)
(* multiples of the point.                                                 *)
Entry(row, v, i) == row[i] * Pow2[2 * v * (i \div 2)]
Odds(row, v, n) == [i \in Nat |-> IF i < n /\ i % 2 = 1 THEN Entry(row, v, i) ELSE 0]
Evens(row, v, n) == [i \in Nat |-> IF i < n /\ i % 2 = 0 THEN Entry(row, v, i) ELSE 0]

(* The first pass has added the digits at the odd places below j, and the  *)
(* second, after the shift, those at the even ones.                        *)
OddInv ==
  /\ call.method = "base_table" /\ j % 2 = 1 /\ j <= SizeHint(w) + 1
  /\ Q = Mul(Sum(Odds(digits[1], w, SizeHint(w)))[j], call.points[1])

EvenInv ==
  /\ call.method = "base_table" /\ j % 2 = 0 /\ j < SizeHint(w)
  /\ Q = Mul(Pow2[w] * Sum(Odds(digits[1], w, SizeHint(w)))[SizeHint(w)]
               + Sum(Evens(digits[1], w, SizeHint(w)))[j], call.points[1])

(* The invariant of the methods in centered digits.                        *)
WindowInv ==
  /\ pc \in {"Start", "Columns", "Odd", "Even", "Done"}
  /\ w \in 4 .. 8 /\ j \in 0 .. RadixBits \div 4 + 1
  /\ pc = "Start" => w = 4 /\ Q = 0
  /\ digits = <<>> \/ WindowReady
  /\ pc \in {"Columns", "Odd", "Even"} => WindowReady
  /\ pc = "Columns" => ColumnsInv
  /\ pc = "Odd" => OddInv
  /\ pc = "Even" => EvenInv
-----------------------------------------------------------------------------
(* A single point.                                                         *)
LEMMA WeighOne ==
  ASSUME NEW P \in Seq(Points), Len(P) = 1, NEW x, x[1] \in Int
  PROVE  P[1] \in Points /\ Weigh(x, P) = Mul(x[1], P[1])
<1> DEFINE E == <<>>
           R == P[1]
<1>1. R \in Points /\ 1 \in 1 .. Len(P)
  BY ElementOfSeq
<1>2. E \in Seq(Points) /\ Len(E) = 0
  OBVIOUS
<1>3. P = Append(E, R)
  BY <1>1, <1>2
<1>4. Weigh(x, E) = 0
  <2>1. \A k \in 1 .. Len(E) : x[k] = 0
    BY <1>2
  <2> HIDE DEF E
  <2>2. QED BY <1>2, <2>1, WeighZero
<1>5. \A k \in 1 .. Len(E) + 1 : x[k] \in Int
  BY <1>2
<1> HIDE DEF E, R
<1>6. Weigh(x, Append(E, R)) = Add(Weigh(x, E), Mul(x[Len(E) + 1], R))
  BY <1>1, <1>2, <1>5, WeighAppend
<1>7. x[Len(E) + 1] = x[1]
  BY <1>2
<1>8. Mul(x[1], R) \in Points
  BY <1>1, PointIsInt, MulPoint
<1>9. Add(0, Mul(x[1], R)) = Mul(x[1], R)
  BY <1>8, MulOne
<1>10. QED BY <1>1, <1>3, <1>4, <1>6, <1>7, <1>9 DEF R

(* A digit of a row selects its multiple.                                  *)
LEMMA RowSelects ==
  ASSUME NEW c, WindowCall(c), NEW v \in 4 .. 8, NEW i \in 0 .. SizeHint(v) - 1,
         NEW k \in 1 .. Len(c.points), NEW P \in Points
  PROVE  /\ DigitsOf(c.scalars, v)[k][i] \in Int
         /\ DigitsOf(c.scalars, v)[k][i] \in -Pow2[v - 1] .. Pow2[v - 1]
         /\ Select(Multiples(P, v), DigitsOf(c.scalars, v)[k][i])
              = Mul(DigitsOf(c.scalars, v)[k][i], P)
         /\ DigitsOf(c.scalars, v)[k][i] # 0 =>
              Abs(DigitsOf(c.scalars, v)[k][i]) \in DOMAIN Multiples(P, v)
<1> DEFINE d == DigitsOf(c.scalars, v)[k][i]
<1>1. d \in Int /\ d \in -Pow2[v - 1] .. Pow2[v - 1]
  <2> DEFINE row == DigitsOf(c.scalars, v)[k]
             A == RadixAbove(c.scalars[k], v, SizeHint(v))
             y == c.scalars[k]
  <2>1. RowFits(row, A, y, v)
    BY WindowCallFacts, RowsFit
  <2> HIDE DEF row, A, y
  <2>2. row[i] \in Int /\ row[i] \in -Pow2[v - 1] .. Pow2[v - 1]
    BY <2>1 DEF RowFits, RadixRow
  <2>3. QED BY <2>2 DEF row
<1> HIDE DEF d
<1>2. v \in Nat /\ v >= 1
  OBVIOUS
<1>3. /\ Select(Multiples(P, v), d) = Mul(d, P)
      /\ d # 0 => Abs(d) \in DOMAIN Multiples(P, v)
  BY <1>1, <1>2, SelectIs
<1>4. QED BY <1>1, <1>3 DEF d

(* What Straus and Pippenger add at a place is its digits times the        *)
(* points.                                                                 *)
LEMMA TableColumnIs ==
  ASSUME WindowReady, call.method \in {"variable_base", "straus_ct"},
         NEW i \in 0 .. SizeHint(w) - 1
  PROVE  TableColumn(i) = Weigh(Row(call, w, i), call.points)
<1> DEFINE P == call.points
           n == Len(P)
           rows == DigitsOf(call.scalars, w)
<1>1. /\ WindowCall(call) /\ w \in 4 .. 8 /\ digits = rows
      /\ tables = [k \in 1 .. n |-> Multiples(P[k], w)]
  BY DEF WindowReady, Ready
<1>2. P \in Seq(Points) /\ n \in Nat /\ DOMAIN P = 1 .. n /\ DOMAIN rows = 1 .. n
  BY <1>1, WindowCallFacts, RowsFit
<1>3. ASSUME NEW k \in 1 .. n
      PROVE  Select(tables[k], digits[k][i]) = Mul(Row(call, w, i)[k], P[k])
  <2>1. P[k] \in Points
    BY <1>2, ElementOfSeq
  <2>2. Select(Multiples(P[k], w), DigitsOf(call.scalars, w)[k][i])
          = Mul(DigitsOf(call.scalars, w)[k][i], P[k])
    BY <1>1, <2>1, RowSelects
  <2>3. Row(call, w, i)[k] = DigitsOf(call.scalars, w)[k][i]
    BY <1>2 DEF Row
  <2>4. QED BY <1>1, <2>2, <2>3
<1>4. [k \in DOMAIN digits |-> Select(tables[k], digits[k][i])]
        = [k \in DOMAIN P |-> Mul(Row(call, w, i)[k], P[k])]
  BY <1>1, <1>2, <1>3
<1>5. QED BY <1>4 DEF TableColumn, Weigh, PointSum

LEMMA BucketColumnIs ==
  ASSUME WindowCall(call), NEW v \in 4 .. 8, NEW i \in 0 .. SizeHint(v) - 1
  PROVE  BucketSum(Buckets(DigitsOf(call.scalars, v), i, v), v)
           = Weigh(Row(call, v, i), call.points)
<1> DEFINE rows == DigitsOf(call.scalars, v)
           P == call.points
<1>1. P \in Seq(Points) /\ DOMAIN P = 1 .. Len(P) /\ DOMAIN rows = 1 .. Len(P)
  BY WindowCallFacts, RowsFit
<1>2. \A k \in 1 .. Len(P) : rows[k][i] \in -Pow2[v - 1] .. Pow2[v - 1]
  <2>1. ASSUME NEW k \in 1 .. Len(P) PROVE rows[k][i] \in -Pow2[v - 1] .. Pow2[v - 1]
    <3>1. P[k] \in Points
      BY <1>1, ElementOfSeq
    <3>2. QED BY <3>1, RowSelects
  <2>2. QED BY <2>1
<1> HIDE DEF rows
<1>3. FitBuckets(rows, i, v)
  BY <1>1, <1>2 DEF FitBuckets
<1>4. v \in Nat /\ v >= 1
  OBVIOUS
<1>5. BucketSum(Buckets(rows, i, v), v) = Weigh([k \in DOMAIN rows |-> rows[k][i]], P)
  BY <1>3, <1>4, BucketSumIs
<1>6. QED BY <1>5 DEF Row, rows
-----------------------------------------------------------------------------
(* A loop over columns that starts right.                                  *)
LEMMA ColumnsStart ==
  ASSUME CallInv, pc = "Start", pc' = "Columns", UNCHANGED <<call, result, build>>,
         call.method # "base_table", Ready(call, w', digits', tables'),
         j' \in 0 .. SizeHint(w') - 1,
         Q' = Weigh(Above(call, w', j' + 1), call.points), Q' \in Points
  PROVE  CallInv' /\ WindowInv'
<1>1. CallInv'
  BY DEF CallInv, build
<1>2. w' \in 4 .. 8
  BY DEF Ready
<1>3. j' \in 0 .. RadixBits \div 4 + 1
  <2>1. SizeHint(w') \in Nat /\ SizeHint(w') <= RadixBits \div 4 /\ RadixBits \div 4 \in Nat
    BY <1>2, WindowConstants
  <2>2. QED BY <2>1
<1>4. WindowReady'
  BY DEF WindowReady
<1>5. ColumnsInv'
  BY DEF ColumnsInv
<1>6. QED BY <1>1, <1>2, <1>3, <1>4, <1>5 DEF WindowInv

LEMMA WindowReturns ==
  ASSUME WindowInv, NEW value, Return(value)
  PROVE  WindowInv'
<1>1. /\ pc' = "Done" /\ digits' = digits /\ tables' = tables /\ j' = j /\ w' = w
      /\ call' = call
  BY DEF Return
<1>2. digits' = <<>> \/ WindowReady'
  <2>1. CASE digits = <<>>
    BY <1>1, <2>1
  <2>2. CASE WindowReady
    BY <1>1, <2>2 DEF WindowReady
  <2>3. QED BY <2>1, <2>2 DEF WindowInv
<1>3. w' \in 4 .. 8 /\ j' \in 0 .. RadixBits \div 4 + 1
  BY <1>1 DEF WindowInv
<1>4. QED BY <1>1, <1>2, <1>3 DEF WindowInv

(* The three methods over columns start right, and keep their invariant.   *)
LEMMA VariableBaseInv ==
  ASSUME CallInv, WindowInv, StartVariableBase
  PROVE  CallInv' /\ WindowInv'
<1> DEFINE S == SizeHint(4)
           P == call.points
<1>1. /\ pc = "Start" /\ call.method = "variable_base"
      /\ digits' = DigitsOf(call.scalars, 4)
      /\ tables' = <<Multiples(P[1], 4)>>
      /\ Q' = Select(tables'[1], digits'[1][S - 1])
      /\ j' = S - 2 /\ pc' = "Columns"
      /\ UNCHANGED <<call, result, build, w>>
  BY DEF StartVariableBase
<1>2. w' = 4 /\ w = 4 /\ 4 \in 4 .. 8
  BY <1>1 DEF WindowInv
<1>3. WindowCall(call) /\ Len(P) = 1
  BY <1>1, CallFacts DEF WindowCall, CallInv, WindowMethods
<1>4. P \in Seq(Points)
  BY <1>3, WindowCallFacts
<1>5. tables' = [k \in 1 .. Len(P) |-> Multiples(P[k], 4)]
  <2>1. 1 .. Len(P) = {1}
    BY <1>3
  <2>2. QED BY <1>1, <2>1
<1>6. Ready(call, w', digits', tables')
  BY <1>1, <1>2, <1>3, <1>5 DEF Ready
<1> DEFINE v == w'
           m == j' + 1
<1>7. /\ S = SizeHint(v) /\ v \in 4 .. 8 /\ m = SizeHint(v) - 1 /\ m \in 0 .. SizeHint(v) - 1
      /\ j' \in 0 .. SizeHint(v) - 1
  <2>1. S \in Nat /\ S >= 2
    BY <1>2, WindowConstants
  <2>2. QED BY <1>1, <1>2, <2>1
<1> HIDE DEF v, S
<1>8. Q' = Weigh(Row(call, v, m), P)
  <2> DEFINE x == Row(call, v, m)
             d == DigitsOf(call.scalars, v)[1][m]
  <2>1. 1 \in 1 .. Len(P) /\ P[1] \in Points
    BY <1>3, <1>4, ElementOfSeq
  <2>2. /\ d \in Int /\ Select(Multiples(P[1], v), d) = Mul(d, P[1])
    <3> HIDE DEF m
    <3>1. QED BY <1>3, <1>7, <2>1, RowSelects
  <2>3. x[1] = d
    <3>1. 1 \in DOMAIN DigitsOf(call.scalars, v)
      BY <1>3, <1>7, <2>1, RowsFit, WindowCallFacts
    <3>2. QED BY <3>1 DEF Row
  <2>4. Q' = Select(Multiples(P[1], v), d)
    <3>1. tables'[1] = Multiples(P[1], v) /\ digits' = DigitsOf(call.scalars, v)
      BY <1>1, <1>2 DEF v
    <3>2. m = S - 1
      BY <1>7
    <3>3. QED BY <1>1, <3>1, <3>2
  <2> HIDE DEF x, d, m
  <2>5. Weigh(x, P) = Mul(x[1], P[1])
    BY <1>3, <1>4, <2>2, <2>3, WeighOne
  <2>6. QED BY <2>2, <2>3, <2>4, <2>5 DEF x
<1>9. Q' = Weigh(Above(call, v, m), P)
  BY <1>3, <1>7, <1>8, AboveEnds
<1>10. Q' \in Points
  <2> HIDE DEF m
  <2>1. QED BY <1>3, <1>7, <1>9, AboveStep
<1>11. QED BY <1>1, <1>6, <1>7, <1>9, <1>10, ColumnsStart DEF v, m

LEMMA StrausCTInv ==
  ASSUME CallInv, WindowInv, StartStrausCT
  PROVE  CallInv' /\ WindowInv'
<1>1. pc = "Start" /\ call.method = "straus_ct" /\ call \in Calls /\ Q \in Points
  BY DEF StartStrausCT, CallInv
<1>2. CASE Mismatched(call)
  <2>1. Return(Panic) /\ Q' = Q
    BY <1>2 DEF StartStrausCT
  <2>2. Panic \in Outcomes(call)
    BY <1>1, <1>2, Refusals
  <2>3. QED BY <1>1, <2>1, <2>2, Returns, WindowReturns
<1>3. CASE ~ Mismatched(call)
  <2> DEFINE S == SizeHint(4)
             P == call.points
  <2>1. /\ digits' = DigitsOf(call.scalars, 4)
        /\ tables' = [k \in DOMAIN P |-> Multiples(P[k], 4)]
        /\ j' = S - 1 /\ pc' = "Columns" /\ UNCHANGED <<call, result, build, w, Q>>
    BY <1>3 DEF StartStrausCT
  <2>2. w' = 4 /\ w = 4 /\ 4 \in 4 .. 8 /\ Q' = 0 /\ 0 \in Points
    BY <1>1, <2>1 DEF WindowInv, CallInv
  <2>3. WindowCall(call)
    BY <1>1, <1>3, CallFacts DEF WindowCall, WindowMethods
  <2>4. DOMAIN P = 1 .. Len(P)
    BY <2>3, WindowCallFacts
  <2>5. Ready(call, w', digits', tables')
    BY <1>1, <2>1, <2>2, <2>3, <2>4 DEF Ready
  <2>6. S = SizeHint(w') /\ j' + 1 = SizeHint(w') /\ j' \in 0 .. SizeHint(w') - 1
    <3>1. S \in Nat /\ S >= 2
      BY <2>2, WindowConstants
    <3>2. QED BY <2>1, <2>2, <3>1
  <2>7. Q' = Weigh(Above(call, w', j' + 1), P)
    BY <2>2, <2>3, <2>6, AboveEnds
  <2> HIDE DEF S
  <2>8. QED BY <1>1, <2>1, <2>2, <2>5, <2>6, <2>7, ColumnsStart
<1>4. QED BY <1>2, <1>3

LEMMA PippengerInv ==
  ASSUME CallInv, WindowInv, StartPippenger
  PROVE  CallInv' /\ WindowInv'
<1>1. pc = "Start" /\ call.method = "pippenger" /\ call \in Calls /\ Q \in Points
  BY DEF StartPippenger, CallInv
<1>2. CASE Mismatched(call)
  <2>1. Return(Panic) /\ Q' = Q
    BY <1>2 DEF StartPippenger
  <2>2. Panic \in Outcomes(call)
    BY <1>1, <1>2, Refusals
  <2>3. QED BY <1>1, <2>1, <2>2, Returns, WindowReturns
<1>3. CASE ~ Mismatched(call) /\ HasNone(call)
  <2>1. Return(None) /\ Q' = Q
    BY <1>3 DEF StartPippenger
  <2>2. None \in Outcomes(call)
    BY <1>1, <1>3, Refusals
  <2>3. QED BY <1>1, <2>1, <2>2, Returns, WindowReturns
<1>4. CASE ~ Mismatched(call) /\ ~ HasNone(call)
  <2> DEFINE v == PippengerWidth(Len(call.scalars))
             P == call.points
             S == SizeHint(v)
             m == S - 1
  <2>1. /\ w' = v /\ digits' = DigitsOf(call.scalars, w')
        /\ Q' = BucketSum(Buckets(digits', SizeHint(w') - 1, w'), w')
        /\ j' = SizeHint(w') - 2 /\ pc' = "Columns"
        /\ UNCHANGED <<call, result, build, tables>>
    BY <1>4 DEF StartPippenger
  <2>2. v \in 4 .. 8
    BY DEF PippengerWidth
  <2>3. WindowCall(call)
    BY <1>1, <1>4 DEF WindowCall, WindowMethods
  <2> HIDE DEF v
  <2>4. Ready(call, w', digits', tables')
    BY <1>1, <2>1, <2>2, <2>3 DEF Ready
  <2>5. S \in Nat /\ S >= 2
    BY <2>2, WindowConstants
  <2>6. m \in 0 .. S - 1 /\ j' + 1 = m /\ j' \in 0 .. SizeHint(w') - 1
    <3>1. j' = S - 2 /\ SizeHint(w') = S
      BY <2>1
    <3> HIDE DEF S
    <3>2. QED BY <2>5, <3>1
  <2>7. Q' = Weigh(Row(call, v, m), P)
    <3>1. Q' = BucketSum(Buckets(DigitsOf(call.scalars, v), m, v), v)
      BY <2>1
    <3>2. m \in 0 .. SizeHint(v) - 1
      BY <2>6
    <3> HIDE DEF m
    <3>3. QED BY <2>2, <2>3, <3>1, <3>2, BucketColumnIs
  <2>8. Q' = Weigh(Above(call, v, m), P)
    BY <2>2, <2>3, <2>7, AboveEnds
  <2>9. Q' \in Points
    <3>1. m \in 0 .. SizeHint(v) - 1
      BY <2>6
    <3> HIDE DEF m
    <3>2. QED BY <2>2, <2>3, <2>8, <3>1, AboveStep
  <2>10. Q' = Weigh(Above(call, w', j' + 1), P)
    BY <2>1, <2>6, <2>8
  <2>11. call.method # "base_table"
    BY <1>1
  <2> HIDE DEF S, m
  <2>12. QED BY <1>1, <2>1, <2>4, <2>6, <2>9, <2>10, <2>11, ColumnsStart
<1>5. QED BY <1>2, <1>3, <1>4

LEMMA ShiftAndAddInv ==
  ASSUME CallInv, WindowInv, ShiftAndAdd
  PROVE  CallInv' /\ WindowInv'
<1> DEFINE column == IF call.method = "pippenger" THEN BucketSum(Buckets(digits, j, w), w)
                     ELSE TableColumn(j)
           P == call.points
<1>1. /\ pc = "Columns" /\ Q' = Add(MulByPow2(w, Q), column)
      /\ IF j = 0 THEN Return(Q')
         ELSE j' = j - 1 /\ UNCHANGED <<call, result, build, pc, w, digits, tables>>
  BY DEF ShiftAndAdd
<1>2. /\ WindowReady /\ ColumnsInv /\ w \in 4 .. 8
  BY <1>1 DEF WindowInv
<1>3. /\ WindowCall(call) /\ digits = DigitsOf(call.scalars, w)
      /\ call.method # "base_table" /\ j \in 0 .. SizeHint(w) - 1
      /\ Q = Weigh(Above(call, w, j + 1), P)
  BY <1>2 DEF WindowReady, Ready, ColumnsInv
<1>4. column = Weigh(Row(call, w, j), P)
  <2>1. CASE call.method = "pippenger"
    <3>1. BucketSum(Buckets(DigitsOf(call.scalars, w), j, w), w) = Weigh(Row(call, w, j), P)
      BY <1>2, <1>3, BucketColumnIs
    <3>2. QED BY <1>3, <2>1, <3>1
  <2>2. CASE call.method # "pippenger"
    <3>1. call.method \in {"variable_base", "straus_ct"}
      BY <1>3, <2>2 DEF WindowCall, WindowMethods
    <3>2. TableColumn(j) = Weigh(Row(call, w, j), P)
      BY <1>2, <1>3, <3>1, TableColumnIs
    <3>3. QED BY <2>2, <3>2
  <2>3. QED BY <2>1, <2>2
<1> HIDE DEF column
<1>5. Q' = Weigh(Above(call, w, j), P) /\ Q' \in Points
  <2>1. /\ Weigh(Above(call, w, j), P) =
             Add(Mul(Pow2[w], Weigh(Above(call, w, j + 1), P)), Weigh(Row(call, w, j), P))
        /\ Weigh(Above(call, w, j), P) \in Points
    BY <1>2, <1>3, AboveStep
  <2>2. QED BY <1>1, <1>3, <1>4, <2>1 DEF MulByPow2
<1>6. CASE j = 0
  <2>1. Return(Q')
    BY <1>1, <1>6
  <2>2. Q' \in Outcomes(call)
    <3>1. {Weigh(Above(call, w, 0), P)} = Outcomes(call)
      BY <1>2, <1>3, AboveEnds
    <3>2. QED BY <1>5, <1>6, <3>1
  <2>3. QED BY <1>5, <2>1, <2>2, Returns, WindowReturns
<1>7. CASE j # 0
  <2>1. /\ j' = j - 1 /\ call' = call /\ result' = result /\ build' = build /\ pc' = pc
        /\ w' = w /\ digits' = digits /\ tables' = tables
    BY <1>1, <1>7
  <2>2. CallInv'
    BY <1>5, <2>1 DEF CallInv, build
  <2>3. SizeHint(w) \in Nat /\ j' + 1 = j /\ j' \in 0 .. SizeHint(w) - 1
    <3>1. SizeHint(w) \in Nat
      BY <1>2, WindowConstants
    <3>2. QED BY <1>3, <1>7, <2>1, <3>1
  <2>4. j' \in 0 .. RadixBits \div 4 + 1
    <3>1. RadixBits \div 4 \in Nat
      BY <1>2, WindowConstants
    <3>2. j \in 0 .. RadixBits \div 4 + 1
      BY DEF WindowInv
    <3>3. QED BY <2>1, <2>3, <3>1, <3>2
  <2>5. WindowReady'
    BY <1>2, <2>1 DEF WindowReady
  <2>6. ColumnsInv'
    BY <1>3, <1>5, <2>1, <2>3 DEF ColumnsInv
  <2>7. WindowInv'
    BY <1>1, <1>2, <2>1, <2>4, <2>5, <2>6 DEF WindowInv
  <2>8. QED BY <2>2, <2>7
<1>8. QED BY <1>6, <1>7

-----------------------------------------------------------------------------
(* The two passes over a basepoint table.                                  *)
LEMMA SumTwo ==
  ASSUME NEW f \in [Nat -> Int], NEW m \in Nat
  PROVE  /\ Sum(f)[m] \in Int /\ Sum(f)[m + 1] = Sum(f)[m] + f[m]
         /\ Sum(f)[m + 2] = Sum(f)[m] + f[m] + f[m + 1]
<1>1. /\ Sum(f) \in [Nat -> Int]
      /\ \A n \in Nat : Sum(f)[n + 1] = Sum(f)[n] + f[n]
  BY SumDef
<1>2. m + 1 \in Nat /\ (m + 1) + 1 = m + 2
  OBVIOUS
<1>3. Sum(f)[m + 1] = Sum(f)[m] + f[m]
  BY <1>1
<1>4. Sum(f)[m + 2] = Sum(f)[m + 1] + f[m + 1]
  BY <1>1, <1>2
<1>5. QED BY <1>1, <1>3, <1>4

SumsInto(h, a, f, g, n) == \A i \in Nat : i < n => h[i] = a * f[i] + g[i]

(* Two sums, one of them scaled, add up to the sum of both.                *)
LEMMA SumsCombine ==
  ASSUME NEW f \in [Nat -> Int], NEW g \in [Nat -> Int], NEW h \in [Nat -> Int],
         NEW a \in Int, NEW n \in Nat, SumsInto(h, a, f, g, n)
  PROVE  Sum(h)[n] = a * Sum(f)[n] + Sum(g)[n]
<1> DEFINE T == {m \in Nat : m <= n => Sum(h)[m] = a * Sum(f)[m] + Sum(g)[m]}
<1>1. Sum(f)[0] = 0 /\ Sum(g)[0] = 0 /\ Sum(h)[0] = 0
  BY SumDef
<1>2. 0 \in T
  BY <1>1
<1>3. ASSUME NEW m \in Nat, m \in T PROVE m + 1 \in T
  <2>1. SUFFICES ASSUME m + 1 <= n
                 PROVE  Sum(h)[m + 1] = a * Sum(f)[m + 1] + Sum(g)[m + 1]
    OBVIOUS
  <2> DEFINE F == Sum(f)[m]
             G == Sum(g)[m]
             H == Sum(h)[m]
             x == f[m]
             y == g[m]
  <2>2. F \in Int /\ Sum(f)[m + 1] = F + x /\ x \in Int
    BY SumTwo
  <2>3. G \in Int /\ Sum(g)[m + 1] = G + y /\ y \in Int
    BY SumTwo
  <2>4. H \in Int /\ Sum(h)[m + 1] = H + h[m]
    BY SumTwo
  <2>5. H = a * F + G
    BY <1>3, <2>1
  <2>6. h[m] = a * x + y
    BY <2>1 DEF SumsInto
  <2> HIDE DEF F, G, H, x, y
  <2>7. (a * F + G) + (a * x + y) = a * (F + x) + (G + y)
    BY <2>2, <2>3
  <2>8. QED BY <2>2, <2>3, <2>4, <2>5, <2>6, <2>7
<1>4. Nat \subseteq T
  <2> HIDE DEF T
  <2>1. QED BY <1>2, <1>3, SetInduction
<1>5. QED BY <1>4

(* A digit of a basepoint table selects its multiple from the entry for    *)
(* its pair of places.                                                     *)
LEMMA EntryIs ==
  ASSUME NEW c, NEW v, NEW rows, NEW multiples, Ready(c, v, rows, multiples),
         c.method = "base_table", NEW i \in 0 .. SizeHint(v) - 1
  PROVE  /\ rows[1][i] \in Int /\ Entry(rows[1], v, i) \in Int
         /\ Select(multiples[i \div 2], rows[1][i])
              = Mul(Entry(rows[1], v, i), c.points[1])
         /\ i \div 2 \in DOMAIN multiples
         /\ rows[1][i] # 0 => Abs(rows[1][i]) \in DOMAIN multiples[i \div 2]
<1> DEFINE P == c.points[1]
           k == i \div 2
           d == rows[1][i]
           e == Pow2[2 * v * k]
           R == Mul(e, P)
<1>1. /\ WindowCall(c) /\ v \in 4 .. 8 /\ rows = DigitsOf(c.scalars, v)
      /\ multiples = BaseTables(P, v)
  BY DEF Ready
<1>2. Len(c.points) = 1 /\ c.points \in Seq(Points)
  BY <1>1, CallFacts, WindowCallFacts
<1>3. P \in Points /\ 1 \in 1 .. Len(c.points)
  BY <1>2, ElementOfSeq
<1>4. k \in 0 .. RadixBits \div 8 - 1 /\ k \in Nat
  BY <1>1, WindowConstants
<1>5. v \in Nat /\ 2 * v * k \in Nat
  <2>1. v \in Nat /\ 2 * v \in Nat
    BY <1>1
  <2>2. QED BY <1>4, <2>1
<1>6. e \in Int
  BY <1>5, Pow2Positive
<1>7. multiples[k] = Multiples(R, v) /\ k \in DOMAIN multiples
  <2>1. BaseTables(P, v) =
          [m \in 0 .. RadixBits \div 8 - 1 |-> Multiples(Mul(Pow2[2 * v * m], P), v)]
    BY <1>3, <1>5, BaseTablesAre
  <2> HIDE DEF P, k
  <2>2. QED BY <1>1, <1>4, <2>1
<1>8. R \in Points
  <2> HIDE DEF e, P
  <2>1. QED BY <1>3, <1>6, PointIsInt, MulPoint
<1>9. /\ d \in Int /\ Select(Multiples(R, v), d) = Mul(d, R)
      /\ d # 0 => Abs(d) \in DOMAIN Multiples(R, v)
  <2> HIDE DEF R
  <2>1. QED BY <1>1, <1>3, <1>8, RowSelects
<1>10. Mul(d, R) = Mul(d * e, P) /\ d * e \in Int
  <2> HIDE DEF d, e, P
  <2>1. QED BY <1>3, <1>6, <1>9, MulMul DEF R
<1>11. Entry(rows[1], v, i) = d * e
  BY DEF Entry
<1> HIDE DEF d, e, P, R, k
<1>12. QED BY <1>7, <1>9, <1>10, <1>11 DEF d, k, P

(* The terms of both passes are integers.                                  *)
LEMMA PassTypes ==
  ASSUME NEW row, NEW v, NEW n \in Nat, \A i \in 0 .. n - 1 : Entry(row, v, i) \in Int
  PROVE  /\ Odds(row, v, n) \in [Nat -> Int] /\ Evens(row, v, n) \in [Nat -> Int]
         /\ \A i \in Nat : Odds(row, v, n)[i] =
                             IF i < n /\ i % 2 = 1 THEN Entry(row, v, i) ELSE 0
         /\ \A i \in Nat : Evens(row, v, n)[i] =
                             IF i < n /\ i % 2 = 0 THEN Entry(row, v, i) ELSE 0
<1>1. \A i \in Nat : i < n => Entry(row, v, i) \in Int
  OBVIOUS
<1>2. QED BY <1>1 DEF Odds, Evens

(* The two passes together give the scalar.                                *)
LEMMA PassesAddUp ==
  ASSUME NEW c, NEW v, NEW rows, NEW multiples, Ready(c, v, rows, multiples),
         c.method = "base_table", NEW n, n = SizeHint(v)
  PROVE  Pow2[v] * Sum(Odds(rows[1], v, n))[n] + Sum(Evens(rows[1], v, n))[n] = c.scalars[1]
<1> DEFINE row == rows[1]
           y == c.scalars[1]
           A == RadixAbove(y, v, n)
           O == Odds(row, v, n)
           E == Evens(row, v, n)
           D == [i \in Nat |-> IF i < n THEN row[i] * Pow2[v * i] ELSE 0]
           p == Pow2[v]
<1>1. /\ WindowCall(c) /\ v \in 4 .. 8 /\ rows = DigitsOf(c.scalars, v)
  BY DEF Ready
<1>2. Len(c.points) = 1 /\ Len(c.scalars) = 1
  BY <1>1, CallFacts, WindowCallFacts
<1>3. RowFits(row, A, y, v) /\ y \in Nat
  <2>1. 1 \in 1 .. Len(c.scalars)
    BY <1>2
  <2>2. /\ c.scalars[1] \in Nat
        /\ RowFits(DigitsOf(c.scalars, v)[1], RadixAbove(c.scalars[1], v, SizeHint(v)),
                   c.scalars[1], v)
    BY <1>1, <2>1, RowsFit, WindowCallFacts
  <2>3. QED BY <1>1, <2>2
<1>4. n \in Nat /\ n >= 2 /\ v \in Nat
  BY <1>1, WindowConstants
<1>5. p \in Nat
  BY <1>4, Pow2Positive
<1>6. \A i \in 0 .. n - 1 : row[i] \in Int /\ Entry(row, v, i) \in Int
  <2> HIDE DEF row
  <2>1. ASSUME NEW i \in 0 .. n - 1 PROVE rows[1][i] \in Int /\ Entry(rows[1], v, i) \in Int
    BY EntryIs
  <2>2. QED BY <2>1 DEF row
<1> HIDE DEF row, A, y, p
<1>7. /\ O \in [Nat -> Int] /\ E \in [Nat -> Int]
      /\ \A i \in Nat : O[i] = IF i < n /\ i % 2 = 1 THEN Entry(row, v, i) ELSE 0
      /\ \A i \in Nat : E[i] = IF i < n /\ i % 2 = 0 THEN Entry(row, v, i) ELSE 0
  <2>1. \A i \in 0 .. n - 1 : Entry(row, v, i) \in Int
    BY <1>6
  <2> HIDE DEF O, E
  <2>2. QED BY <1>4, <2>1, PassTypes DEF O, E
<1> HIDE DEF O, E
<1>8. /\ D \in [Nat -> Int]
      /\ \A i \in Nat : i < n => D[i] = row[i] * Pow2[v * i]
  <2>1. ASSUME NEW i \in Nat PROVE (IF i < n THEN row[i] * Pow2[v * i] ELSE 0) \in Int
    <3>1. CASE i < n
      <4>1. v * i \in Nat
        BY <1>4
      <4>2. Pow2[v * i] \in Int
        BY <4>1, Pow2Positive
      <4>3. row[i] \in Int
        BY <1>4, <1>6, <3>1
      <4> DEFINE r == row[i]
                 z == Pow2[v * i]
      <4> HIDE DEF r, z
      <4>4. r * z \in Int
        BY <4>2, <4>3 DEF r, z
      <4>5. QED BY <3>1, <4>4 DEF r, z
    <3>2. QED BY <3>1
  <2>2. QED BY <2>1
<1> HIDE DEF D
<1>9. ASSUME NEW i \in Nat, i < n
      PROVE  D[i] = p * O[i] + E[i]
  <2> DEFINE q == i \div 2
             r == row[i]
  <2>1. r \in Int /\ q \in Nat /\ i = 2 * q + (i % 2) /\ i % 2 \in {0, 1}
    <3>1. i \in 0 .. n - 1
      BY <1>4, <1>9
    <3>2. r \in Int
      BY <1>6, <3>1
    <3>3. QED BY <3>2
  <2>2. D[i] = r * Pow2[v * i]
    BY <1>8, <1>9
  <2>3. 2 * v * q \in Nat /\ 2 * v * q = v * (2 * q)
    <3> HIDE DEF q
    <3>1. QED BY <1>4, <2>1
  <2>4. CASE i % 2 = 0
    <3>1. O[i] = 0 /\ E[i] = Entry(row, v, i)
      BY <1>7, <1>9, <2>4
    <3>2. Entry(row, v, i) = r * Pow2[2 * v * q]
      BY DEF Entry
    <3>3. v * i = 2 * v * q
      <4>1. i = 2 * q
        BY <2>1, <2>4
      <4> HIDE DEF q
      <4>2. QED BY <2>3, <4>1
    <3> DEFINE z == Pow2[v * i]
    <3>4. r * z \in Int /\ p * 0 = 0
      <4>1. v * i \in Nat
        BY <2>3, <3>3
      <4>2. z \in Int
        BY <4>1, Pow2Positive
      <4> HIDE DEF r, z
      <4>3. QED BY <1>5, <2>1, <4>2
    <3>5. D[i] = r * z /\ E[i] = r * z
      BY <2>2, <3>1, <3>2, <3>3
    <3> HIDE DEF r, z
    <3>6. QED BY <3>1, <3>4, <3>5
  <2>5. CASE i % 2 = 1
    <3> DEFINE z == Pow2[2 * v * q]
    <3>1. E[i] = 0 /\ O[i] = Entry(row, v, i)
      BY <1>7, <1>9, <2>5
    <3>2. Entry(row, v, i) = r * z
      BY DEF Entry
    <3>3. v * i = v + 2 * v * q
      <4>1. i = 2 * q + 1
        BY <2>1, <2>5
      <4> HIDE DEF q
      <4>2. v * (2 * q + 1) = v * (2 * q) + v
        BY <1>4, <2>1
      <4>3. QED BY <1>4, <2>3, <4>1, <4>2
    <3>4. Pow2[v * i] = p * z
      BY <1>4, <2>3, <3>3, Pow2Sum DEF p
    <3>5. z \in Nat
      BY <2>3, Pow2Positive
    <3> HIDE DEF z, r
    <3>6. r * (p * z) = p * (r * z) /\ p * (r * z) \in Int
      BY <1>5, <2>1, <3>5
    <3>7. QED BY <2>2, <3>1, <3>2, <3>4, <3>6
  <2>6. QED BY <2>1, <2>4, <2>5
<1>10. Sum(D)[n] = p * Sum(O)[n] + Sum(E)[n]
  <2>1. SumsInto(D, p, O, E, n)
    BY <1>9 DEF SumsInto
  <2>2. p \in Int
    BY <1>5
  <2>3. QED BY <1>4, <1>7, <1>8, <2>1, <2>2, SumsCombine
<1>11. A \in [Nat -> Int] /\ A[0] = y /\ A[n] = 0
       /\ \A i \in 0 .. n - 1 : row[i] = A[i] - p * A[i + 1]
  BY <1>3, <1>4 DEF RowFits, RadixRow, p
<1>12. Sum(D)[n] = A[0] - Pow2[v * n] * A[n + 0]
  <2> DEFINE zero == 0
  <2>1. zero \in Nat /\ \A i \in Nat : i + zero = i
    OBVIOUS
  <2> HIDE DEF zero
  <2>2. ASSUME NEW i \in Nat, i < n
        PROVE  D[i] = (A[i + zero] - Pow2[v] * A[i + zero + 1]) * Pow2[v * i]
    <3>1. i \in 0 .. n - 1 /\ i + zero = i
      BY <1>4, <2>1, <2>2
    <3>2. D[i] = row[i] * Pow2[v * i] /\ row[i] = A[i] - p * A[i + 1]
      BY <1>8, <1>11, <2>2, <3>1
    <3>3. QED BY <3>1, <3>2 DEF p
  <2>3. Differences(D, A, v, zero, n)
    BY <2>2 DEF Differences
  <2>4. Sum(D)[n] = A[zero] - Pow2[v * n] * A[n + zero]
    <3>1. A \in [Nat -> Int] /\ D \in [Nat -> Int] /\ n \in Nat /\ v \in Nat /\ zero \in Nat
      BY <1>4, <1>8, <1>11, <2>1
    <3>2. QED BY <2>3, <3>1, Telescopes
  <2>5. QED BY <2>4 DEF zero
<1>13. Sum(D)[n] = y
  <2>1. n + 0 = n /\ v * n \in Nat /\ y \in Int
    BY <1>3, <1>4
  <2>2. Pow2[v * n] \in Int
    BY <2>1, Pow2Positive
  <2> DEFINE z == Pow2[v * n]
  <2> HIDE DEF z
  <2>3. z * 0 = 0
    BY <2>2 DEF z
  <2>4. QED BY <1>11, <1>12, <2>1, <2>3 DEF z
<1>14. QED BY <1>10, <1>13 DEF p, O, E, y, row

(* What the two passes add up to, for the state's digits.                  *)
OddSum(i) == Sum(Odds(digits[1], w, SizeHint(w)))[i]
EvenSum(i) == Sum(Evens(digits[1], w, SizeHint(w)))[i]

(* Each digit adds its term to the sum of its pass; the other pass has     *)
(* none there.                                                             *)
LEMMA PassSteps ==
  ASSUME WindowReady, call.method = "base_table", NEW i \in Nat
  PROVE  /\ OddSum(i) \in Int /\ EvenSum(i) \in Int /\ OddSum(0) = 0 /\ EvenSum(0) = 0
         /\ i % 2 = 0 => OddSum(i + 1) = OddSum(i)
         /\ i >= SizeHint(w) => OddSum(i + 1) = OddSum(i) /\ EvenSum(i + 1) = EvenSum(i)
         /\ i % 2 = 1 /\ i < SizeHint(w) =>
              OddSum(i + 2) = OddSum(i) + Entry(digits[1], w, i)
         /\ i % 2 = 0 /\ i < SizeHint(w) =>
              EvenSum(i + 2) = EvenSum(i) + Entry(digits[1], w, i)
         /\ i % 2 = 0 /\ i + 1 = SizeHint(w) =>
              EvenSum(i + 1) = EvenSum(i) + Entry(digits[1], w, i)
         /\ i < SizeHint(w) => Entry(digits[1], w, i) \in Int
<1> DEFINE row == digits[1]
           n == SizeHint(w)
           O == Odds(row, w, n)
           E == Evens(row, w, n)
<1>1. Ready(call, w, digits, tables) /\ w \in 4 .. 8
  BY DEF WindowReady, Ready
<1>2. n \in Nat
  BY <1>1, WindowConstants
<1>3. \A m \in 0 .. n - 1 : Entry(row, w, m) \in Int
  BY <1>1, EntryIs
<1> HIDE DEF row, n
<1>4. /\ O \in [Nat -> Int] /\ E \in [Nat -> Int]
      /\ \A m \in Nat : O[m] = IF m < n /\ m % 2 = 1 THEN Entry(row, w, m) ELSE 0
      /\ \A m \in Nat : E[m] = IF m < n /\ m % 2 = 0 THEN Entry(row, w, m) ELSE 0
  <2> HIDE DEF O, E
  <2>1. QED BY <1>2, <1>3, PassTypes DEF O, E
<1> HIDE DEF O, E
<1>5. /\ Sum(O)[i] \in Int /\ Sum(O)[i + 1] = Sum(O)[i] + O[i]
      /\ Sum(O)[i + 2] = Sum(O)[i] + O[i] + O[i + 1] /\ Sum(O)[0] = 0
  BY <1>4, SumTwo, SumDef
<1>6. /\ Sum(E)[i] \in Int /\ Sum(E)[i + 1] = Sum(E)[i] + E[i]
      /\ Sum(E)[i + 2] = Sum(E)[i] + E[i] + E[i + 1] /\ Sum(E)[0] = 0
  BY <1>4, SumTwo, SumDef
<1>7. /\ OddSum(i) = Sum(O)[i] /\ OddSum(i + 1) = Sum(O)[i + 1] /\ OddSum(i + 2) = Sum(O)[i + 2]
      /\ EvenSum(i) = Sum(E)[i] /\ EvenSum(i + 1) = Sum(E)[i + 1]
      /\ EvenSum(i + 2) = Sum(E)[i + 2] /\ OddSum(0) = Sum(O)[0] /\ EvenSum(0) = Sum(E)[0]
  BY DEF OddSum, EvenSum, O, E, row, n
<1> DEFINE e == Entry(row, w, i)
<1>8. i < n => e \in Int
  BY <1>2, <1>3
<1> HIDE DEF e
<1>9. /\ O[i] = IF i < n /\ i % 2 = 1 THEN e ELSE 0
      /\ E[i] = IF i < n /\ i % 2 = 0 THEN e ELSE 0
  BY <1>4 DEF e
<1>10. /\ i % 2 = 1 => O[i + 1] = 0
       /\ i % 2 = 0 => E[i + 1] = 0
  <2>1. i + 1 \in Nat /\ (i % 2 = 1 => (i + 1) % 2 # 1) /\ (i % 2 = 0 => (i + 1) % 2 # 0)
    OBVIOUS
  <2>2. QED BY <1>4, <2>1
<1>11. /\ i % 2 = 0 => OddSum(i + 1) = OddSum(i)
       /\ i >= n => OddSum(i + 1) = OddSum(i) /\ EvenSum(i + 1) = EvenSum(i)
       /\ i % 2 = 1 /\ i < n => OddSum(i + 2) = OddSum(i) + e
       /\ i % 2 = 0 /\ i < n => EvenSum(i + 2) = EvenSum(i) + e
       /\ i % 2 = 0 /\ i + 1 = n => EvenSum(i + 1) = EvenSum(i) + e
       /\ OddSum(i) \in Int /\ EvenSum(i) \in Int /\ OddSum(0) = 0 /\ EvenSum(0) = 0
  <2>1. i % 2 \in {0, 1} /\ i \in Int
    OBVIOUS
  <2>2. QED BY <1>2, <1>5, <1>6, <1>7, <1>8, <1>9, <1>10, <2>1
<1>12. QED BY <1>8, <1>11 DEF e, row, n

(* One digit more of the pass.                                             *)
LEMMA AddDigitIs ==
  ASSUME WindowReady, call.method = "base_table", j \in 0 .. SizeHint(w) - 1, AddDigit,
         NEW s \in Int, Q = Mul(s, call.points[1])
  PROVE  Q' = Mul(s + Entry(digits[1], w, j), call.points[1]) /\ Q' \in Points
<1> DEFINE P == call.points[1]
           e == Entry(digits[1], w, j)
<1>1. Ready(call, w, digits, tables)
  BY DEF WindowReady
<1>2. P \in Points
  <2>1. WindowCall(call) /\ Len(call.points) = 1 /\ call.points \in Seq(Points)
    BY <1>1, CallFacts, WindowCallFacts DEF Ready
  <2>2. QED BY <2>1, ElementOfSeq
<1>3. e \in Int /\ Select(tables[j \div 2], digits[1][j]) = Mul(e, P)
  BY <1>1, EntryIs
<1>4. Q' = Add(Q, Select(tables[j \div 2], digits[1][j]))
  BY DEF AddDigit
<1> HIDE DEF P, e
<1>5. Add(Mul(s, P), Mul(e, P)) = Mul(s + e, P) /\ s + e \in Int
  BY <1>2, <1>3, MulAdd
<1>6. Mul(s + e, P) \in Points
  BY <1>2, <1>5, PointIsInt, MulPoint
<1>7. QED BY <1>3, <1>4, <1>5, <1>6 DEF P, e

(* A call of a basepoint table has one point.                              *)
LEMMA BaseCall ==
  ASSUME NEW c \in Calls, c.method = "base_table"
  PROVE  /\ WindowCall(c) /\ c.points[1] \in Points /\ c.scalars[1] \in Int
         /\ Outcomes(c) = {Mul(c.scalars[1], c.points[1])}
<1>1. WindowCall(c) /\ Len(c.points) = 1
  BY CallFacts DEF WindowCall, WindowMethods
<1>2. /\ c.points \in Seq(Points) /\ Len(c.scalars) = 1 /\ c.scalars \in Seq(Nat)
      /\ Outcomes(c) = {Weigh(c.scalars, c.points)}
  BY <1>1, CallFacts, WindowCallFacts
<1>3. c.scalars[1] \in Int
  <2>1. 1 \in 1 .. Len(c.scalars)
    BY <1>2
  <2>2. QED BY <1>2, <2>1, ScalarsAreInt
<1>4. QED BY <1>1, <1>2, <1>3, WeighOne

(* The steps of mul_base keep the invariant; the last returns the product. *)
LEMMA BaseTableInv ==
  ASSUME CallInv, WindowInv, StartBaseTable
  PROVE  CallInv' /\ WindowInv'
<1>1. /\ pc = "Start" /\ call.method = "base_table" /\ w' \in 4 .. 8
      /\ digits' = DigitsOf(call.scalars, w') /\ tables' = BaseTables(call.points[1], w')
      /\ pc' = "Odd" /\ j' = 1 /\ UNCHANGED <<call, result, build, Q>>
  BY DEF StartBaseTable
<1>2. call \in Calls /\ Q' = 0
  BY <1>1 DEF CallInv, WindowInv
<1>3. CallInv'
  BY <1>1 DEF CallInv, build
<1>4. WindowReady'
  <2>1. Ready(call', w', digits', tables')
    BY <1>1, <1>2, BaseCall DEF Ready
  <2>2. QED BY <2>1 DEF WindowReady
<1>5. 1 \in 0 .. RadixBits \div 4 + 1 /\ SizeHint(w') \in Nat /\ SizeHint(w') >= 2
  <2>1. RadixBits \div 4 \in Nat /\ SizeHint(w') \in Nat /\ SizeHint(w') >= 2
    BY <1>1, WindowConstants
  <2>2. QED BY <2>1
<1>6. OddInv'
  <2> DEFINE n == SizeHint(w')
             O == Odds(digits'[1], w', n)
             P == call.points[1]
  <2>1. Ready(call, w', digits', tables') /\ n \in Nat
    BY <1>1, <1>5, <1>2, BaseCall DEF Ready
  <2>2. \A m \in 0 .. n - 1 : Entry(digits'[1], w', m) \in Int
    BY <1>1, <2>1, EntryIs
  <2>3. O \in [Nat -> Int] /\ O[0] = 0
    <3> HIDE DEF n
    <3>1. /\ O \in [Nat -> Int]
          /\ \A m \in Nat : O[m] = IF m < n /\ m % 2 = 1 THEN Entry(digits'[1], w', m) ELSE 0
      <4> HIDE DEF O
      <4>1. QED BY <2>1, <2>2, PassTypes DEF O
    <3> HIDE DEF O
    <3>2. QED BY <3>1
  <2> HIDE DEF O
  <2>4. Sum(O)[1] = 0
    <3>1. Sum(O)[0] = 0
      BY <2>3, SumDef
    <3>2. 0 + 1 = 1 /\ Sum(O)[0 + 1] = Sum(O)[0] + O[0]
      BY <2>3, SumTwo
    <3>3. QED BY <2>3, <3>1, <3>2
  <2>5. Mul(0, P) = 0
    BY <1>1, <1>2, BaseCall, MulOne
  <2>6. j' % 2 = 1 /\ j' <= SizeHint(w') + 1
    BY <1>1, <1>5
  <2>7. Q' = Mul(Sum(O)[j'], call'.points[1])
    BY <1>1, <1>2, <2>4, <2>5
  <2>8. QED BY <1>1, <2>6, <2>7 DEF OddInv, O, n
<1>7. QED BY <1>1, <1>3, <1>4, <1>5, <1>6 DEF WindowInv

LEMMA OddDigitInv ==
  ASSUME CallInv, WindowInv, OddDigit
  PROVE  CallInv' /\ WindowInv'
<1>1. /\ pc = "Odd" /\ j < SizeHint(w) /\ AddDigit /\ j' = j + 2
      /\ UNCHANGED <<call, result, build, pc, w, digits, tables>>
  BY DEF OddDigit
<1>2. /\ WindowReady /\ call.method = "base_table" /\ j % 2 = 1 /\ j \in Nat
      /\ w \in 4 .. 8 /\ Q = Mul(OddSum(j), call.points[1])
  <2>1. RadixBits \div 4 + 1 \in Int
    BY WindowAssumption
  <2>2. QED BY <1>1, <2>1 DEF WindowInv, OddInv, OddSum
<1>3. SizeHint(w) \in Nat /\ SizeHint(w) <= RadixBits \div 4 /\ RadixBits \div 4 \in Nat
  BY <1>2, WindowConstants
<1>4. /\ OddSum(j) \in Int /\ OddSum(j + 2) = OddSum(j) + Entry(digits[1], w, j)
  BY <1>1, <1>2, PassSteps
<1>5. Q' = Mul(OddSum(j + 2), call.points[1]) /\ Q' \in Points
  <2>1. j \in 0 .. SizeHint(w) - 1
    BY <1>1, <1>2, <1>3
  <2>2. QED BY <1>1, <1>2, <1>4, <2>1, AddDigitIs
<1>6. CallInv'
  BY <1>1, <1>5 DEF CallInv, build
<1>7. WindowReady'
  BY <1>1, <1>2 DEF WindowReady
<1>8. OddInv'
  <2>1. j' % 2 = 1 /\ j' <= SizeHint(w) + 1
    BY <1>1, <1>2, <1>3
  <2>2. QED BY <1>1, <1>2, <1>5, <2>1 DEF OddInv, OddSum
<1>9. j' \in 0 .. RadixBits \div 4 + 1
  BY <1>1, <1>2, <1>3
<1>10. QED BY <1>1, <1>2, <1>6, <1>7, <1>8, <1>9 DEF WindowInv

LEMMA ShiftInv ==
  ASSUME CallInv, WindowInv, Shift
  PROVE  CallInv' /\ WindowInv'
<1> DEFINE P == call.points[1]
           n == SizeHint(w)
           p == Pow2[w]
<1>1. /\ pc = "Odd" /\ j >= n /\ Q' = MulByPow2(w, Q) /\ pc' = "Even" /\ j' = 0
      /\ UNCHANGED <<call, result, build, w, digits, tables>>
  BY DEF Shift
<1>2. /\ WindowReady /\ call.method = "base_table" /\ j \in Nat /\ j <= n + 1
      /\ w \in 4 .. 8 /\ w \in Nat /\ Q = Mul(OddSum(j), P) /\ call \in Calls
  <2>1. RadixBits \div 4 + 1 \in Int
    BY WindowAssumption
  <2>2. QED BY <1>1, <2>1 DEF WindowInv, OddInv, OddSum, CallInv
<1>3. n \in Nat /\ n >= 2 /\ RadixBits \div 4 \in Nat
  BY <1>2, WindowConstants
<1>4. OddSum(j) = OddSum(n) /\ OddSum(n) \in Int /\ EvenSum(0) = 0
  <2>1. OddSum(n) \in Int /\ EvenSum(0) = 0 /\ OddSum(n + 1) = OddSum(n)
    <3> HIDE DEF n
    <3>1. n >= SizeHint(w)
      BY <1>3 DEF n
    <3>2. QED BY <1>2, <1>3, <3>1, PassSteps
  <2>2. j = n \/ j = n + 1
    BY <1>1, <1>2, <1>3
  <2>3. QED BY <2>1, <2>2
<1>5. P \in Points /\ p \in Int
  BY <1>2, BaseCall, Pow2Positive
<1> HIDE DEF P, n, p
<1>6. Q' = Mul(p * OddSum(n) + EvenSum(0), P) /\ Q' \in Points
  <2> DEFINE s == OddSum(n)
  <2>1. s \in Int
    BY <1>4
  <2>2. Q' = Mul(p, Mul(s, P))
    BY <1>1, <1>2, <1>4 DEF MulByPow2, p
  <2> HIDE DEF s
  <2>3. Mul(p, Mul(s, P)) = Mul(p * s, P) /\ p * s \in Int /\ p * s + 0 = p * s
    BY <1>5, <2>1, MulMul
  <2>4. Mul(p * s, P) \in Points
    BY <1>5, <2>3, PointIsInt, MulPoint
  <2>5. QED BY <1>4, <2>2, <2>3, <2>4 DEF s
<1>7. CallInv'
  BY <1>1, <1>6 DEF CallInv, build
<1>8. WindowReady'
  BY <1>1, <1>2 DEF WindowReady
<1>9. EvenInv'
  <2>1. j' % 2 = 0 /\ j' < n
    BY <1>1, <1>3
  <2>2. Q' = Mul(Pow2[w] * OddSum(SizeHint(w)) + EvenSum(j'), call.points[1])
    BY <1>1, <1>6 DEF P, p, n
  <2>3. QED BY <1>1, <1>2, <2>1, <2>2 DEF EvenInv, OddSum, EvenSum, n
<1>10. j' \in 0 .. RadixBits \div 4 + 1
  BY <1>1, <1>3
<1>11. QED BY <1>1, <1>2, <1>7, <1>8, <1>9, <1>10 DEF WindowInv

LEMMA EvenDigitInv ==
  ASSUME CallInv, WindowInv, EvenDigit
  PROVE  CallInv' /\ WindowInv'
<1> DEFINE P == call.points[1]
           n == SizeHint(w)
           a == Pow2[w] * OddSum(n)
<1>1. /\ pc = "Even" /\ j < n /\ AddDigit
      /\ IF j + 2 >= n THEN Return(Q')
         ELSE j' = j + 2 /\ UNCHANGED <<call, result, build, pc, w, digits, tables>>
  BY DEF EvenDigit
<1>2. /\ WindowReady /\ call.method = "base_table" /\ j \in Nat /\ j % 2 = 0
      /\ w \in 4 .. 8 /\ w \in Nat /\ Q = Mul(a + EvenSum(j), P) /\ call \in Calls
  <2>1. RadixBits \div 4 + 1 \in Int
    BY WindowAssumption
  <2>2. QED BY <1>1, <2>1 DEF WindowInv, EvenInv, OddSum, EvenSum, CallInv
<1>3. n \in Nat /\ n <= RadixBits \div 4 /\ RadixBits \div 4 \in Nat
  BY <1>2, WindowConstants
<1>4. /\ EvenSum(j) \in Int /\ Entry(digits[1], w, j) \in Int
      /\ EvenSum(j + 2) = EvenSum(j) + Entry(digits[1], w, j)
  BY <1>1, <1>2, PassSteps
<1>5. a \in Int
  <2>1. OddSum(n) \in Int
    BY <1>2, <1>3, PassSteps
  <2>2. Pow2[w] \in Int
    BY <1>2, Pow2Positive
  <2> DEFINE z == Pow2[w]
             s == OddSum(n)
  <2> HIDE DEF z, s
  <2>3. z * s \in Int
    BY <2>1, <2>2 DEF z, s
  <2>4. QED BY <2>3 DEF z, s
<1> HIDE DEF a
<1>6. Q' = Mul(a + EvenSum(j + 2), P) /\ Q' \in Points
  <2> DEFINE s == a + EvenSum(j)
             e == Entry(digits[1], w, j)
  <2>1. s \in Int /\ s + e = a + EvenSum(j + 2)
    BY <1>4, <1>5
  <2>2. j \in 0 .. SizeHint(w) - 1
    BY <1>1, <1>2, <1>3
  <2>3. Q = Mul(s, call.points[1])
    BY <1>2
  <2> HIDE DEF s
  <2>4. Q' = Mul(s + Entry(digits[1], w, j), call.points[1]) /\ Q' \in Points
    BY <1>1, <1>2, <2>1, <2>2, <2>3, AddDigitIs
  <2>5. QED BY <2>1, <2>4
<1>7. CASE j + 2 >= n
  <2>1. Return(Q')
    BY <1>1, <1>7
  <2>2. a + EvenSum(n) = call.scalars[1]
    <3>1. Ready(call, w, digits, tables)
      BY <1>2 DEF WindowReady
    <3>2. QED BY <1>2, <3>1, PassesAddUp DEF a, OddSum, EvenSum
  <2>3. EvenSum(j + 2) = EvenSum(n)
    <3>1. n = j + 2 \/ n = j + 1
      BY <1>1, <1>2, <1>3, <1>7
    <3>2. CASE n = j + 1
      <4>1. EvenSum(j + 1) = EvenSum(j) + Entry(digits[1], w, j)
        BY <1>2, <3>2, PassSteps
      <4>2. QED BY <1>4, <3>2, <4>1
    <3>3. QED BY <3>1, <3>2
  <2>4. Q' \in Outcomes(call)
    BY <1>2, <1>6, <2>2, <2>3, BaseCall
  <2>5. QED BY <1>6, <2>1, <2>4, Returns, WindowReturns
<1>8. CASE ~ (j + 2 >= n)
  <2>1. /\ j' = j + 2 /\ call' = call /\ result' = result /\ build' = build /\ pc' = pc
        /\ w' = w /\ digits' = digits /\ tables' = tables
    BY <1>1, <1>8
  <2>2. CallInv'
    BY <1>6, <2>1 DEF CallInv, build
  <2>3. WindowReady'
    BY <1>2, <2>1 DEF WindowReady
  <2>4. EvenInv'
    <3>1. j' % 2 = 0 /\ j' < n
      BY <1>2, <1>3, <1>8, <2>1
    <3>2. QED BY <1>2, <1>6, <2>1, <3>1 DEF EvenInv, OddSum, EvenSum, a
  <2>5. j' \in 0 .. RadixBits \div 4 + 1
    BY <1>2, <1>3, <1>8, <2>1
  <2>6. QED BY <1>1, <1>2, <2>1, <2>2, <2>3, <2>4, <2>5 DEF WindowInv
<1>9. QED BY <1>7, <1>8

(* So every step over centered digits does.                                *)
LEMMA WindowStepInv ==
  ASSUME CallInv, WindowInv, WindowStep
  PROVE  CallInv' /\ WindowInv'
<1>1. CASE StartVariableBase
  BY <1>1, VariableBaseInv
<1>2. CASE StartStrausCT
  BY <1>2, StrausCTInv
<1>3. CASE StartPippenger
  BY <1>3, PippengerInv
<1>4. CASE ShiftAndAdd
  BY <1>4, ShiftAndAddInv
<1>5. CASE StartBaseTable
  BY <1>5, BaseTableInv
<1>6. CASE OddDigit
  BY <1>6, OddDigitInv
<1>7. CASE Shift
  BY <1>7, ShiftInv
<1>8. CASE EvenDigit
  BY <1>8, EvenDigitInv
<1>9. QED BY <1>1, <1>2, <1>3, <1>4, <1>5, <1>6, <1>7, <1>8 DEF WindowStep

-----------------------------------------------------------------------------
(* The inductive invariant.                                                *)
ScalarMulInv == CallInv /\ IF OverNafs THEN NafInv ELSE WindowInv

(* It holds at the start,                                                  *)
LEMMA InitInv == Init => ScalarMulInv
<1> SUFFICES ASSUME Init PROVE ScalarMulInv
  OBVIOUS
<1>1. /\ call \in Calls /\ result = Pending /\ pc = "Start" /\ digits = <<>> /\ tables = <<>>
      /\ Q = 0 /\ j = 0
      /\ OverNafs => tables_built \in BOOLEAN /\ debug \in BOOLEAN
      /\ ~ OverNafs => w = 4 /\ tables_built = FALSE /\ debug = FALSE
  BY DEF Init
<1>2. CallInv
  <2>1. 0 \in Points
    BY BasepointIsPoint, MulOne
  <2>2. tables_built \in BOOLEAN /\ debug \in BOOLEAN
    BY <1>1
  <2>3. QED BY <1>1, <2>1, <2>2 DEF CallInv, build
<1>3. NafInv
  <2> DEFINE E == <<>>
             z == [k \in {} |-> 0]
  <2>1. E \in Seq(Points) /\ Len(E) = 0 /\ 1 .. Len(E) = {}
    OBVIOUS
  <2>2. /\ <<>> = [k \in 1 .. Len(E) |-> Naf(z[k], z[k], NafBits)]
        /\ <<>> = [k \in 1 .. Len(E) |-> OddMultiples(E[k], z[k])]
    BY <2>1
  <2>3. FitsNafs(z, z, z, E)
    <3> HIDE DEF E
    <3>1. QED BY <2>1 DEF FitsNafs
  <2>4. NafArrays(z, z, z, E)
    <3> HIDE DEF E, z
    <3>1. QED BY <1>1, <2>2, <2>3 DEF NafArrays, NafsAre
  <2>5. 0 \in 0 .. NafBits - 1
    BY NafConstants
  <2>6. QED BY <1>1, <2>4, <2>5 DEF NafInv
<1>4. ~ OverNafs => WindowInv
  <2>1. 4 \in 4 .. 8 /\ 0 \in 0 .. RadixBits \div 4 + 1
    BY WindowAssumption
  <2>2. QED BY <1>1, <2>1 DEF WindowInv
<1>5. QED BY <1>2, <1>3, <1>4 DEF ScalarMulInv

(* Every step is of its method, before the answer, and keeps the call.     *)
LEMMA NafStepGuard ==
  ASSUME NafStep
  PROVE  /\ call.method \in NafMethods \/ pc = "Loop"
         /\ pc # "Done" /\ call' = call
<1>1. CASE StartDouble
  BY <1>1 DEF StartDouble, StartLoop, NafMethods
<1>2. CASE StartTriple
  BY <1>2 DEF StartTriple, StartLoop, NafMethods
<1>3. CASE RejectLong
  BY <1>3 DEF RejectLong, Return, NafMethods
<1>4. CASE StartStraus
  BY <1>4 DEF StartStraus, StartLoop, Return, NafMethods
<1>5. CASE StartPrecomputed
  BY <1>5 DEF StartPrecomputed, StartLoop, Return, NafMethods
<1>6. CASE DoubleAndAdd
  BY <1>6 DEF DoubleAndAdd, Return
<1>7. QED BY <1>1, <1>2, <1>3, <1>4, <1>5, <1>6 DEF NafStep

LEMMA WindowStepGuard ==
  ASSUME WindowStep
  PROVE  /\ call.method \notin NafMethods \/ pc \in {"Columns", "Odd", "Even"}
         /\ pc # "Done" /\ call' = call
<1>1. CASE StartVariableBase
  BY <1>1 DEF StartVariableBase, NafMethods
<1>2. CASE StartStrausCT
  BY <1>2 DEF StartStrausCT, Return, NafMethods
<1>3. CASE StartPippenger
  BY <1>3 DEF StartPippenger, Return, NafMethods
<1>4. CASE ShiftAndAdd
  BY <1>4 DEF ShiftAndAdd, Return
<1>5. CASE StartBaseTable
  BY <1>5 DEF StartBaseTable, NafMethods
<1>6. CASE OddDigit
  BY <1>6 DEF OddDigit
<1>7. CASE Shift
  BY <1>7 DEF Shift
<1>8. CASE EvenDigit
  BY <1>8 DEF EvenDigit, Return
<1>9. QED BY <1>1, <1>2, <1>3, <1>4, <1>5, <1>6, <1>7, <1>8 DEF WindowStep

(* It is kept by every step, none of which is taken after the answer.      *)
LEMMA StepInv ==
  ASSUME ScalarMulInv, Next
  PROVE  ScalarMulInv' /\ pc # "Done" /\ call' = call
<1>1. CASE NafStep
  <2>1. pc # "Done" /\ call' = call /\ (call.method \in NafMethods \/ pc = "Loop")
    BY <1>1, NafStepGuard
  <2>2. OverNafs
    <3>1. CASE ~ OverNafs
      <4>1. pc # "Loop"
        BY <3>1 DEF ScalarMulInv, WindowInv
      <4>2. QED BY <2>1, <3>1, <4>1 DEF OverNafs
    <3>2. QED BY <3>1
  <2>3. CallInv' /\ NafInv'
    BY <1>1, <2>2, NafStepInv DEF ScalarMulInv
  <2>4. OverNafs'
    BY <2>1, <2>2 DEF OverNafs
  <2>5. QED BY <2>1, <2>3, <2>4 DEF ScalarMulInv
<1>2. CASE WindowStep
  <2>1. /\ pc # "Done" /\ call' = call
        /\ call.method \notin NafMethods \/ pc \in {"Columns", "Odd", "Even"}
    BY <1>2, WindowStepGuard
  <2>2. ~ OverNafs
    <3>1. CASE OverNafs
      <4>1. pc \notin {"Columns", "Odd", "Even"}
        BY <3>1 DEF ScalarMulInv, NafInv
      <4>2. QED BY <2>1, <3>1, <4>1 DEF OverNafs
    <3>2. QED BY <3>1
  <2>3. CallInv' /\ WindowInv'
    BY <1>2, <2>2, WindowStepInv DEF ScalarMulInv
  <2>4. ~ OverNafs'
    BY <2>1, <2>2 DEF OverNafs
  <2>5. QED BY <2>1, <2>3, <2>4 DEF ScalarMulInv
<1>3. QED BY <1>1, <1>2 DEF Next

(* The invariant is inductive.                                             *)
LEMMA NextInv == ScalarMulInv /\ [Next]_vars => ScalarMulInv'
<1>1. ASSUME ScalarMulInv, Next PROVE ScalarMulInv'
  BY <1>1, StepInv
<1>2. ASSUME ScalarMulInv, UNCHANGED vars PROVE ScalarMulInv'
  <2>1. /\ call' = call /\ result' = result /\ build' = build /\ pc' = pc /\ w' = w
        /\ digits' = digits /\ tables' = tables /\ Q' = Q /\ j' = j
    BY <1>2 DEF vars
  <2>2. CallInv' /\ (OverNafs <=> OverNafs')
    BY <1>2, <2>1 DEF ScalarMulInv, CallInv, OverNafs
  <2>3. OverNafs => NafInv'
    <3>1. ASSUME NafInv PROVE NafInv'
      <4>1. PICK x, v, t, P : NafArrays(x, v, t, P) /\ (pc = "Loop" => NafLoop(x, v, P))
        BY <3>1 DEF NafInv
      <4>2. NafArrays(x, v, t, P)'
        <5>1. NafsAre(digits', tables', x, v, t, P)
          BY <2>1, <4>1 DEF NafArrays
        <5>2. QED BY <5>1 DEF NafArrays
      <4>3. pc' = "Loop" => NafLoop(x, v, P)'
        BY <2>1, <4>1 DEF NafLoop
      <4>4. QED BY <2>1, <3>1, <4>2, <4>3 DEF NafInv
    <3>2. QED BY <1>2, <3>1 DEF ScalarMulInv
  <2>4. ~ OverNafs => WindowInv'
    <3>1. ASSUME WindowInv PROVE WindowInv'
      BY <2>1, <3>1 DEF WindowInv, WindowReady, ColumnsInv, OddInv, EvenInv
    <3>2. QED BY <1>2, <3>1 DEF ScalarMulInv
  <2>5. QED BY <2>2, <2>3, <2>4 DEF ScalarMulInv
<1>3. QED BY <1>1, <1>2
-----------------------------------------------------------------------------
(* It says that every digit has an entry.                                  *)
LEMMA InvSelects == ScalarMulInv => SelectsInTable
<1> SUFFICES ASSUME ScalarMulInv PROVE SelectsInTable
  OBVIOUS
<1>1. /\ call \in Calls /\ result \in Points \cup {None, Panic, Pending}
      /\ build \in BOOLEAN \X BOOLEAN /\ Q \in Points
  BY DEF ScalarMulInv, CallInv
<1>2. CASE OverNafs
  <2>1. NafInv
    BY <1>2 DEF ScalarMulInv
  <2>2. PICK x, v, t, P : NafArrays(x, v, t, P)
    BY <2>1 DEF NafInv
  <2>3. /\ DOMAIN digits = 1 .. Len(P) /\ DOMAIN tables = 1 .. Len(P)
        /\ \A k \in 1 .. Len(P) :
             TermFits(digits[k], tables[k], NafK(x[k], v[k]), x[k], P[k])
    BY <2>2, NafArrayFacts
  <2>4. pc \in {"Start", "Loop", "Done"} /\ j \in 0 .. NafBits - 1
    BY <2>1 DEF NafInv
  <2>5. NafTypeOK
    BY <2>3, <2>4 DEF NafTypeOK, TermFits
  <2>6. TypeOK
    BY <1>1, <1>2, <2>4, <2>5 DEF TypeOK
  <2>7. NafSelectsInTable
    <3>1. ASSUME NEW k \in DOMAIN digits, NEW place \in 0 .. j, digits[k][place] # 0
          PROVE  /\ digits[k][place] % 2 = 1
                 /\ Abs(digits[k][place]) \div 2 \in DOMAIN tables[k]
      <4>1. place \in 0 .. NafBits - 1
        BY <2>4, NafConstants
      <4>2. QED BY <2>3, <3>1, <4>1 DEF TermFits
    <3>2. QED BY <3>1 DEF NafSelectsInTable
  <2>8. QED BY <1>2, <2>6, <2>7 DEF SelectsInTable
<1>3. CASE ~ OverNafs
  <2>1. WindowInv
    BY <1>3 DEF ScalarMulInv
  <2>2. /\ pc \in {"Start", "Columns", "Odd", "Even", "Done"} /\ w \in 4 .. 8
        /\ j \in 0 .. RadixBits \div 4 + 1
    BY <2>1 DEF WindowInv
  <2>3. CASE digits = <<>>
    <3>1. DOMAIN digits = {}
      BY <2>3
    <3>2. WindowTypeOK /\ WindowSelectsInTable
      BY <2>2, <3>1 DEF WindowTypeOK, WindowSelectsInTable
    <3>3. TypeOK
      BY <1>1, <1>3, <2>2, <3>2 DEF TypeOK
    <3>4. QED BY <1>3, <3>2, <3>3 DEF SelectsInTable
  <2>4. CASE WindowReady
    <3> DEFINE n == Len(call.points)
               S == SizeHint(w)
    <3>1. Ready(call, w, digits, tables) /\ WindowCall(call) /\ digits = DigitsOf(call.scalars, w)
      BY <2>4 DEF WindowReady, Ready
    <3>2. /\ DOMAIN digits = 1 .. n /\ call.points \in Seq(Points)
          /\ \A k \in 1 .. n :
               RowFits(digits[k], RadixAbove(call.scalars[k], w, S), call.scalars[k], w)
      BY <2>2, <3>1, WindowCallFacts, RowsFit
    <3>3. \A k \in 1 .. n : digits[k] \in [0 .. S - 1 -> -128 .. 127]
      BY <3>2 DEF RowFits, RadixRow
    <3>4. WindowTypeOK
      BY <2>2, <3>2, <3>3 DEF WindowTypeOK
    <3>5. TypeOK
      BY <1>1, <1>3, <2>2, <3>4 DEF TypeOK
    <3>6. ASSUME NEW k \in DOMAIN digits, NEW place \in DOMAIN digits[k]
          PROVE  CASE call.method = "pippenger"  -> Abs(digits[k][place]) <= Pow2[w - 1]
                   [] call.method = "base_table" ->
                        /\ place \div 2 \in DOMAIN tables
                        /\ Abs(digits[k][place]) # 0 =>
                             Abs(digits[k][place]) \in DOMAIN tables[place \div 2]
                   [] OTHER -> Abs(digits[k][place]) # 0 =>
                                 Abs(digits[k][place]) \in DOMAIN tables[k]
      <4> DEFINE d == digits[k][place]
      <4>1. k \in 1 .. n /\ place \in 0 .. SizeHint(w) - 1
        BY <3>2, <3>3
      <4>2. call.points[k] \in Points
        BY <3>2, <4>1, ElementOfSeq
      <4>3. /\ d \in Int /\ d \in -Pow2[w - 1] .. Pow2[w - 1]
            /\ d # 0 => Abs(d) \in DOMAIN Multiples(call.points[k], w)
        BY <2>2, <3>1, <4>1, <4>2, RowSelects
      <4>4. Abs(d) # 0 => d # 0
        BY DEF Abs
      <4>5. CASE call.method = "pippenger"
        <5>1. Pow2[w - 1] \in Nat
          <6>1. w - 1 \in Nat
            BY <2>2
          <6>2. QED BY <6>1, Pow2Positive
        <5>2. Abs(d) <= Pow2[w - 1]
          <6> HIDE DEF d
          <6>1. QED BY <4>3, <5>1 DEF Abs
        <5>3. QED BY <4>5, <5>2
      <4>6. CASE call.method = "base_table"
        <5>1. k = 1
          <6>1. Len(call.points) = 1
            BY <1>1, <4>6, CallFacts
          <6>2. QED BY <4>1, <6>1
        <5>2. /\ place \div 2 \in DOMAIN tables
              /\ d # 0 => Abs(d) \in DOMAIN tables[place \div 2]
          BY <3>1, <4>1, <4>6, <5>1, EntryIs
        <5>3. QED BY <4>4, <4>6, <5>2
      <4>7. CASE call.method \notin {"pippenger", "base_table"}
        <5>1. call.method \in {"variable_base", "straus_ct"}
          BY <3>1, <4>7 DEF WindowCall, WindowMethods
        <5>2. tables[k] = Multiples(call.points[k], w)
          BY <3>1, <4>1, <5>1 DEF Ready
        <5>3. QED BY <4>3, <4>4, <4>7, <5>2
      <4>8. QED BY <4>5, <4>6, <4>7
    <3>7. WindowSelectsInTable
      BY <3>6 DEF WindowSelectsInTable
    <3>8. QED BY <1>3, <3>5, <3>7 DEF SelectsInTable
  <2>5. QED BY <2>1, <2>3, <2>4 DEF WindowInv
<1>4. QED BY <1>2, <1>3

-----------------------------------------------------------------------------
(* The digits of a non-adjacent form from a place on sum to what was left  *)
(* of the scalar there.                                                    *)
LEMMA NafAboveIs ==
  ASSUME NEW k, NEW table, NEW K, NEW y, NEW P, TermFits(digits[k], table, K, y, P),
         NEW m \in 0 .. NafBits
  PROVE  NafAbove(k, m) = K[m]
<1> DEFINE f == [i \in Nat |-> IF i + m < NafBits THEN digits[k][i + m] * Pow2[i] ELSE 0]
           one == 1
<1>1. /\ K \in [Nat -> Int] /\ m \in Nat /\ NafBits \in Nat /\ one \in Nat
      /\ \A i \in Nat : i >= NafBits => K[i] = 0
      /\ \A i \in 0 .. NafBits - 1 :
           digits[k][i] \in Int /\ digits[k][i] = K[i] - 2 * K[i + 1]
  <2>1. /\ K \in [Nat -> Int]
        /\ \A i \in Nat : i >= NafBits => K[i] = 0
        /\ \A i \in 0 .. NafBits - 1 :
             digits[k][i] \in Int /\ digits[k][i] = K[i] - 2 * K[i + 1]
    BY Zenon DEF TermFits
  <2>2. m \in Nat /\ NafBits \in Nat /\ one \in Nat
    BY NafConstants
  <2>3. QED BY <2>1, <2>2
<1>2. Pow2[one] = 2 /\ \A i \in Nat : one * i = i
  BY SmallPowers
<1>3. ASSUME NEW i \in Nat
      PROVE  /\ f[i] \in Int
             /\ f[i] = (K[i + m] - Pow2[one] * K[i + m + 1]) * Pow2[one * i]
  <2> DEFINE p == Pow2[i]
  <2>1. /\ p \in Nat /\ Pow2[one * i] = p /\ i + m \in Nat
        /\ f[i] = IF i + m < NafBits THEN digits[k][i + m] * p ELSE 0
    BY <1>1, <1>2, Pow2Positive
  <2>2. CASE i + m < NafBits
    <3> DEFINE e == digits[k][i + m]
               g == K[i + m] - 2 * K[i + m + 1]
    <3>1. e \in Int /\ e = g
      BY <1>1, <2>1, <2>2
    <3>2. f[i] = e * p /\ (K[i + m] - Pow2[one] * K[i + m + 1]) * Pow2[one * i] = g * p
      BY <1>2, <2>1, <2>2
    <3>3. e * p \in Int /\ e * p = g * p
      <4> HIDE DEF e, p, g
      <4>1. QED BY <2>1, <3>1
    <3>4. QED BY <3>2, <3>3
  <2>3. CASE ~ (i + m < NafBits)
    <3>1. K[i + m] = 0 /\ K[i + m + 1] = 0
      BY <1>1, <2>1, <2>3
    <3>2. (K[i + m] - Pow2[one] * K[i + m + 1]) * Pow2[one * i] = (0 - 2 * 0) * p
      BY <1>2, <2>1, <3>1
    <3>3. (0 - 2 * 0) * p = 0
      <4> HIDE DEF p
      <4>1. QED BY <2>1
    <3>4. QED BY <2>1, <2>3, <3>2, <3>3
  <2>4. QED BY <2>2, <2>3
<1>4. f \in [Nat -> Int] /\ Differences(f, K, one, m, NafBits)
  <2>1. f \in [Nat -> Int]
    BY <1>3
  <2>2. Differences(f, K, one, m, NafBits)
    <3> HIDE DEF f, one
    <3>1. QED BY <1>3 DEF Differences
  <2>3. QED BY <2>1, <2>2
<1>5. Sum(f)[NafBits] = K[m] - Pow2[one * NafBits] * K[NafBits + m]
  <2> HIDE DEF f, one
  <2>1. one \in Nat /\ K \in [Nat -> Int] /\ m \in Nat /\ NafBits \in Nat
    BY <1>1
  <2>2. f \in [Nat -> Int]
    BY <1>4
  <2>3. Differences(f, K, one, m, NafBits)
    BY <1>4
  <2>4. QED BY <2>1, <2>2, <2>3, Telescopes
<1>6. K[NafBits + m] = 0 /\ K[m] \in Int /\ Pow2[one * NafBits] \in Nat
  BY <1>1, <1>2, Pow2Positive
<1>7. Sum(f)[NafBits] = K[m]
  <2> HIDE DEF f, one
  <2>1. QED BY <1>5, <1>6
<1>8. QED BY <1>7 DEF NafAbove

(* Likewise for centered digits.                                           *)
LEMMA DigitsAboveIs ==
  ASSUME w \in 4 .. 8, NEW k, NEW A, NEW y, RowFits(digits[k], A, y, w),
         NEW m \in 0 .. SizeHint(w)
  PROVE  DigitsAbove(k, m) = A[m]
<1> DEFINE S == SizeHint(w)
           above == [i \in 0 .. S - 1 |-> IF i + m < S THEN digits[k][i + m] ELSE 0]
           f == Weighed(above, w, S)
<1>1. /\ A \in [Nat -> Int] /\ m \in Nat /\ m <= S /\ S \in Nat /\ w \in Nat
      /\ \A i \in Nat : i >= S => A[i] = 0
      /\ \A i \in 0 .. S - 1 :
           digits[k][i] \in Int /\ digits[k][i] = A[i] - Pow2[w] * A[i + 1]
  <2>1. S \in Nat /\ m \in Nat /\ m <= S /\ w \in Nat
    BY WindowConstants
  <2>2. RadixRow(digits[k], A, y, w, S)
    BY DEF RowFits
  <2>3. A \in [Nat -> Int] /\ \A i \in Nat : i >= S => A[i] = 0
    <3> HIDE DEF S
    <3>1. QED BY <2>2, Zenon DEF RadixRow
  <2>4. \A i \in 0 .. S - 1 :
          digits[k][i] \in Int /\ digits[k][i] = A[i] - Pow2[w] * A[i + 1]
    <3> HIDE DEF S
    <3>1. QED BY <2>2, Zenon DEF RadixRow
  <2>5. QED BY <2>1, <2>3, <2>4
<1>2. Pow2[w] \in Nat
  BY <1>1, Pow2Positive
<1>3. \A i \in 0 .. S - 1 : above[i] \in Int /\ above[i] = A[i + m] - Pow2[w] * A[i + m + 1]
  <2>1. ASSUME NEW i \in 0 .. S - 1
        PROVE  above[i] \in Int /\ above[i] = A[i + m] - Pow2[w] * A[i + m + 1]
    <3>1. CASE i + m < S
      BY <1>1, <3>1
    <3>2. CASE ~ (i + m < S)
      <4>1. A[i + m] = 0 /\ A[i + m + 1] = 0 /\ above[i] = 0
        BY <1>1, <3>2
      <4>2. QED BY <1>2, <4>1
    <3>3. QED BY <3>1, <3>2
  <2>2. QED BY <2>1
<1>4. /\ DigitSum(above, w, S) = Sum(f)[S] /\ f \in [Nat -> Int]
      /\ \A i \in Nat : f[i] = IF i < S THEN above[i] * Pow2[w * i] ELSE 0
  <2> HIDE DEF above, S
  <2>1. \A i \in 0 .. S - 1 : above[i] \in Int
    BY <1>3
  <2>2. QED BY <1>1, <2>1, DigitSumType, WeighedType
<1>5. Differences(f, A, w, m, S)
  <2> HIDE DEF above, f, S
  <2>1. ASSUME NEW i \in Nat, i < S
        PROVE  f[i] = (A[i + m] - Pow2[w] * A[i + m + 1]) * Pow2[w * i]
    <3>1. i \in 0 .. S - 1
      BY <1>1, <2>1
    <3>2. f[i] = above[i] * Pow2[w * i]
      BY <1>4, <2>1
    <3>3. above[i] = A[i + m] - Pow2[w] * A[i + m + 1]
      BY <1>3, <3>1
    <3>4. QED BY <3>2, <3>3, Zenon
  <2>2. QED BY <2>1, Zenon DEF Differences
<1>6. Sum(f)[S] = A[m] - Pow2[w * S] * A[S + m]
  <2> HIDE DEF f, S
  <2>1. w \in Nat /\ A \in [Nat -> Int] /\ m \in Nat /\ S \in Nat
    BY <1>1
  <2>2. f \in [Nat -> Int]
    BY <1>4
  <2>3. QED BY <2>1, <2>2, <1>5, Telescopes
<1>7. A[S + m] = 0 /\ A[m] \in Int /\ Pow2[w * S] \in Nat
  <2>1. w * S \in Nat
    BY <1>1
  <2>2. QED BY <1>1, <2>1, Pow2Positive
<1>8. Sum(f)[S] = A[m]
  <2> HIDE DEF f, S
  <2>1. QED BY <1>6, <1>7
<1>9. DigitsAbove(k, m) = DigitSum(above, w, S)
  BY DEF DigitsAbove
<1>10. QED BY <1>4, <1>8, <1>9

(* The invariant says what the accumulator of either loop is.              *)
LEMMA InvHorner == ScalarMulInv => HornerInv
<1> SUFFICES ASSUME ScalarMulInv PROVE HornerInv
  OBVIOUS
<1>1. ASSUME pc = "Loop", ~ HasLong(call)
      PROVE  Q = FoldLeft(Add, 0, [k \in DOMAIN digits |-> Mul(NafAbove(k, j + 1), tables[k][0])])
  <2>1. NafInv
    BY <1>1 DEF ScalarMulInv, WindowInv
  <2>2. PICK x, v, t, P : NafArrays(x, v, t, P) /\ NafLoop(x, v, P)
    BY <1>1, <2>1 DEF NafInv
  <2>3. /\ P \in Seq(Points) /\ DOMAIN P = 1 .. Len(P) /\ DOMAIN digits = 1 .. Len(P)
        /\ \A k \in 1 .. Len(P) :
             TermFits(digits[k], tables[k], NafK(x[k], v[k]), x[k], P[k])
    BY <2>2, NafArrayFacts
  <2>4. j + 1 \in 0 .. NafBits
    BY <2>1, NafConstants DEF NafInv
  <2>5. ASSUME NEW k \in 1 .. Len(P)
        PROVE  /\ NafAbove(k, j + 1) = Left(x, v, P, j + 1)[k]
               /\ tables[k][0] = P[k]
    <3>1. NafAbove(k, j + 1) = NafK(x[k], v[k])[j + 1]
      <4>1. TermFits(digits[k], tables[k], NafK(x[k], v[k]), x[k], P[k])
        BY <2>3
      <4> DEFINE m == j + 1
      <4>2. m \in 0 .. NafBits
        BY <2>4
      <4> HIDE DEF m
      <4>3. NafAbove(k, m) = NafK(x[k], v[k])[m]
        BY <4>1, <4>2, NafAboveIs, Zenon
      <4>4. QED BY <4>3 DEF m
    <3>2. tables[k] = OddMultiples(P[k], t[k]) /\ t[k] \in Nat /\ t[k] >= 2 /\ P[k] \in Points
      <4>1. NafsAre(digits, tables, x, v, t, P)
        BY <2>2 DEF NafArrays
      <4>2. P[k] \in Points
        BY <2>3, ElementOfSeq
      <4>3. QED BY <4>1, <4>2 DEF NafsAre, FitsNafs
    <3>3. t[k] - 2 \in Nat /\ Pow2[t[k] - 2] \in Nat /\ Pow2[t[k] - 2] >= 1
      <4>1. t[k] - 2 \in Nat
        BY <3>2
      <4>2. QED BY <4>1, Pow2Positive
    <3>4. tables[k] = [i \in 0 .. Pow2[t[k] - 2] - 1 |-> Mul(2 * i + 1, P[k])]
      BY <3>2, OddMultiplesAre
    <3>5. tables[k][0] = Mul(2 * 0 + 1, P[k])
      BY <3>3, <3>4
    <3>6. 2 * 0 + 1 = 1 /\ Mul(1, P[k]) = P[k]
      BY <3>2, MulOne
    <3>7. QED BY <3>1, <3>5, <3>6 DEF Left
  <2>6. [k \in DOMAIN digits |-> Mul(NafAbove(k, j + 1), tables[k][0])]
          = [k \in DOMAIN P |-> Mul(Left(x, v, P, j + 1)[k], P[k])]
    BY <2>3, <2>5
  <2>7. Q = Weigh(Left(x, v, P, j + 1), P)
    BY <1>1, <2>2 DEF NafLoop
  <2>8. QED BY <2>6, <2>7 DEF Weigh, PointSum
<1>2. ASSUME pc = "Columns"
      PROVE  Q = Combine([k \in DOMAIN digits |-> DigitsAbove(k, j + 1)], call.points)
  <2> DEFINE n == Len(call.points)
             s == [k \in DOMAIN digits |-> DigitsAbove(k, j + 1)]
  <2>1. WindowInv
    BY <1>2 DEF ScalarMulInv, NafInv
  <2>2. WindowReady /\ ColumnsInv /\ w \in 4 .. 8
    BY <1>2, <2>1 DEF WindowInv
  <2>3. WindowCall(call) /\ digits = DigitsOf(call.scalars, w)
    BY <2>2 DEF WindowReady, Ready
  <2>4. /\ n \in Nat /\ DOMAIN digits = 1 .. n /\ call.points \in Seq(Points)
        /\ \A k \in 1 .. n :
             RowFits(digits[k], RadixAbove(call.scalars[k], w, SizeHint(w)), call.scalars[k], w)
    BY <2>2, <2>3, WindowCallFacts, RowsFit
  <2>5. j + 1 \in 0 .. SizeHint(w)
    BY <2>2, WindowConstants DEF ColumnsInv
  <2>6. \A k \in 1 .. n : s[k] = Above(call, w, j + 1)[k]
    <3>1. ASSUME NEW k \in 1 .. n
          PROVE  s[k] = Above(call, w, j + 1)[k]
      <4>1. DigitsAbove(k, j + 1) = RadixAbove(call.scalars[k], w, SizeHint(w))[j + 1]
        BY <2>2, <2>4, <2>5, DigitsAboveIs
      <4>2. QED BY <2>4, <4>1 DEF Above
    <3>2. QED BY <3>1
  <2>7. Len(s) = n
    <3>1. s = [k \in 1 .. n |-> DigitsAbove(k, j + 1)]
      BY <2>4
    <3>2. QED BY <2>4, <3>1
  <2>8. Combine(s, call.points) = Weigh(s, call.points)
    <3> HIDE DEF s
    <3>1. QED BY <2>4, <2>7, CombineIs
  <2>9. Weigh(s, call.points) = Weigh(Above(call, w, j + 1), call.points)
    <3> HIDE DEF s
    <3>1. QED BY <2>4, <2>6, WeighSame
  <2>10. Q = Weigh(Above(call, w, j + 1), call.points)
    BY <2>2 DEF ColumnsInv
  <2>11. QED BY <2>8, <2>9, <2>10
<1>3. QED BY <1>1, <1>2 DEF HornerInv

-----------------------------------------------------------------------------
(* The two specifications allow the same answers.                          *)
LEMMA SameOutcomes ==
  ASSUME NEW c \in Calls
  PROVE  Combination!Outcomes(c) = Outcomes(c)
<1>1. \A s, P : Combination!Combine(s, P) = Combine(s, P)
  BY DEF Combination!Combine, Combine, Combination!FoldLeft, FoldLeft, Combination!Add, Add,
         Combination!Mul, Mul, Combination!MapThenFoldSet, MapThenFoldSet,
         Combination!Max, Max
<1>2. Combination!HasNone(c) <=> HasNone(c)
  BY DEF Combination!HasNone, HasNone, Combination!None, None
<1>3. Combination!AllPoints(c) = AllPoints(c)
  BY DEF Combination!AllPoints, AllPoints, Combination!Basepoint, Basepoint
<1>4. Combination!Mismatched(c) <=> Mismatched(c)
  BY <1>3 DEF Combination!Mismatched, Mismatched
<1>5. Combination!HasLong(c) <=> HasLong(c)
  BY DEF Combination!HasLong, HasLong, Combination!IsShort, IsShort
<1>6. /\ Combination!Points = Points /\ Combination!None = None /\ Combination!Panic = Panic
      /\ \A P, R : Combination!Add(P, R) = Add(P, R)
  BY DEF Combination!Points, Points, Combination!None, None, Combination!Panic, Panic,
         Combination!Add, Add
<1>7. Combination!Add(Combination!Combine(c.static_scalars, c.static),
                      Combination!Combine(c.scalars, Combination!AllPoints(c)))
        = Add(Combine(c.static_scalars, c.static), Combine(c.scalars, AllPoints(c)))
  BY <1>1, <1>3, <1>6, Zenon
<1>8. CASE HasLong(c)
  <2>1. ~ Mismatched(c) /\ ~ HasNone(c)
    BY <1>8, CallFacts DEF HasLong
  <2>2. QED BY <1>2, <1>4, <1>5, <1>6, <1>8, <2>1 DEF Combination!Outcomes, Outcomes
<1>9. CASE ~ HasLong(c) /\ Mismatched(c)
  BY <1>2, <1>4, <1>5, <1>6, <1>9 DEF Combination!Outcomes, Outcomes
<1>10. CASE ~ HasLong(c) /\ ~ Mismatched(c) /\ HasNone(c)
  BY <1>2, <1>4, <1>5, <1>6, <1>10 DEF Combination!Outcomes, Outcomes
<1>11. CASE ~ HasLong(c) /\ ~ Mismatched(c) /\ ~ HasNone(c)
  BY <1>2, <1>4, <1>5, <1>7, <1>11 DEF Combination!Outcomes, Outcomes
<1>12. QED BY <1>8, <1>9, <1>10, <1>11

(* The inductive invariant of a call.  While the loop of a method in non-  *)
(* adjacent form runs, there are scalars x, of widths v, and points P,     *)
(* whose expansions and tables the arrays hold, whose combination is the   *)
(* answer due, and the accumulator is what the digits above the place make *)
(* of them; for a method in centered digits they are the call's own. After *)
(* the loop the result is one the call allows.                             *)
THEOREM ScalarMulInvariant == Spec => []ScalarMulInv
BY InitInv, NextInv, PTL DEF Spec

(* Whatever the method and the build, every digit the loops meet has an    *)
(* entry in the table or a bucket of the size its code gave it: select's   *)
(* debug assertions hold and no access is out of bounds.                   *)
THEOREM DigitsSelect == Spec => []SelectsInTable
BY ScalarMulInvariant, InvSelects, PTL

(* Horner's rule: the accumulator of a loop is the sum of the digits above *)
(* the place it is at, none of them skipped by where the loop starts.      *)
THEOREM Horner == Spec => []HornerInv
BY ScalarMulInvariant, InvHorner, PTL

(* All eight methods, in every build, answer in one step of the abstract   *)
(* specification: with the combination of the points, or with the refusal  *)
(* its call allows, and only once.                                         *)
THEOREM MulsAreCombinations == Spec => ImplementsCombination
<1>1. Init => Combination!Init
  <2> SUFFICES ASSUME Init PROVE Combination!Init
    OBVIOUS
  <2>1. Combination!Pending = Pending
    BY DEF Combination!Pending, Pending
  <2>2. QED BY <2>1 DEF Init, Combination!Init
<1>2. ScalarMulInv /\ ScalarMulInv' /\ [Next]_vars => [Combination!Compute]_<<call, result>>
  <2>1. ASSUME ScalarMulInv, ScalarMulInv', Next
        PROVE  [Combination!Compute]_<<call, result>>
    <3>1. pc # "Done" /\ call' = call
      BY <2>1, StepInv
    <3>2. result = Pending
      BY <2>1, <3>1 DEF ScalarMulInv, CallInv
    <3>3. result' = Pending \/ result' \in Outcomes(call)
      BY <2>1, <3>1 DEF ScalarMulInv, CallInv
    <3>4. CASE result' = Pending
      BY <3>1, <3>2, <3>4
    <3>5. CASE result' \in Outcomes(call)
      <4>1. result' \in Combination!Outcomes(call)
        BY <2>1, <3>5, SameOutcomes DEF ScalarMulInv, CallInv
      <4>2. Combination!Pending = Pending
        BY DEF Combination!Pending, Pending
      <4>3. Combination!Compute
        BY <3>1, <3>2, <4>1, <4>2 DEF Combination!Compute
      <4>4. QED BY <4>3
    <3>6. QED BY <3>3, <3>4, <3>5
  <2>2. ASSUME UNCHANGED vars PROVE UNCHANGED <<call, result>>
    BY <2>2 DEF vars
  <2>3. QED BY <2>1, <2>2
<1>3. QED BY <1>1, <1>2, ScalarMulInvariant, PTL DEF Spec, ImplementsCombination, Combination!Spec
=============================================================================

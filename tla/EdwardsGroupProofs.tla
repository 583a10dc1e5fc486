------------------------ MODULE EdwardsGroupProofs -------------------------
(***************************************************************************)
(* The group's operators compute modulo 8 * L, so an expression built from *)
(* them is congruent to the integer expression of the same shape; a point  *)
(* is killed by the cofactor exactly when L divides it; and L, a prime,    *)
(* divides a product only if it divides a factor.                          *)
(***************************************************************************)
EXTENDS EdwardsGroup, PowersProofs, SequencesExt, FiniteSetsExt, SequenceTheorems

(* x and y are the same modulo m. *)
Cong(x, y, m) == \E k \in Int : x = y + k * m

LEMMA OrderPositive == L \in Nat /\ L > 2 /\ 8 * L \in Nat /\ 8 * L > 0
BY GroupAssumption

LEMMA ReduceCong ==
  ASSUME NEW x \in Int, NEW m \in Nat, m > 0
  PROVE  (x % m) \in 0 .. m - 1 /\ Cong(x % m, x, m)
<1>1. /\ x = (m * (x \div m)) + (x % m)
      /\ (x \div m) \in Int /\ (x % m) \in 0 .. m - 1
  OBVIOUS
<1> DEFINE k == -(x \div m)
<1>2. k \in Int /\ (x % m) = x + k * m
  BY <1>1
<1>3. QED BY <1>1, <1>2 DEF Cong

LEMMA CongTrans ==
  ASSUME NEW x \in Int, NEW y \in Int, NEW z \in Int, NEW m \in Int,
         Cong(x, y, m), Cong(y, z, m)
  PROVE  Cong(x, z, m)
<1>1. PICK j \in Int : x = y + j * m
  BY DEF Cong
<1>2. PICK k \in Int : y = z + k * m
  BY DEF Cong
<1>3. j + k \in Int /\ x = z + (j + k) * m
  BY <1>1, <1>2
<1>4. QED BY <1>3 DEF Cong

LEMMA CongSym ==
  ASSUME NEW x \in Int, NEW y \in Int, NEW m \in Int, Cong(x, y, m)
  PROVE  Cong(y, x, m)
<1>1. PICK j \in Int : x = y + j * m
  BY DEF Cong
<1>2. -j \in Int /\ y = x + (-j) * m
  BY <1>1
<1>3. QED BY <1>2 DEF Cong

LEMMA CongSum ==
  ASSUME NEW x \in Int, NEW y \in Int, NEW X \in Int, NEW Y \in Int, NEW m \in Int,
         Cong(x, X, m), Cong(y, Y, m)
  PROVE  Cong(x + y, X + Y, m)
<1>1. PICK j \in Int : x = X + j * m
  BY DEF Cong
<1>2. PICK k \in Int : y = Y + k * m
  BY DEF Cong
<1>3. j + k \in Int /\ x + y = (X + Y) + (j + k) * m
  BY <1>1, <1>2
<1>4. QED BY <1>3 DEF Cong

LEMMA CongScale ==
  ASSUME NEW n \in Int, NEW x \in Int, NEW X \in Int, NEW m \in Int, Cong(x, X, m)
  PROVE  Cong(n * x, n * X, m)
<1>1. PICK j \in Int : x = X + j * m
  BY DEF Cong
<1>2. n * j \in Int /\ n * x = n * X + (n * j) * m
  BY <1>1
<1>3. QED BY <1>2 DEF Cong

(* Congruent numbers in 0 .. m - 1 are equal. *)
LEMMA CongEqual ==
  ASSUME NEW m \in Nat, m > 0, NEW x \in 0 .. m - 1, NEW y \in 0 .. m - 1,
         Cong(x, y, m)
  PROVE  x = y
<1>1. PICK k \in Int : x = y + k * m
  BY DEF Cong
<1>2. -m < k * m /\ k * m < m
  BY <1>1
<1>3. k = 0
  BY <1>2, SmallMultiple
<1>4. QED BY <1>1, <1>3

LEMMA AddCong ==
  ASSUME NEW x \in Int, NEW y \in Int, NEW X \in Int, NEW Y \in Int,
         Cong(x, X, 8 * L), Cong(y, Y, 8 * L)
  PROVE  Add(x, y) \in Points /\ Cong(Add(x, y), X + Y, 8 * L)
<1> DEFINE M == 8 * L
<1>1. M \in Nat /\ M > 0
  BY OrderPositive
<1>2. Cong(x + y, X + Y, M)
  BY <1>1, CongSum
<1>3. ((x + y) % M) \in 0 .. M - 1 /\ Cong((x + y) % M, x + y, M)
  <2> HIDE DEF M
  <2>1. QED BY <1>1, ReduceCong
<1>4. Cong((x + y) % M, X + Y, M)
  <2> HIDE DEF M
  <2>1. QED BY <1>1, <1>2, <1>3, CongTrans
<1>5. QED BY <1>3, <1>4 DEF Add, Points

LEMMA MulCong ==
  ASSUME NEW n \in Int, NEW x \in Int, NEW X \in Int, Cong(x, X, 8 * L)
  PROVE  Mul(n, x) \in Points /\ Cong(Mul(n, x), n * X, 8 * L)
<1> DEFINE M == 8 * L
<1>1. M \in Nat /\ M > 0 /\ n * x \in Int /\ n * X \in Int
  BY OrderPositive
<1>2. Cong(n * x, n * X, M)
  <2>1. M \in Int /\ Cong(x, X, M)
    BY <1>1
  <2> HIDE DEF M
  <2>2. QED BY <2>1, CongScale
<1>3. ((n * x) % M) \in 0 .. M - 1 /\ Cong((n * x) % M, n * x, M)
  <2> HIDE DEF M
  <2>1. QED BY <1>1, ReduceCong
<1>4. Cong((n * x) % M, n * X, M)
  <2> HIDE DEF M
  <2>1. QED BY <1>1, <1>2, <1>3, CongTrans
<1>5. QED BY <1>3, <1>4 DEF Mul, Points

LEMMA NegCong ==
  ASSUME NEW x \in Int, NEW X \in Int, Cong(x, X, 8 * L)
  PROVE  Neg(x) \in Points /\ Cong(Neg(x), -X, 8 * L)
<1>1. Mul(-1, x) \in Points /\ Cong(Mul(-1, x), (-1) * X, 8 * L)
  BY MulCong
<1>2. (-1) * x = -x /\ (-1) * X = -X
  OBVIOUS
<1>3. QED BY <1>1, <1>2 DEF Mul, Neg

LEMMA CongRefl ==
  ASSUME NEW x \in Int, NEW m \in Int
  PROVE  Cong(x, x, m)
<1>1. x = x + 0 * m
  OBVIOUS
<1>2. QED BY <1>1 DEF Cong

(* mul_by_cofactor kills exactly the multiples of L. *)
LEMMA CofactorKills ==
  ASSUME NEW P \in Int, NEW X \in Int, Cong(P, X, 8 * L)
  PROVE  IsIdentity(MulByCofactor(P)) <=> (X % L) = 0
<1>1. L \in Nat /\ L > 0 /\ 8 * L \in Nat /\ 8 * L > 0
  BY OrderPositive
<1>2. PICK k \in Int : P = X + k * (8 * L)
  BY DEF Cong
<1>3. IsIdentity(MulByCofactor(P)) <=> ((8 * P) % (8 * L)) = 0
  BY DEF IsIdentity, MulByCofactor, Mul
<1>4. ((8 * P) % (8 * L)) = 0 <=> \E q \in Int : 8 * P = q * (8 * L)
  <2>1. 8 * P \in Int
    OBVIOUS
  <2> DEFINE Y == 8 * P
             M == 8 * L
  <2>2. Y \in Int /\ M \in Nat /\ M > 0
    BY <1>1
  <2>3. (Y % M) = 0 <=> \E q \in Int : Y = q * M
    <3> HIDE DEF Y, M
    <3>1. QED BY <2>2, Divisible
  <2>4. QED BY <2>3
<1>5. (X % L) = 0 <=> \E q \in Int : X = q * L
  BY <1>1, Divisible
<1>6. ASSUME NEW q \in Int, 8 * P = q * (8 * L)
      PROVE  \E r \in Int : X = r * L
  <2>1. 8 * P = 8 * (q * L)
    BY <1>1, <1>6
  <2>2. P = q * L
    BY <1>1, <2>1
  <2>3. X = (q - 8 * k) * L /\ q - 8 * k \in Int
    BY <1>1, <1>2, <2>2
  <2>4. QED BY <2>3
<1>7. ASSUME NEW q \in Int, X = q * L
      PROVE  \E r \in Int : 8 * P = r * (8 * L)
  <2>1. 8 * P = (q + 8 * k) * (8 * L) /\ q + 8 * k \in Int
    BY <1>1, <1>2, <1>7
  <2>2. QED BY <2>1
<1>8. QED BY <1>3, <1>4, <1>5, <1>6, <1>7

(* Euclid's lemma, from the assumption about the residues. *)
LEMMA PrimeOrder ==
  ASSUME NEW a \in Int, NEW b \in Int, ((a * b) % L) = 0
  PROVE  (a % L) = 0 \/ (b % L) = 0
<1> DEFINE u == a % L
           w == b % L
<1>1. L \in Nat /\ L > 0
  BY OrderPositive
<1>2. /\ u \in 0 .. L - 1 /\ Cong(u, a, L)
      /\ w \in 0 .. L - 1 /\ Cong(w, b, L)
  BY <1>1, ReduceCong
<1>3. PICK j \in Int : u = a + j * L
  BY <1>2 DEF Cong
<1>4. PICK k \in Int : w = b + k * L
  BY <1>2 DEF Cong
<1>5. PICK q \in Int : a * b = q * L
  <2>1. a * b \in Int
    OBVIOUS
  <2>2. QED BY <1>1, <2>1, Divisible
<1> HIDE DEF u, w
<1>6. u * w = (q + (a * k) + (j * b) + ((j * k) * L)) * L
  <2>1. u * w = (a + j * L) * (b + k * L)
    BY <1>3, <1>4
  <2>2. (a + j * L) * (b + k * L)
          = a * b + (a * k) * L + (j * b) * L + ((j * k) * L) * L
    BY <1>1
  <2>3. (q + (a * k) + (j * b) + ((j * k) * L)) * L
          = q * L + (a * k) * L + (j * b) * L + ((j * k) * L) * L
    BY <1>1
  <2>4. QED BY <1>5, <2>1, <2>2, <2>3
<1>7. ((u * w) % L) = 0
  <2>1. /\ u * w \in Int
        /\ q + (a * k) + (j * b) + ((j * k) * L) \in Int
    BY <1>1, <1>2
  <2>2. QED BY <1>1, <1>6, <2>1, Divisible
<1>8. ~ (u \in 1 .. L - 1 /\ w \in 1 .. L - 1)
  BY <1>7, GroupAssumption
<1>9. u = 0 \/ w = 0
  BY <1>1, <1>2, <1>8
<1>10. QED BY <1>9 DEF u, w
-----------------------------------------------------------------------------
Defect(n, R, h, A) == 8 * n - R - h * A

(* [8][s]B = [8]R + [8][h]A exactly when L divides the defect. *)
LEMMA EquationIsDefect ==
  ASSUME NEW q, q.s \in Int, q.h \in Int,
         q.A.point \in Points, q.R.point \in Points
  PROVE  Equation(q) <=> (Defect(q.s, q.R.point, q.h, q.A.point) % L) = 0
<1> DEFINE n == q.s
           R == q.R.point
           h == q.h
           A == q.A.point
           lhs == MulByCofactor(Mul(n, Basepoint))
           rhs == Add(MulByCofactor(R), MulByCofactor(Mul(h, A)))
           E == Defect(n, R, h, A)
<1>1. /\ L \in Nat /\ L > 0 /\ 8 * L \in Nat /\ 8 * L > 0
      /\ n \in Int /\ h \in Int /\ R \in Int /\ A \in Int /\ E \in Int
  BY OrderPositive DEF Points, Defect
<1>2. lhs \in Points /\ Cong(lhs, 8 * (n * 8), 8 * L)
  <2>1. Mul(n, 8) \in Points /\ Cong(Mul(n, 8), n * 8, 8 * L)
    BY <1>1, CongRefl, MulCong
  <2>2. Mul(n, 8) \in Int /\ n * 8 \in Int
    BY <1>1, <2>1 DEF Points
  <2>3. Mul(8, Mul(n, 8)) \in Points /\ Cong(Mul(8, Mul(n, 8)), 8 * (n * 8), 8 * L)
    <3> DEFINE P == Mul(n, 8)
               X == n * 8
    <3>1. P \in Int /\ X \in Int /\ Cong(P, X, 8 * L)
      BY <2>1, <2>2
    <3>2. Mul(8, P) \in Points /\ Cong(Mul(8, P), 8 * X, 8 * L)
      <4> HIDE DEF P, X
      <4>1. QED BY <3>1, MulCong
    <3>3. QED BY <3>2
  <2>4. QED BY <2>3 DEF MulByCofactor, Basepoint
<1>3. rhs \in Points /\ Cong(rhs, 8 * R + 8 * (h * A), 8 * L)
  <2>1. Mul(h, A) \in Points /\ Cong(Mul(h, A), h * A, 8 * L)
    BY <1>1, CongRefl, MulCong
  <2>2. Mul(h, A) \in Int /\ h * A \in Int
    BY <1>1, <2>1 DEF Points
  <2>3. Mul(8, Mul(h, A)) \in Points /\ Cong(Mul(8, Mul(h, A)), 8 * (h * A), 8 * L)
    <3> DEFINE P == Mul(h, A)
               X == h * A
    <3>1. P \in Int /\ X \in Int /\ Cong(P, X, 8 * L)
      BY <2>1, <2>2
    <3>2. Mul(8, P) \in Points /\ Cong(Mul(8, P), 8 * X, 8 * L)
      <4> HIDE DEF P, X
      <4>1. QED BY <3>1, MulCong
    <3>3. QED BY <3>2
  <2>4. Mul(8, R) \in Points /\ Cong(Mul(8, R), 8 * R, 8 * L)
    BY <1>1, CongRefl, MulCong
  <2>5. /\ Mul(8, R) \in Int /\ Mul(8, Mul(h, A)) \in Int
        /\ 8 * R \in Int /\ 8 * (h * A) \in Int
    BY <1>1, <2>2, <2>3, <2>4 DEF Points
  <2>6. /\ Add(Mul(8, R), Mul(8, Mul(h, A))) \in Points
        /\ Cong(Add(Mul(8, R), Mul(8, Mul(h, A))), 8 * R + 8 * (h * A), 8 * L)
    BY <2>3, <2>4, <2>5, AddCong
  <2>7. QED BY <2>6 DEF MulByCofactor
<1>4. lhs \in Int /\ rhs \in Int /\ lhs \in 0 .. 8 * L - 1 /\ rhs \in 0 .. 8 * L - 1
  BY <1>1, <1>2, <1>3 DEF Points
<1>5. Equation(q) <=> lhs = rhs
  BY DEF Equation
<1>6. 8 * (n * 8) - (8 * R + 8 * (h * A)) = 8 * E
  BY <1>1 DEF Defect
<1>7. 8 * (n * 8) \in Int /\ 8 * R + 8 * (h * A) \in Int
  BY <1>1
<1> HIDE DEF lhs, rhs, E, n, R, h, A
<1>8. ASSUME lhs = rhs PROVE (E % L) = 0
  <2>1. PICK j \in Int : lhs = 8 * (n * 8) + j * (8 * L)
    BY <1>2 DEF Cong
  <2>2. PICK k \in Int : rhs = (8 * R + 8 * (h * A)) + k * (8 * L)
    BY <1>3 DEF Cong
  <2>3. 8 * E = (k - j) * (8 * L)
    <3>1. (k - j) * (8 * L) = k * (8 * L) - j * (8 * L)
          /\ k * (8 * L) \in Int /\ j * (8 * L) \in Int
      BY <1>1
    <3>2. 8 * (n * 8) - (8 * R + 8 * (h * A)) = k * (8 * L) - j * (8 * L)
      <4> DEFINE X == 8 * (n * 8)
                 Y == 8 * R + 8 * (h * A)
                 J == j * (8 * L)
                 K == k * (8 * L)
      <4>1. /\ X \in Int /\ Y \in Int /\ J \in Int /\ K \in Int
            /\ X + J = Y + K
        BY <1>7, <1>8, <2>1, <2>2, <3>1
      <4>2. X - Y = K - J
        <5> HIDE DEF X, Y, J, K
        <5>1. QED BY <4>1
      <4>3. QED BY <4>2
    <3>3. QED BY <1>6, <3>1, <3>2
  <2>4. E = (k - j) * L /\ k - j \in Int
    <3>1. (k - j) * (8 * L) = 8 * ((k - j) * L) /\ (k - j) * L \in Int
      BY <1>1
    <3>2. QED BY <1>1, <2>3, <3>1
  <2>5. QED BY <1>1, <2>4, Divisible
<1>9. ASSUME (E % L) = 0 PROVE lhs = rhs
  <2>1. PICK e \in Int : E = e * L
    BY <1>1, <1>9, Divisible
  <2>2. 8 * (n * 8) = (8 * R + 8 * (h * A)) + e * (8 * L)
    <3>1. 8 * (e * L) = e * (8 * L)
      BY <1>1
    <3>2. QED BY <1>1, <1>6, <1>7, <2>1, <3>1
  <2>3. Cong(8 * (n * 8), 8 * R + 8 * (h * A), 8 * L)
    BY <2>2 DEF Cong
  <2>4. Cong(8 * R + 8 * (h * A), rhs, 8 * L)
    BY <1>1, <1>3, <1>4, <1>7, CongSym
  <2>5. Cong(lhs, rhs, 8 * L)
    <3> DEFINE M == 8 * L
               X == 8 * (n * 8)
               Y == 8 * R + 8 * (h * A)
    <3>1. /\ M \in Int /\ X \in Int /\ Y \in Int
          /\ Cong(lhs, X, M) /\ Cong(X, Y, M) /\ Cong(Y, rhs, M)
      BY <1>1, <1>2, <1>7, <2>3, <2>4
    <3> HIDE DEF M, X, Y
    <3>2. Cong(lhs, Y, M)
      BY <1>4, <3>1, CongTrans
    <3>3. Cong(lhs, rhs, M)
      BY <1>4, <3>1, <3>2, CongTrans
    <3>4. QED BY <3>3 DEF M
  <2>6. QED
    <3> DEFINE M == 8 * L
    <3>1. M \in Nat /\ M > 0 /\ lhs \in 0 .. M - 1 /\ rhs \in 0 .. M - 1
          /\ Cong(lhs, rhs, M)
      BY <1>1, <1>4, <2>5
    <3> HIDE DEF M
    <3>2. QED BY <3>1, CongEqual
<1>10. QED BY <1>5, <1>8, <1>9 DEF E, n, R, h, A
-----------------------------------------------------------------------------
(* The sum of a sequence of points is a fold over the set of its indices,  *)
(* from the largest down.                                                  *)
PointSum(s) == FoldLeft(Add, 0, s)

FoldStep(s, f, t) ==
  IF t = {} THEN 0 ELSE Add(f[t \ {Max(t)}], s[Max(t)])

LEMMA PointSumIsFold ==
  ASSUME NEW s
  PROVE  PointSum(s) =
           (CHOOSE f : f = [t \in SUBSET DOMAIN s |-> FoldStep(s, f, t)])[DOMAIN s]
BY DEF PointSum, FoldLeft, MapThenFoldSet, FoldStep

LEMMA MaxOfTop ==
  ASSUME NEW n \in Nat, NEW t \in SUBSET (1 .. n), n \in t
  PROVE  Max(t) = n
<1>1. n \in t /\ \A y \in t : n >= y
  OBVIOUS
<1>2. \A z \in t : (\A y \in t : z >= y) => z = n
  BY <1>1
<1>3. QED BY <1>1, <1>2 DEF Max

LEMMA MaxInSet ==
  ASSUME NEW n \in Nat, NEW t \in SUBSET (1 .. n), t # {}
  PROVE  Max(t) \in t
<1> DEFINE D == {n - z : z \in t}
<1>1. D \subseteq Nat /\ D # {}
  <2>1. \A z \in t : n - z \in Nat
    OBVIOUS
  <2>2. QED BY <2>1
<1>2. PICK d \in D : \A e \in D : d <= e
  <2> HIDE DEF D
  <2>1. QED BY <1>1, LeastElement
<1>3. PICK z \in t : d = n - z
  BY <1>2
<1>4. \A y \in t : z >= y
  <2>1. \A y \in t : n - y \in D /\ y \in Int /\ z \in Int
    OBVIOUS
  <2> HIDE DEF D
  <2>2. QED BY <1>2, <1>3, <2>1
<1>5. QED BY <1>4 DEF Max

(* The fold's recursion has a solution, whatever the sequence.             *)
LEMMA FoldExists ==
  ASSUME NEW s
  PROVE  \A n \in Nat :
           \E f : f = [t \in SUBSET (1 .. n) |-> FoldStep(s, f, t)]
<1> DEFINE FoldSolves(f, n) == f = [t \in SUBSET (1 .. n) |-> FoldStep(s, f, t)]
           T == {n \in Nat : \E f : FoldSolves(f, n)}
<1>1. 0 \in T
  <2>1. SUBSET (1 .. 0) = {{}}
    OBVIOUS
  <2>2. FoldSolves([t \in SUBSET (1 .. 0) |-> 0], 0)
    BY <2>1 DEF FoldStep
  <2>3. QED BY <2>2
<1>2. ASSUME NEW n \in Nat, n \in T
      PROVE  n + 1 \in T
  <2>1. PICK f : FoldSolves(f, n)
    BY <1>2
  <2> DEFINE m == n + 1
             g == [t \in SUBSET (1 .. m) |->
                     IF m \in t THEN Add(f[t \ {m}], s[m]) ELSE f[t]]
  <2>2. ASSUME NEW t \in SUBSET (1 .. m)
        PROVE  g[t] = FoldStep(s, g, t)
    <3>1. CASE m \in t
      <4>1. Max(t) = m
        BY <3>1, MaxOfTop
      <4>2. t \ {m} \in SUBSET (1 .. m) /\ m \notin t \ {m} /\ t # {}
        BY <3>1
      <4>3. g[t \ {m}] = f[t \ {m}]
        BY <4>2
      <4>4. g[t] = Add(f[t \ {m}], s[m])
        BY <3>1
      <4>5. FoldStep(s, g, t) = Add(g[t \ {m}], s[m])
        <5> HIDE DEF g
        <5>1. QED BY <4>1, <4>2 DEF FoldStep
      <4>6. QED BY <4>3, <4>4, <4>5
    <3>2. CASE m \notin t
      <4>1. t \in SUBSET (1 .. n)
        BY <3>2
      <4>2. g[t] = f[t]
        BY <3>2
      <4>3. f[t] = FoldStep(s, f, t)
        BY <4>1, <2>1
      <4>4. t # {} => Max(t) \in t
        BY <4>1, MaxInSet
      <4>5. t # {} => g[t \ {Max(t)}] = f[t \ {Max(t)}]
        BY <3>2
      <4>6. QED
        <5> HIDE DEF g
        <5>1. QED BY <4>2, <4>3, <4>5 DEF FoldStep
    <3>3. QED BY <3>1, <3>2
  <2>3. FoldSolves(g, m)
    <3>1. g = [t \in SUBSET (1 .. m) |-> g[t]]
      OBVIOUS
    <3> HIDE DEF g
    <3>2. [t \in SUBSET (1 .. m) |-> g[t]]
            = [t \in SUBSET (1 .. m) |-> FoldStep(s, g, t)]
      BY <2>2
    <3>3. QED BY <3>1, <3>2
  <2>4. \E h : FoldSolves(h, n + 1)
    <3> HIDE DEF FoldSolves, g
    <3>1. QED BY <2>3
  <2>5. QED
    <3> HIDE DEF FoldSolves
    <3>1. QED BY <2>4
<1>3. Nat \subseteq T
  <2> HIDE DEF T
  <2>1. QED BY <1>1, <1>2, SetInduction
<1>4. QED BY <1>3

(* The partial sums of s. *)
Partials(s, f) ==
  /\ f \in [0 .. Len(s) -> Points]
  /\ f[0] = 0
  /\ \A k \in 1 .. Len(s) : f[k] = Add(f[k - 1], s[k])

LEMMA AddPoint ==
  ASSUME NEW P \in Int, NEW Q \in Int
  PROVE  Add(P, Q) \in Points
<1>1. P + Q \in Int /\ 8 * L \in Nat /\ 8 * L > 0
  BY OrderPositive
<1> DEFINE m == 8 * L
           x == P + Q
<1>2. (x % m) \in 0 .. m - 1
  <2>1. x \in Int /\ m \in Nat /\ m > 0
    BY <1>1
  <2> HIDE DEF m, x
  <2>2. QED BY <2>1
<1>3. QED BY <1>2 DEF Add, Points

LEMMA PartialsExist ==
  ASSUME NEW s \in Seq(Points)
  PROVE  \E f : Partials(s, f) /\ PointSum(s) = f[Len(s)]
<1> DEFINE n == Len(s)
           F == CHOOSE f : f = [t \in SUBSET DOMAIN s |-> FoldStep(s, f, t)]
           f == [k \in 0 .. n |-> F[1 .. k]]
<1>1. n \in Nat /\ DOMAIN s = 1 .. n /\ \A k \in 1 .. n : s[k] \in Points
  BY LenProperties, ElementOfSeq
<1>2. F = [t \in SUBSET (1 .. n) |-> FoldStep(s, F, t)]
  <2>1. \E h : h = [t \in SUBSET (1 .. n) |-> FoldStep(s, h, t)]
    BY <1>1, FoldExists
  <2>2. QED BY <1>1, <2>1
<1>3. PointSum(s) = F[1 .. n]
  BY <1>1, PointSumIsFold
<1> HIDE DEF F
<1>4. f[0] = 0
  <2>1. 1 .. 0 = {} /\ {} \in SUBSET (1 .. n) /\ 0 \in 0 .. n
    BY <1>1
  <2>2. F[{}] = FoldStep(s, F, {})
    BY <1>2, <2>1
  <2>3. QED BY <2>1, <2>2 DEF FoldStep
<1>5. ASSUME NEW k \in 1 .. n
      PROVE  f[k] = Add(f[k - 1], s[k])
  <2>1. 1 .. k \in SUBSET (1 .. n) /\ k \in Nat /\ k \in 1 .. k
    BY <1>1
  <2>2. F[1 .. k] = FoldStep(s, F, 1 .. k)
    BY <1>2, <2>1
  <2>3. Max(1 .. k) = k
    BY <2>1, MaxOfTop
  <2>4. (1 .. k) \ {k} = 1 .. k - 1
    BY <2>1
  <2>5. F[1 .. k] = Add(F[1 .. k - 1], s[k])
    BY <2>1, <2>2, <2>3, <2>4 DEF FoldStep
  <2>6. k \in 0 .. n /\ k - 1 \in 0 .. n
    BY <1>1
  <2>7. QED BY <2>5, <2>6
<1>6. ASSUME NEW k \in 0 .. n
      PROVE  f[k] \in Points
  <2> HIDE DEF f
  <2> DEFINE T == {i \in Nat : i <= n => f[i] \in Points}
  <2>1. 0 \in T
    BY <1>4, OrderPositive DEF Points
  <2>2. ASSUME NEW i \in Nat, i \in T
        PROVE  i + 1 \in T
    <3>1. CASE i + 1 <= n
      <4>1. f[i] \in Points /\ i + 1 \in 1 .. n /\ (i + 1) - 1 = i
        BY <2>2, <3>1, <1>1
      <4>2. f[i + 1] = Add(f[i], s[i + 1])
        BY <4>1, <1>5
      <4>3. f[i] \in Int /\ s[i + 1] \in Int
        BY <4>1, <1>1 DEF Points
      <4>4. QED BY <4>2, <4>3, AddPoint
    <3>2. CASE ~ (i + 1 <= n)
      BY <3>2
    <3>3. QED BY <3>1, <3>2
  <2>3. Nat \subseteq T
    <3> HIDE DEF T
    <3>1. QED BY <2>1, <2>2, SetInduction
  <2>4. QED BY <2>3, <1>1
<1>7. Partials(s, f)
  BY <1>4, <1>5, <1>6 DEF Partials
<1>8. f[n] = F[1 .. n]
  BY <1>1
<1>9. QED BY <1>3, <1>7, <1>8

(* The partial sums depend on the summands only. *)
LEMMA PartialsAgree ==
  ASSUME NEW s \in Seq(Points), NEW f, Partials(s, f),
         NEW t \in Seq(Points), NEW g, Partials(t, g),
         Len(s) <= Len(t), \A k \in 1 .. Len(s) : s[k] = t[k]
  PROVE  \A k \in 0 .. Len(s) : f[k] = g[k]
<1> DEFINE T == {i \in Nat : i <= Len(s) => f[i] = g[i]}
<1>1. Len(s) \in Nat /\ Len(t) \in Nat
  BY LenProperties
<1>2. 0 \in T
  BY DEF Partials
<1>3. ASSUME NEW i \in Nat, i \in T
      PROVE  i + 1 \in T
  <2>1. CASE i + 1 <= Len(s)
    <3>1. /\ i + 1 \in 1 .. Len(s) /\ i + 1 \in 1 .. Len(t) /\ (i + 1) - 1 = i
          /\ f[i] = g[i]
      BY <1>1, <1>3, <2>1
    <3>2. f[i + 1] = Add(f[i], s[i + 1]) /\ g[i + 1] = Add(g[i], t[i + 1])
      BY <3>1 DEF Partials
    <3>3. QED BY <3>1, <3>2
  <2>2. CASE ~ (i + 1 <= Len(s))
    BY <2>2
  <2>3. QED BY <2>1, <2>2
<1>4. Nat \subseteq T
  <2> HIDE DEF T
  <2>1. QED BY <1>2, <1>3, SetInduction
<1>5. QED BY <1>1, <1>4

LEMMA PointSumType ==
  ASSUME NEW s \in Seq(Points)
  PROVE  PointSum(s) \in Points
BY PartialsExist, LenProperties DEF Partials

LEMMA PointSumEmpty == PointSum(<<>>) = 0
<1>1. <<>> \in Seq(Points) /\ Len(<<>>) = 0
  BY EmptySeq
<1>2. QED BY <1>1, PartialsExist DEF Partials

(* One more summand is added last. *)
LEMMA PointSumAppend ==
  ASSUME NEW s \in Seq(Points), NEW P \in Points
  PROVE  PointSum(Append(s, P)) = Add(PointSum(s), P)
<1> DEFINE t == Append(s, P)
           n == Len(s)
<1>1. /\ t \in Seq(Points) /\ n \in Nat /\ Len(t) = n + 1
      /\ t[n + 1] = P /\ \A k \in 1 .. n : t[k] = s[k]
  BY AppendProperties, LenProperties
<1>2. PICK f : Partials(s, f) /\ PointSum(s) = f[n]
  BY PartialsExist
<1>3. PICK g : Partials(t, g) /\ PointSum(t) = g[Len(t)]
  <2> HIDE DEF t
  <2>1. QED BY <1>1, PartialsExist
<1>4. g[n] = f[n]
  <2> HIDE DEF t
  <2>1. n <= Len(t) /\ n \in 0 .. n
    BY <1>1
  <2>2. QED BY <1>1, <1>2, <1>3, <2>1, PartialsAgree
<1>5. g[n + 1] = Add(g[n], P)
  <2> HIDE DEF t
  <2>1. n + 1 \in 1 .. Len(t) /\ (n + 1) - 1 = n
    BY <1>1
  <2>2. QED BY <1>1, <1>3, <2>1 DEF Partials
<1>6. QED BY <1>1, <1>2, <1>3, <1>4, <1>5

LEMMA CongWeaken ==
  ASSUME NEW X \in Int, NEW Y \in Int, Cong(X, Y, 8 * L)
  PROVE  Cong(X, Y, L)
<1>1. PICK k \in Int : X = Y + k * (8 * L)
  BY DEF Cong
<1>2. 8 * k \in Int /\ X = Y + (8 * k) * L
  BY <1>1, OrderPositive
<1>3. QED BY <1>2 DEF Cong

LEMMA AddIsSum ==
  ASSUME NEW P \in Int, NEW Q \in Int
  PROVE  Cong(Add(P, Q), P + Q, 8 * L)
<1>1. Cong(P, P, 8 * L) /\ Cong(Q, Q, 8 * L)
  BY OrderPositive, CongRefl
<1>2. QED BY <1>1, AddCong

(* The sum of two sequences in a row is the sum of their sums. *)
LEMMA PointSumConcat ==
  ASSUME NEW s \in Seq(Points), NEW t \in Seq(Points)
  PROVE  Cong(PointSum(s \o t), PointSum(s) + PointSum(t), 8 * L)
<1> DEFINE u == s \o t
           m == Len(s)
           n == Len(t)
<1>1. /\ u \in Seq(Points) /\ m \in Nat /\ n \in Nat /\ Len(u) = m + n
      /\ \A k \in 1 .. m : u[k] = s[k]
      /\ \A k \in 1 .. n : u[m + k] = t[k]
  <2>1. /\ u \in Seq(Points) /\ m \in Nat /\ n \in Nat /\ Len(u) = m + n
        /\ \A i \in 1 .. m + n : u[i] = IF i <= m THEN s[i] ELSE t[i - m]
    BY ConcatProperties, LenProperties
  <2> HIDE DEF u, m, n
  <2>2. ASSUME NEW k \in 1 .. n PROVE u[m + k] = t[k]
    <3>1. m + k \in 1 .. m + n /\ ~ (m + k <= m) /\ (m + k) - m = k
      BY <2>1
    <3>2. QED BY <2>1, <3>1
  <2>3. ASSUME NEW k \in 1 .. m PROVE u[k] = s[k]
    BY <2>1
  <2>4. QED BY <2>1, <2>2, <2>3
<1>2. PICK f : Partials(s, f) /\ PointSum(s) = f[m]
  BY PartialsExist
<1>3. PICK h : Partials(t, h) /\ PointSum(t) = h[n]
  BY PartialsExist
<1>4. PICK g : Partials(u, g) /\ PointSum(u) = g[Len(u)]
  <2> HIDE DEF u
  <2>1. QED BY <1>1, PartialsExist
<1>5. /\ \A k \in 0 .. m : f[k] \in Int
      /\ \A k \in 0 .. n : h[k] \in Int
      /\ \A k \in 0 .. m + n : g[k] \in Int
      /\ \A k \in 1 .. n : t[k] \in Int
  <2> HIDE DEF u
  <2>1. /\ f \in [0 .. m -> Points] /\ h \in [0 .. n -> Points]
        /\ g \in [0 .. m + n -> Points]
    BY <1>1, <1>2, <1>3, <1>4 DEF Partials
  <2>2. \A k \in 1 .. n : t[k] \in Points
    BY ElementOfSeq
  <2>3. \A P \in Points : P \in Int
    BY DEF Points
  <2>4. QED BY <2>1, <2>2, <2>3
<1>6. g[m] = f[m]
  <2> HIDE DEF u
  <2>1. /\ u \in Seq(Points) /\ Len(s) <= Len(u) /\ m \in 0 .. Len(s)
        /\ \A k \in 1 .. Len(s) : s[k] = u[k]
    BY <1>1
  <2>2. \A k \in 0 .. Len(s) : f[k] = g[k]
    BY <1>2, <1>4, <2>1, PartialsAgree
  <2>3. QED BY <2>1, <2>2
<1> DEFINE T == {k \in Nat : k <= n => Cong(g[m + k], f[m] + h[k], 8 * L)}
<1>7. 8 * L \in Int
  BY OrderPositive
<1>8. 0 \in T
  <2>1. h[0] = 0 /\ m + 0 = m /\ f[m] \in Int /\ f[m] + h[0] = f[m]
    BY <1>1, <1>3, <1>5 DEF Partials
  <2>2. Cong(f[m], f[m], 8 * L)
    BY <1>7, <2>1, CongRefl
  <2>3. QED BY <1>6, <2>1, <2>2
<1>9. ASSUME NEW k \in Nat, k \in T
      PROVE  k + 1 \in T
  <2>1. CASE k + 1 <= n
    <3>1. /\ Cong(g[m + k], f[m] + h[k], 8 * L)
          /\ k + 1 \in 1 .. n /\ (k + 1) - 1 = k /\ k \in 0 .. n
          /\ m + (k + 1) \in 1 .. m + n /\ (m + (k + 1)) - 1 = m + k
          /\ m + k \in 0 .. m + n /\ m \in 0 .. m
      BY <1>1, <1>9, <2>1
    <3>2. /\ g[m + (k + 1)] = Add(g[m + k], t[k + 1])
          /\ h[k + 1] = Add(h[k], t[k + 1])
      <4> HIDE DEF u
      <4>1. \A i \in 1 .. m + n : g[i] = Add(g[i - 1], u[i])
        BY <1>1, <1>4 DEF Partials
      <4>2. \A i \in 1 .. n : h[i] = Add(h[i - 1], t[i])
        BY <1>3 DEF Partials
      <4>3. u[m + (k + 1)] = t[k + 1]
        BY <1>1, <3>1
      <4>4. QED BY <3>1, <4>1, <4>2, <4>3
    <3> DEFINE G == g[m + k]
               F == f[m]
               H == h[k]
               e == t[k + 1]
    <3>3. G \in Int /\ F \in Int /\ H \in Int /\ e \in Int
      BY <1>5, <3>1
    <3>4. Cong(G, F + H, 8 * L)
      BY <3>1
    <3> HIDE DEF G, F, H, e
    <3>5. Cong(Add(G, e), (F + H) + e, 8 * L) /\ Add(G, e) \in Int
      <4>1. Cong(e, e, 8 * L) /\ F + H \in Int
        BY <3>3, <1>7, CongRefl
      <4>2. Add(G, e) \in Points /\ Cong(Add(G, e), (F + H) + e, 8 * L)
        BY <3>3, <3>4, <4>1, AddCong
      <4>3. QED BY <4>2 DEF Points
    <3>6. Cong(H + e, Add(H, e), 8 * L) /\ Add(H, e) \in Int
      <4>1. Add(H, e) \in Int
        BY <3>3, AddPoint DEF Points
      <4>2. Cong(Add(H, e), H + e, 8 * L) /\ H + e \in Int
        BY <3>3, AddIsSum
      <4>3. QED BY <1>7, <4>1, <4>2, CongSym
    <3>7. Cong(F + (H + e), F + Add(H, e), 8 * L)
      BY <3>3, <3>6, <1>7, CongRefl, CongSum
    <3>8. Cong(Add(G, e), F + Add(H, e), 8 * L)
      <4>1. (F + H) + e = F + (H + e) /\ F + (H + e) \in Int /\ F + Add(H, e) \in Int
        BY <3>3, <3>6
      <4>2. QED BY <1>7, <3>5, <3>7, <4>1, CongTrans
    <3>9. Cong(g[m + (k + 1)], f[m] + h[k + 1], 8 * L)
      BY <3>2, <3>8 DEF G, F, H, e
    <3>10. QED BY <3>9
  <2>2. CASE ~ (k + 1 <= n)
    BY <2>2
  <2>3. QED BY <2>1, <2>2
<1>10. Nat \subseteq T
  <2> HIDE DEF T
  <2>1. QED BY <1>8, <1>9, SetInduction
<1>11. Cong(g[m + n], f[m] + h[n], 8 * L)
  BY <1>1, <1>10
<1>12. QED BY <1>1, <1>2, <1>3, <1>4, <1>11

(* When L divides all summands but one, the sum is that one modulo L.      *)
LEMMA PointSumOfOne ==
  ASSUME NEW s \in Seq(Points), NEW j \in 1 .. Len(s),
         \A i \in 1 .. Len(s) : i # j => Cong(s[i], 0, L)
  PROVE  Cong(PointSum(s), s[j], L)
<1> DEFINE n == Len(s)
           part(k) == IF k < j THEN 0 ELSE s[j]
<1>1. n \in Nat /\ L \in Int /\ j \in Int /\ \A k \in 1 .. n : s[k] \in Int
  BY LenProperties, ElementOfSeq, OrderPositive DEF Points
<1>2. PICK f : Partials(s, f) /\ PointSum(s) = f[n]
  BY PartialsExist
<1>3. \A k \in 0 .. n : f[k] \in Int
  BY <1>2 DEF Partials, Points
<1> DEFINE T == {k \in Nat : k <= n => Cong(f[k], part(k), L)}
<1>4. 0 \in T
  BY <1>1, <1>2, CongRefl DEF Partials
<1>5. ASSUME NEW k \in Nat, k \in T
      PROVE  k + 1 \in T
  <2>1. CASE k + 1 <= n
    <3>1. /\ Cong(f[k], part(k), L) /\ k + 1 \in 1 .. n /\ (k + 1) - 1 = k
          /\ k \in 0 .. n /\ k + 1 \in 0 .. n
      BY <1>1, <1>5, <2>1
    <3>2. f[k + 1] = Add(f[k], s[k + 1])
      BY <1>2, <3>1 DEF Partials
    <3> DEFINE F == f[k]
               e == s[k + 1]
               X == part(k)
               Y == IF k + 1 = j THEN s[j] ELSE 0
    <3>3. F \in Int /\ e \in Int /\ X \in Int /\ Y \in Int
      BY <1>1, <1>3, <3>1
    <3>4. Cong(F, X, L) /\ Cong(e, Y, L)
      BY <1>1, <3>1, CongRefl
    <3>5. X + Y = part(k + 1)
      BY <1>1
    <3> HIDE DEF F, e, X, Y, part
    <3>6. Cong(F + e, X + Y, L)
      BY <1>1, <3>3, <3>4, CongSum
    <3>7. Cong(Add(F, e), F + e, L) /\ Add(F, e) \in Int
      <4>1. Add(F, e) \in Int
        BY <3>3, AddPoint DEF Points
      <4>2. Cong(Add(F, e), F + e, 8 * L) /\ F + e \in Int
        BY <3>3, AddIsSum
      <4>3. QED BY <4>1, <4>2, CongWeaken
    <3>8. Cong(Add(F, e), X + Y, L)
      <4>1. F + e \in Int /\ X + Y \in Int
        BY <3>3
      <4>2. QED BY <1>1, <3>6, <3>7, <4>1, CongTrans
    <3>9. Cong(f[k + 1], part(k + 1), L)
      BY <3>2, <3>5, <3>8 DEF F, e
    <3>10. QED BY <3>9
  <2>2. CASE ~ (k + 1 <= n)
    BY <2>2
  <2>3. QED BY <2>1, <2>2
<1>6. Nat \subseteq T
  <2> HIDE DEF T
  <2>1. QED BY <1>4, <1>5, SetInduction
<1>7. Cong(f[n], part(n), L) /\ part(n) = s[j]
  BY <1>1, <1>6
<1>8. QED BY <1>2, <1>7

LEMMA PointSumOfNone ==
  ASSUME NEW s \in Seq(Points), \A i \in 1 .. Len(s) : Cong(s[i], 0, L)
  PROVE  Cong(PointSum(s), 0, L)
<1>1. Len(s) \in Nat /\ L \in Int
  BY LenProperties, OrderPositive
<1>2. CASE Len(s) = 0
  <2>1. PointSum(s) = 0
    BY <1>2, PartialsExist DEF Partials
  <2>2. QED BY <1>1, <2>1, CongRefl
<1>3. CASE Len(s) # 0
  <2> DEFINE n == Len(s)
  <2>1. n \in 1 .. Len(s) /\ s[n] \in Int /\ PointSum(s) \in Int
    BY <1>1, <1>3, ElementOfSeq, PointSumType DEF Points
  <2>2. Cong(PointSum(s), s[n], L)
    BY <2>1, PointSumOfOne
  <2>3. QED BY <1>1, <2>1, <2>2, CongTrans
<1>4. QED BY <1>2, <1>3

-----------------------------------------------------------------------------
(* The operators as those of a module over the integers: equalities        *)
(* between points, which follow from the congruences above.                *)
LEMMA SamePoint ==
  ASSUME NEW P \in Points, NEW Q \in Points, NEW X \in Int,
         Cong(P, X, 8 * L), Cong(Q, X, 8 * L)
  PROVE  P = Q
<1> DEFINE M == 8 * L
<1>1. M \in Nat /\ M > 0 /\ P \in 0 .. M - 1 /\ Q \in 0 .. M - 1
      /\ P \in Int /\ Q \in Int
  BY OrderPositive DEF Points
<1> HIDE DEF M
<1>2. Cong(X, Q, M)
  BY <1>1, CongSym DEF M
<1>3. Cong(P, Q, M)
  BY <1>1, <1>2, CongTrans DEF M
<1>4. QED BY <1>1, <1>3, CongEqual

LEMMA PointIsInt ==
  ASSUME NEW P \in Points
  PROVE  P \in Int /\ Cong(P, P, 8 * L) /\ P < 8 * L /\ P >= 0
<1>1. 8 * L \in Int /\ P \in Int /\ P < 8 * L /\ P >= 0
  BY OrderPositive DEF Points
<1>2. QED BY <1>1, CongRefl

LEMMA MulPoint ==
  ASSUME NEW n \in Int, NEW P \in Int
  PROVE  Mul(n, P) \in Points /\ Mul(n, P) \in Int /\ Cong(Mul(n, P), n * P, 8 * L)
<1>1. Cong(P, P, 8 * L)
  BY OrderPositive, CongRefl
<1>2. Mul(n, P) \in Points /\ Cong(Mul(n, P), n * P, 8 * L)
  BY <1>1, MulCong
<1>3. QED BY <1>2, PointIsInt

LEMMA NegPoint ==
  ASSUME NEW P \in Points
  PROVE  /\ P \in Int /\ -P \in Int /\ Neg(P) \in Points /\ Neg(P) \in Int
         /\ Cong(Neg(P), -P, 8 * L)
<1>1. P \in Int /\ -P \in Int /\ Cong(P, P, 8 * L)
  BY PointIsInt
<1>2. Neg(P) \in Points /\ Cong(Neg(P), -P, 8 * L)
  BY <1>1, NegCong
<1>3. QED BY <1>1, <1>2, PointIsInt

LEMMA MulOne ==
  ASSUME NEW P \in Points
  PROVE  Mul(1, P) = P /\ Add(0, P) = P /\ Add(P, 0) = P /\ Mul(0, P) = 0 /\ 0 \in Points
<1> DEFINE M == 8 * L
<1>1. M \in Nat /\ M > 0 /\ P \in 0 .. M - 1
  BY OrderPositive DEF Points
<1> HIDE DEF M
<1>2. 1 * P = P /\ 0 + P = P /\ P + 0 = P /\ 0 * P = 0
  BY <1>1
<1>3. P % M = P /\ 0 % M = 0 /\ 0 \in 0 .. M - 1
  BY <1>1
<1>4. QED BY <1>2, <1>3 DEF Mul, Add, M, Points

LEMMA MulAdd ==
  ASSUME NEW a \in Int, NEW b \in Int, NEW P \in Points
  PROVE  Add(Mul(a, P), Mul(b, P)) = Mul(a + b, P)
<1>1. /\ Mul(a, P) \in Int /\ Cong(Mul(a, P), a * P, 8 * L)
      /\ Mul(b, P) \in Int /\ Cong(Mul(b, P), b * P, 8 * L)
      /\ Mul(a + b, P) \in Points /\ Cong(Mul(a + b, P), (a + b) * P, 8 * L)
  <2>1. a + b \in Int
    OBVIOUS
  <2>2. QED BY <2>1, PointIsInt, MulPoint
<1>2. P \in Int /\ a * P \in Int /\ b * P \in Int /\ (a + b) * P = a * P + b * P
      /\ (a + b) * P \in Int
  BY PointIsInt
<1>3. /\ Add(Mul(a, P), Mul(b, P)) \in Points
      /\ Cong(Add(Mul(a, P), Mul(b, P)), a * P + b * P, 8 * L)
  BY <1>1, <1>2, AddCong
<1>4. Cong(Add(Mul(a, P), Mul(b, P)), (a + b) * P, 8 * L)
  BY <1>2, <1>3
<1>5. QED BY <1>1, <1>2, <1>3, <1>4, SamePoint

LEMMA MulNeg ==
  ASSUME NEW a \in Int, NEW P \in Points
  PROVE  Neg(Mul(a, P)) = Mul(-a, P)
<1>1. /\ Mul(a, P) \in Int /\ Cong(Mul(a, P), a * P, 8 * L)
      /\ Mul(-a, P) \in Points /\ Cong(Mul(-a, P), (-a) * P, 8 * L)
  <2>1. -a \in Int
    OBVIOUS
  <2>2. QED BY <2>1, PointIsInt, MulPoint
<1>2. P \in Int /\ a * P \in Int /\ (-a) * P = -(a * P) /\ (-a) * P \in Int
  BY PointIsInt
<1>3. /\ Neg(Mul(a, P)) \in Points
      /\ Cong(Neg(Mul(a, P)), -(a * P), 8 * L)
  BY <1>1, <1>2, NegCong
<1>4. Cong(Neg(Mul(a, P)), (-a) * P, 8 * L)
  BY <1>2, <1>3
<1>5. QED BY <1>1, <1>2, <1>3, <1>4, SamePoint

LEMMA MulMul ==
  ASSUME NEW a \in Int, NEW b \in Int, NEW P \in Points
  PROVE  Mul(a, Mul(b, P)) = Mul(a * b, P)
<1>1. /\ Mul(b, P) \in Int /\ Cong(Mul(b, P), b * P, 8 * L)
      /\ Mul(a * b, P) \in Points /\ Cong(Mul(a * b, P), (a * b) * P, 8 * L)
  <2>1. a * b \in Int
    OBVIOUS
  <2>2. QED BY <2>1, PointIsInt, MulPoint
<1>2. P \in Int /\ b * P \in Int /\ a * (b * P) = (a * b) * P /\ (a * b) * P \in Int
  BY PointIsInt
<1>3. /\ Mul(a, Mul(b, P)) \in Points
      /\ Cong(Mul(a, Mul(b, P)), a * (b * P), 8 * L)
  BY <1>1, <1>2, MulCong
<1>4. Cong(Mul(a, Mul(b, P)), (a * b) * P, 8 * L)
  BY <1>2, <1>3
<1>5. QED BY <1>1, <1>2, <1>3, <1>4, SamePoint

LEMMA AddRegroups ==
  ASSUME NEW a \in Int, NEW P \in Points, NEW Q \in Points, NEW R \in Points,
         NEW S \in Points
  PROVE  Add(Add(Mul(a, P), Q), Add(Mul(a, R), S)) = Add(Mul(a, Add(P, R)), Add(Q, S))
<1> DEFINE X == (a * P + Q) + (a * R + S)
           M == 8 * L
<1>1. /\ P \in Int /\ Q \in Int /\ R \in Int /\ S \in Int /\ X \in Int
      /\ X = a * (P + R) + (Q + S)
      /\ Cong(P, P, M) /\ Cong(Q, Q, M) /\ Cong(R, R, M) /\ Cong(S, S, M)
  BY PointIsInt
<1> DEFINE A == Mul(a, P)
           B == Mul(a, R)
           C == Add(P, R)
           D == Add(Q, S)
<1>2. /\ A \in Int /\ Cong(A, a * P, M) /\ B \in Int /\ Cong(B, a * R, M)
      /\ C \in Points /\ C \in Int /\ Cong(C, P + R, M)
      /\ D \in Int /\ Cong(D, Q + S, M)
  BY <1>1, MulPoint, AddCong, PointIsInt
<1>3. /\ Add(A, Q) \in Int /\ Cong(Add(A, Q), a * P + Q, M)
      /\ Add(B, S) \in Int /\ Cong(Add(B, S), a * R + S, M)
      /\ Mul(a, C) \in Int /\ Cong(Mul(a, C), a * (P + R), M)
  <2>1. a * P \in Int /\ a * R \in Int /\ P + R \in Int
    BY <1>1
  <2> HIDE DEF A, B, C
  <2>2. QED BY <1>1, <1>2, <2>1, AddCong, MulCong, PointIsInt
<1>4. /\ Add(Add(A, Q), Add(B, S)) \in Points
      /\ Cong(Add(Add(A, Q), Add(B, S)), X, M)
  <2>1. a * P + Q \in Int /\ a * R + S \in Int
    BY <1>1
  <2> HIDE DEF A, B
  <2>2. QED BY <1>3, <2>1, AddCong
<1>5. /\ Add(Mul(a, C), D) \in Points
      /\ Cong(Add(Mul(a, C), D), a * (P + R) + (Q + S), M)
  <2>1. a * (P + R) \in Int /\ Q + S \in Int
    BY <1>1
  <2> HIDE DEF C, D
  <2>2. QED BY <1>2, <1>3, <2>1, AddCong
<1>6. Cong(Add(Mul(a, C), D), X, M)
  BY <1>1, <1>5
<1> HIDE DEF X, A, B, C, D
<1>7. Add(Add(A, Q), Add(B, S)) = Add(Mul(a, C), D)
  BY <1>1, <1>4, <1>5, <1>6, SamePoint DEF M
<1>8. QED BY <1>7 DEF A, B, C, D

(* u is a times s plus t, point by point. *)
Combines(u, a, s, t) ==
  /\ s \in Seq(Points) /\ t \in Seq(Points) /\ u \in Seq(Points)
  /\ Len(u) = Len(s) /\ Len(u) = Len(t)
  /\ \A k \in 1 .. Len(u) : u[k] = Add(Mul(a, s[k]), t[k])

LEMMA PartialsPoint ==
  ASSUME NEW s \in Seq(Points), NEW f, Partials(s, f), NEW k \in 0 .. Len(s)
  PROVE  f[k] \in Points /\ f[k] \in Int
<1>1. f[k] \in Points
  BY DEF Partials
<1>2. QED BY <1>1, PointIsInt

LEMMA PointSumCombines ==
  ASSUME NEW a \in Int, NEW u, NEW s, NEW t, Combines(u, a, s, t)
  PROVE  PointSum(u) = Add(Mul(a, PointSum(s)), PointSum(t))
<1> DEFINE n == Len(u)
<1>1. /\ s \in Seq(Points) /\ t \in Seq(Points) /\ u \in Seq(Points)
      /\ Len(s) = n /\ Len(t) = n /\ n \in Nat
      /\ \A k \in 1 .. n : /\ u[k] = Add(Mul(a, s[k]), t[k])
                           /\ s[k] \in Points /\ t[k] \in Points
  BY LenProperties, ElementOfSeq DEF Combines
<1>2. PICK f : Partials(s, f) /\ PointSum(s) = f[n]
  BY <1>1, PartialsExist
<1>3. PICK h : Partials(t, h) /\ PointSum(t) = h[n]
  BY <1>1, PartialsExist
<1>4. PICK g : Partials(u, g) /\ PointSum(u) = g[n]
  BY <1>1, PartialsExist
<1>5. \A k \in 0 .. n : /\ f[k] \in Points /\ f[k] \in Int
                        /\ h[k] \in Points /\ h[k] \in Int
  BY <1>1, <1>2, <1>3, PartialsPoint
<1>6. /\ f[0] = 0 /\ h[0] = 0 /\ g[0] = 0
      /\ \A k \in 1 .. n : /\ f[k] = Add(f[k - 1], s[k]) /\ h[k] = Add(h[k - 1], t[k])
                           /\ g[k] = Add(g[k - 1], u[k])
  BY <1>1, <1>2, <1>3, <1>4 DEF Partials
<1> DEFINE T == {k \in Nat : k <= n => g[k] = Add(Mul(a, f[k]), h[k])}
<1> HIDE DEF n
<1>7. 0 \in T
  <2>1. 0 \in Points
    BY <1>1, <1>5, <1>6
  <2>2. Mul(a, 0) = 0 /\ Add(0, 0) = 0
    <3>1. a * 0 = 0 * 0
      OBVIOUS
    <3>2. QED BY <2>1, <3>1, MulOne DEF Mul
  <2>3. QED BY <1>6, <2>2
<1>8. ASSUME NEW k \in Nat, k \in T PROVE k + 1 \in T
  <2>1. SUFFICES ASSUME k + 1 <= n PROVE g[k + 1] = Add(Mul(a, f[k + 1]), h[k + 1])
    OBVIOUS
  <2> DEFINE F == f[k]
             H == h[k]
             S == s[k + 1]
             V == t[k + 1]
  <2>2. /\ F \in Points /\ H \in Points /\ S \in Points /\ V \in Points
        /\ g[k + 1] = Add(Add(Mul(a, F), H), Add(Mul(a, S), V))
        /\ f[k + 1] = Add(F, S) /\ h[k + 1] = Add(H, V)
    <3>1. n \in Nat
      BY <1>1
    <3>2. k \in 0 .. n /\ k + 1 \in 1 .. n /\ (k + 1) - 1 = k
      BY <2>1, <3>1
    <3>3. g[k] = Add(Mul(a, F), H)
      BY <1>8, <3>2
    <3>4. QED BY <1>1, <1>5, <1>6, <3>2, <3>3
  <2> HIDE DEF F, H, S, V
  <2>3. Add(Add(Mul(a, F), H), Add(Mul(a, S), V)) = Add(Mul(a, Add(F, S)), Add(H, V))
    BY <2>2, AddRegroups
  <2>4. QED BY <2>2, <2>3
<1>9. Nat \subseteq T
  <2> HIDE DEF T
  <2>1. QED BY <1>7, <1>8, SetInduction
<1>10. QED BY <1>1, <1>2, <1>3, <1>4, <1>9

(* The sum of sums, and the multiple of a sum. *)
LEMMA PointSumAdd ==
  ASSUME NEW u \in Seq(Points), NEW s \in Seq(Points), NEW t \in Seq(Points),
         Len(u) = Len(s), Len(u) = Len(t),
         \A k \in 1 .. Len(u) : u[k] = Add(s[k], t[k])
  PROVE  PointSum(u) = Add(PointSum(s), PointSum(t))
<1>1. \A k \in 1 .. Len(u) : s[k] \in Points /\ Mul(1, s[k]) = s[k]
  BY ElementOfSeq, MulOne
<1>2. Combines(u, 1, s, t)
  BY <1>1 DEF Combines
<1>3. PointSum(u) = Add(Mul(1, PointSum(s)), PointSum(t))
  BY <1>2, PointSumCombines
<1>4. QED BY <1>3, PointSumType, MulOne

(* Nothing but identities. *)
LEMMA PointSumZero ==
  ASSUME NEW s \in Seq(Points), \A k \in 1 .. Len(s) : s[k] = 0
  PROVE  PointSum(s) = 0
<1> DEFINE M == 8 * L
           X == PointSum(s)
<1>1. X \in Points /\ M \in Nat /\ M > 0 /\ X \in 0 .. M - 1
  BY PointSumType, OrderPositive DEF Points
<1>2. 0 \in Points /\ Add(0, 0) = 0
  BY <1>1, MulOne
<1>3. \A k \in 1 .. Len(s) : s[k] = Add(s[k], s[k])
  BY <1>2
<1>4. X = Add(X, X)
  BY <1>3, PointSumAdd
<1>5. X = (X + X) % M
  BY <1>4 DEF Add
<1> HIDE DEF M, X
<1>6. X = 0
  BY <1>1, <1>5
<1>7. QED BY <1>6 DEF X
=============================================================================

---------------------------- MODULE PowersProofs ----------------------------
(***************************************************************************)
(* Facts about powers of two, bit lengths, order, divisibility and the     *)
(* sums that a scalar's digits make above a place, which the proofs of the *)
(* scalar algorithms rest on. The induction over the naturals that they    *)
(* need is derived from the well-foundedness of inclusion on finite sets,  *)
(* in the form of a least element of a set of naturals.                    *)
(***************************************************************************)
EXTENDS Powers, FiniteSetTheorems, WellFoundedInduction, TLAPS

LEMMA MulNegate ==
  ASSUME NEW x \in Int, NEW c \in Int
  PROVE  c * (-x) = -(c * x)
OBVIOUS

LEMMA MulMonotone ==
  ASSUME NEW x \in Int, NEW y \in Int, NEW c \in Int, x <= y, 0 <= c
  PROVE  c * x <= c * y
<1>1. y - x \in Nat /\ c * (y - x) >= 0
  OBVIOUS
<1>2. c * (y - x) = c * y - c * x
  OBVIOUS
<1>3. QED BY <1>1, <1>2

LEMMA MulCancel ==
  ASSUME NEW x \in Int, NEW y \in Int, NEW c \in Int, 0 < c, c * x <= c * y
  PROVE  x <= y
<1>1. SUFFICES ASSUME y + 1 <= x PROVE FALSE
  OBVIOUS
<1>2. c * (y + 1) <= c * x
  BY <1>1, MulMonotone
<1>3. c * (y + 1) = c * y + c
  OBVIOUS
<1>4. QED BY <1>2, <1>3

(* A multiple of d strictly between -d and d is zero. *)
LEMMA SmallMultiple ==
  ASSUME NEW e \in Int, NEW d \in Int, -d < e * d, e * d < d
  PROVE  e = 0
<1>1. 0 < d
  OBVIOUS
<1>2. ASSUME 1 <= e PROVE FALSE
  <2>1. d * 1 <= d * e
    BY <1>1, <1>2, MulMonotone
  <2>2. QED BY <2>1
<1>3. ASSUME e <= -1 PROVE FALSE
  <2>1. d * e <= d * (-1)
    BY <1>1, <1>3, MulMonotone
  <2>2. QED BY <2>1
<1>4. QED BY <1>2, <1>3

(* A remainder is zero exactly for the multiples of the divisor. *)
LEMMA Divisible ==
  ASSUME NEW x \in Int, NEW d \in Nat, d > 0
  PROVE  (x % d) = 0 <=> \E q \in Int : x = q * d
<1>1. /\ x = (d * (x \div d)) + (x % d)
      /\ (x \div d) \in Int /\ (x % d) \in 0 .. d - 1
  OBVIOUS
<1>2. ASSUME NEW q \in Int, x = q * d
      PROVE  (x % d) = 0
  <2> DEFINE e == q - (x \div d)
  <2>1. e \in Int /\ e * d = (x % d)
    BY <1>1, <1>2
  <2>2. e = 0
    BY <2>1, <1>1, SmallMultiple
  <2>3. QED BY <2>1, <2>2
<1>3. ASSUME (x % d) = 0
      PROVE  \E q \in Int : x = q * d
  <2>1. x = (x \div d) * d
    BY <1>1, <1>3
  <2>2. QED BY <2>1, <1>1
<1>4. QED BY <1>2, <1>3
-----------------------------------------------------------------------------
(* A non-empty set of naturals has a least element. *)
LEMMA LeastElement ==
  ASSUME NEW T, T \subseteq Nat, T # {}
  PROVE  \E m \in T : \A n \in T : m <= n
<1> DEFINE S == {0 .. n - 1 : n \in T}
           R == StrictSubsetOrdering(Nat)
<1>1. S \subseteq FiniteSubsetsOf(Nat) /\ S # {}
  <2>1. \A n \in T : IsFiniteSet(0 .. n - 1) /\ 0 .. n - 1 \subseteq Nat
    BY FS_Interval
  <2>2. QED BY <2>1 DEF FiniteSubsetsOf
<1>2. PICK x \in S : \A y \in S : ~ (<<y, x>> \in R)
  <2> HIDE DEF S, R
  <2>1. IsWellFoundedOn(R, FiniteSubsetsOf(Nat))
    BY FS_StrictSubsetOrderingWellFounded DEF R
  <2>2. QED BY <1>1, <2>1, WFMin
<1>3. PICK m \in T : x = 0 .. m - 1
  BY <1>2
<1>4. ASSUME NEW n \in T, n < m
      PROVE  FALSE
  <2>1. m \in Nat /\ n \in Nat OBVIOUS
  <2>2. n \in x /\ n \notin 0 .. n - 1
    BY <1>3, <1>4, <2>1
  <2>3. <<0 .. n - 1, x>> \in R
    BY <2>2, <1>3, <1>4, <2>1 DEF StrictSubsetOrdering
  <2>4. QED BY <2>3, <1>2
<1>5. QED BY <1>4

(* A set of naturals that holds 0 and every successor of a member holds    *)
(* every natural.                                                          *)
LEMMA SetInduction ==
  ASSUME NEW T, 0 \in T, \A n \in Nat : n \in T => n + 1 \in T
  PROVE  Nat \subseteq T
<1>1. SUFFICES ASSUME Nat \ T # {} PROVE FALSE
  OBVIOUS
<1>2. PICK m \in Nat \ T : \A n \in Nat \ T : m <= n
  BY <1>1, LeastElement
<1>3. m - 1 \in Nat /\ m - 1 \in T
  BY <1>2
<1>4. QED BY <1>2, <1>3
-----------------------------------------------------------------------------
(* f solves, up to n, the recursion that starts from a and goes on by H.   *)
RunsTo(a, H, n, f) ==
  /\ f \in [0 .. n -> Int]
  /\ f[0] = a
  /\ \A i \in 1 .. n : f[i] = H[i - 1][f[i - 1]]

LEMMA RunsToExists ==
  ASSUME NEW a \in Int, NEW H \in [Nat -> [Int -> Int]]
  PROVE  \A n \in Nat : \E f : RunsTo(a, H, n, f)
<1> DEFINE T == {n \in Nat : \E f : RunsTo(a, H, n, f)}
<1>1. 0 \in T
  <2>1. RunsTo(a, H, 0, [i \in 0 .. 0 |-> a])
    BY DEF RunsTo
  <2>2. QED BY <2>1
<1>2. ASSUME NEW n \in Nat, n \in T
      PROVE  n + 1 \in T
  <2>1. PICK f : RunsTo(a, H, n, f)
    BY <1>2
  <2> DEFINE g == [i \in 0 .. n + 1 |-> IF i = n + 1 THEN H[n][f[n]] ELSE f[i]]
  <2>2. /\ f \in [0 .. n -> Int] /\ f[0] = a
        /\ \A i \in 1 .. n : f[i] = H[i - 1][f[i - 1]]
    BY <2>1 DEF RunsTo
  <2>3. g \in [0 .. n + 1 -> Int]
    <3>1. H[n][f[n]] \in Int
      BY <2>2
    <3>2. \A i \in 0 .. n + 1 : i = n + 1 \/ i \in 0 .. n
      OBVIOUS
    <3>3. QED BY <2>2, <3>1, <3>2
  <2>4. g[0] = a
    BY <2>2
  <2>5. ASSUME NEW i \in 1 .. n + 1
        PROVE  g[i] = H[i - 1][g[i - 1]]
    <3>1. i - 1 \in 0 .. n + 1 /\ i - 1 # n + 1 /\ i \in 0 .. n + 1
      OBVIOUS
    <3>2. CASE i = n + 1
      BY <3>1, <3>2
    <3>3. CASE i # n + 1
      <4>1. i \in 1 .. n
        BY <3>3
      <4>2. QED BY <4>1, <3>1, <3>3, <2>2
    <3>4. QED BY <3>2, <3>3
  <2>6. RunsTo(a, H, n + 1, g)
    BY <2>3, <2>4, <2>5 DEF RunsTo
  <2>7. QED BY <2>6
<1>3. Nat \subseteq T
  <2> HIDE DEF T
  <2>1. QED BY <1>1, <1>2, SetInduction
<1>4. QED BY <1>3

LEMMA RunsToUnique ==
  ASSUME NEW a, NEW H, NEW m \in Nat, NEW n \in Nat, m <= n,
         NEW f, RunsTo(a, H, m, f), NEW g, RunsTo(a, H, n, g)
  PROVE  \A i \in 0 .. m : f[i] = g[i]
<1> DEFINE T == {i \in Nat : i <= m => f[i] = g[i]}
<1>1. 0 \in T
  BY DEF RunsTo
<1>2. ASSUME NEW i \in Nat, i \in T
      PROVE  i + 1 \in T
  <2>1. CASE i + 1 <= m
    <3>1. i + 1 \in 1 .. m /\ i + 1 \in 1 .. n /\ (i + 1) - 1 = i
      BY <2>1
    <3>2. f[i + 1] = H[i][f[i]] /\ g[i + 1] = H[i][g[i]]
      BY <3>1 DEF RunsTo
    <3>3. QED BY <3>2, <1>2, <2>1
  <2>2. CASE ~ (i + 1 <= m)
    BY <2>2
  <2>3. QED BY <2>1, <2>2
<1>3. Nat \subseteq T
  <2> HIDE DEF T
  <2>1. QED BY <1>1, <1>2, SetInduction
<1>4. QED BY <1>3

(* Every recursion over the naturals has a solution. *)
Solves(h, a, H) ==
  h \in [Nat -> Int] /\ h[0] = a /\ \A n \in Nat : h[n + 1] = H[n][h[n]]

LEMMA NatRecursion ==
  ASSUME NEW a \in Int, NEW H \in [Nat -> [Int -> Int]]
  PROVE  \E h : Solves(h, a, H)
<1> DEFINE run(n) == CHOOSE f : RunsTo(a, H, n, f)
           h == [n \in Nat |-> run(n)[n]]
<1>1. \A n \in Nat : RunsTo(a, H, n, run(n))
  BY RunsToExists
<1>2. \A n \in Nat : h[n] \in Int
  <2>1. ASSUME NEW n \in Nat PROVE run(n)[n] \in Int
    <3> HIDE DEF run
    <3>1. run(n) \in [0 .. n -> Int] /\ n \in 0 .. n
      BY <1>1 DEF RunsTo
    <3>2. QED BY <3>1
  <2> HIDE DEF run
  <2>2. QED BY <2>1
<1>3. h[0] = a
  BY <1>1 DEF RunsTo
<1>4. ASSUME NEW n \in Nat
      PROVE  h[n + 1] = H[n][h[n]]
  <2>1. RunsTo(a, H, n, run(n)) /\ RunsTo(a, H, n + 1, run(n + 1))
    BY <1>1
  <2>2. run(n)[n] = run(n + 1)[n]
    <3> HIDE DEF run
    <3>1. QED BY <2>1, RunsToUnique
  <2>3. run(n + 1)[n + 1] = H[n][run(n + 1)[n]]
    <3> HIDE DEF run
    <3>1. n + 1 \in 1 .. n + 1 /\ (n + 1) - 1 = n
      OBVIOUS
    <3>2. QED BY <2>1, <3>1 DEF RunsTo
  <2>4. QED BY <2>2, <2>3
<1>5. QED BY <1>2, <1>3, <1>4 DEF Solves

(* Pow2 satisfies its defining recursion. *)
THEOREM Pow2Def ==
  /\ Pow2 \in [Nat -> Nat]
  /\ Pow2[0] = 1
  /\ \A n \in Nat : Pow2[n + 1] = 2 * Pow2[n]
<1> DEFINE H == [n \in Nat |-> [v \in Int |-> 2 * v]]
           Body(f) == [n \in Nat |-> IF n = 0 THEN 1 ELSE 2 * f[n - 1]]
<1>1. H \in [Nat -> [Int -> Int]] /\ \A n \in Nat, v \in Int : H[n][v] = 2 * v
  OBVIOUS
<1>2. PICK h : Solves(h, 1, H)
  <2>1. H \in [Nat -> [Int -> Int]] /\ 1 \in Int
    BY <1>1
  <2> HIDE DEF H
  <2>2. QED BY <2>1, NatRecursion
<1>3. h = Body(h)
  <2>1. /\ h \in [Nat -> Int] /\ h[0] = 1
        /\ \A n \in Nat : h[n + 1] = 2 * h[n]
    BY <1>1, <1>2 DEF Solves
  <2>2. ASSUME NEW n \in Nat
        PROVE  h[n] = IF n = 0 THEN 1 ELSE 2 * h[n - 1]
    <3>1. n # 0 => n - 1 \in Nat /\ (n - 1) + 1 = n
      OBVIOUS
    <3>2. QED BY <2>1, <3>1
  <2>3. h = [n \in Nat |-> h[n]]
    BY <2>1
  <2>4. QED BY <2>2, <2>3
<1>4. Pow2 = Body(Pow2)
  <2>1. Pow2 = CHOOSE f : f = Body(f)
    BY DEF Pow2
  <2>2. QED BY <2>1, <1>3
<1>5. ASSUME NEW n \in Nat
      PROVE  Pow2[n + 1] = 2 * Pow2[n]
  <2> HIDE DEF Body
  <2>1. n + 1 \in Nat /\ n + 1 # 0 /\ (n + 1) - 1 = n
    OBVIOUS
  <2>2. QED BY <2>1, <1>4 DEF Body
<1>6. Pow2[0] = 1
  BY <1>4
<1>7. \A n \in Nat : Pow2[n] \in Nat
  <2> DEFINE T == {n \in Nat : Pow2[n] \in Nat}
  <2>1. 0 \in T
    BY <1>6
  <2>2. \A n \in Nat : n \in T => n + 1 \in T
    BY <1>5
  <2>3. Nat \subseteq T
    <3> HIDE DEF T
    <3>1. QED BY <2>1, <2>2, SetInduction
  <2>4. QED BY <2>3
<1>8. QED BY <1>4, <1>5, <1>6, <1>7
-----------------------------------------------------------------------------
LEMMA Pow2Positive ==
  \A n \in Nat : Pow2[n] \in Nat /\ Pow2[n] >= 1 /\ n < Pow2[n]
<1> DEFINE T == {n \in Nat : Pow2[n] >= 1 /\ n < Pow2[n]}
<1>1. 0 \in T
  BY Pow2Def
<1>2. \A n \in Nat : n \in T => n + 1 \in T
  BY Pow2Def
<1>3. Nat \subseteq T
  <2> HIDE DEF T
  <2>1. QED BY <1>1, <1>2, SetInduction
<1>4. QED BY <1>3, Pow2Def

(* Shifting by m and then by n is shifting by m + n. *)
LEMMA Pow2Sum ==
  ASSUME NEW m \in Nat, NEW n \in Nat
  PROVE  Pow2[m + n] = Pow2[m] * Pow2[n]
<1> DEFINE T == {k \in Nat : Pow2[m + k] = Pow2[m] * Pow2[k]}
<1>1. 0 \in T
  BY Pow2Def
<1>2. ASSUME NEW k \in Nat, k \in T
      PROVE  k + 1 \in T
  <2>1. Pow2[m + (k + 1)] = 2 * Pow2[m + k]
    <3>1. m + k \in Nat /\ m + (k + 1) = (m + k) + 1
      OBVIOUS
    <3>2. QED BY <3>1, Pow2Def
  <2>2. Pow2[m + k] = Pow2[m] * Pow2[k]
    BY <1>2
  <2>3. Pow2[k + 1] = 2 * Pow2[k]
    BY Pow2Def
  <2>4. Pow2[m] \in Nat /\ Pow2[k] \in Nat
    BY Pow2Def
  <2>5. 2 * (Pow2[m] * Pow2[k]) = Pow2[m] * (2 * Pow2[k])
    BY <2>4
  <2>6. QED BY <2>1, <2>2, <2>3, <2>5
<1>3. Nat \subseteq T
  <2> HIDE DEF T
  <2>1. QED BY <1>1, <1>2, SetInduction
<1>4. QED BY <1>3

LEMMA Pow2Monotone ==
  ASSUME NEW m \in Nat, NEW n \in Nat, m <= n
  PROVE  Pow2[m] <= Pow2[n]
<1>1. n - m \in Nat /\ n = m + (n - m)
  OBVIOUS
<1>2. Pow2[n] = Pow2[m] * Pow2[n - m]
  BY <1>1, Pow2Sum
<1>3. Pow2[m] \in Nat /\ Pow2[n - m] \in Nat /\ Pow2[n - m] >= 1
  BY <1>1, Pow2Positive
<1>4. \A a, b \in Nat : b >= 1 => a <= a * b
  OBVIOUS
<1>5. QED BY <1>2, <1>3, <1>4

(* Every integer has a bit length, which brackets its magnitude between    *)
(* two consecutive powers of two.                                          *)
THEOREM BitLengthDef ==
  ASSUME NEW x \in Int
  PROVE  /\ BitLength(x) \in Nat
         /\ Abs(x) \in Nat
         /\ Abs(x) < Pow2[BitLength(x)]
         /\ BitLength(x) > 0 =>
              /\ BitLength(x) - 1 \in Nat
              /\ Pow2[BitLength(x) - 1] <= Abs(x)
<1> DEFINE T == {n \in Nat : Abs(x) < Pow2[n]}
           Fits(n) == /\ Abs(x) < Pow2[n]
                      /\ n > 0 => Pow2[n - 1] <= Abs(x)
<1>1. Abs(x) \in Nat
  BY DEF Abs
<1>2. Abs(x) \in T
  BY <1>1, Pow2Positive
<1>3. PICK m \in T : \A n \in T : m <= n
  <2> HIDE DEF T
  <2>1. T \subseteq Nat BY DEF T
  <2>2. QED BY <1>2, <2>1, LeastElement
<1>4. m \in 0 .. Abs(x)
  BY <1>1, <1>2, <1>3
<1>5. Fits(m)
  <2>1. ASSUME m > 0
        PROVE  Pow2[m - 1] <= Abs(x)
    <3>1. m - 1 \in Nat /\ ~ (m - 1 \in T)
      BY <1>3, <2>1
    <3>2. QED BY <3>1, <1>1, Pow2Def
  <2>2. QED BY <1>3, <2>1
<1>6. BitLength(x) \in 0 .. Abs(x) /\ Fits(BitLength(x))
  <2>1. BitLength(x) = CHOOSE n \in 0 .. Abs(x) : Fits(n)
    BY DEF BitLength
  <2> HIDE DEF Fits
  <2>2. QED BY <2>1, <1>4, <1>5
<1>7. BitLength(x) \in Nat
  BY <1>6, <1>1
<1>8. QED BY <1>1, <1>6, <1>7

(* A magnitude below 2^n has at most n bits. *)
LEMMA BitLengthAtMost ==
  ASSUME NEW x \in Int, NEW n \in Nat, Abs(x) < Pow2[n]
  PROVE  BitLength(x) <= n
<1>1. SUFFICES ASSUME BitLength(x) > n PROVE FALSE
  BY BitLengthDef
<1>2. BitLength(x) - 1 \in Nat /\ Pow2[BitLength(x) - 1] <= Abs(x)
  BY <1>1, BitLengthDef
<1>3. Pow2[n] <= Pow2[BitLength(x) - 1]
  BY <1>1, <1>2, Pow2Monotone, BitLengthDef
<1>4. QED BY <1>2, <1>3, Pow2Def, BitLengthDef

(* A magnitude of at least 2^n has more than n bits. *)
LEMMA BitLengthMoreThan ==
  ASSUME NEW x \in Int, NEW n \in Nat, Pow2[n] <= Abs(x)
  PROVE  BitLength(x) > n
<1>1. SUFFICES ASSUME BitLength(x) <= n PROVE FALSE
  BY BitLengthDef
<1>2. Pow2[BitLength(x)] <= Pow2[n]
  BY <1>1, Pow2Monotone, BitLengthDef
<1>3. QED BY <1>2, Pow2Def, BitLengthDef
-----------------------------------------------------------------------------
(* The quotient and the remainder are the only ones.                       *)
LEMMA DivUnique ==
  ASSUME NEW x \in Int, NEW d \in Nat, d > 0, NEW q \in Int, NEW r \in 0 .. d - 1,
         x = d * q + r
  PROVE  x \div d = q /\ x % d = r
<1> DEFINE Q == x \div d
           R == x % d
<1>1. Q \in Int /\ R \in 0 .. d - 1 /\ x = d * Q + R
  OBVIOUS
<1> HIDE DEF Q, R
<1>2. (Q - q) * d = r - R
  <2>1. d * Q \in Int /\ d * q \in Int /\ (Q - q) * d = d * Q - d * q
    BY <1>1
  <2>2. QED BY <1>1, <2>1
<1>3. Q - q \in Int /\ -d < (Q - q) * d /\ (Q - q) * d < d
  BY <1>1, <1>2
<1>4. Q - q = 0
  BY <1>3, SmallMultiple
<1>5. Q = q /\ R = r
  BY <1>1, <1>4
<1>6. QED BY <1>5 DEF Q, R

LEMMA DivFacts ==
  ASSUME NEW x \in Int, NEW n \in Nat
  PROVE  /\ x \div Pow2[n] \in Int /\ x % Pow2[n] \in 0 .. Pow2[n] - 1
         /\ x = Pow2[n] * (x \div Pow2[n]) + (x % Pow2[n])
         /\ x >= 0 => x \div Pow2[n] >= 0
<1> DEFINE p == Pow2[n]
           q == x \div p
           r == x % p
<1>1. p \in Nat /\ p >= 1
  BY Pow2Positive
<1> HIDE DEF p
<1>2. q \in Int /\ r \in 0 .. p - 1 /\ x = p * q + r
  BY <1>1
<1>3. ASSUME x >= 0, q < 0 PROVE FALSE
  <2> HIDE DEF q, r
  <2>1. p * (q + 1) <= p * 0
    BY <1>1, <1>2, <1>3, MulMonotone
  <2>2. p * (q + 1) = p * q + p /\ p * 0 = 0 /\ p * q \in Int
    BY <1>1, <1>2
  <2>3. QED BY <1>1, <1>2, <1>3, <2>1, <2>2
<1>4. QED BY <1>2, <1>3 DEF p

(* Dropping m bits and then n is dropping m + n. *)
LEMMA DivTwice ==
  ASSUME NEW x \in Int, NEW m \in Nat, NEW n \in Nat
  PROVE  (x \div Pow2[m]) \div Pow2[n] = x \div Pow2[m + n]
<1> DEFINE a == Pow2[m]
           b == Pow2[n]
           y == x \div a
           r == x % a
           z == y \div b
           s == y % b
           t == a * s + r
<1>1. a \in Nat /\ a >= 1 /\ b \in Nat /\ b >= 1 /\ Pow2[m + n] = a * b
  BY Pow2Positive, Pow2Sum
<1>2. y \in Int /\ r \in 0 .. a - 1 /\ x = a * y + r
  BY DivFacts
<1>3. z \in Int /\ s \in 0 .. b - 1 /\ y = b * z + s
  BY <1>2, DivFacts
<1> HIDE DEF a, b, y, r, z, s
<1>4. a * y = (a * b) * z + a * s
  BY <1>1, <1>2, <1>3
<1>5. a * s >= 0 /\ a * s <= a * b - a /\ a * s \in Int /\ a * b \in Nat
  <2>1. a * s <= a * (b - 1) /\ a * 0 <= a * s
    BY <1>1, <1>3, MulMonotone
  <2>2. a * (b - 1) = a * b - a /\ a * s \in Int /\ a * b \in Nat /\ a * 0 = 0
    BY <1>1, <1>3
  <2>3. QED BY <2>1, <2>2
<1> DEFINE c == a * b
<1>6. c \in Nat /\ c > 0 /\ t \in 0 .. c - 1 /\ x = c * z + t
  <2>1. c * z \in Int
    BY <1>3, <1>5
  <2>2. QED BY <1>1, <1>2, <1>4, <1>5, <2>1
<1> HIDE DEF c, t
<1>7. x \div c = z
  BY <1>3, <1>6, DivUnique
<1>8. QED BY <1>1, <1>7 DEF c, z, y, a, b

LEMMA DivSmall ==
  ASSUME NEW x \in Nat, NEW m \in Nat, NEW n \in Nat, x < Pow2[m + n]
  PROVE  x \div Pow2[m] \in 0 .. Pow2[n] - 1
<1> DEFINE a == Pow2[m]
           b == Pow2[n]
           q == x \div a
           r == x % a
<1>1. a \in Nat /\ a >= 1 /\ b \in Nat /\ b >= 1 /\ x < a * b
  BY Pow2Positive, Pow2Sum
<1>2. q \in Int /\ r \in 0 .. a - 1 /\ x = a * q + r /\ q >= 0
  <2>1. x \in Int /\ x >= 0
    OBVIOUS
  <2>2. QED BY <2>1, DivFacts
<1> HIDE DEF a, b, q, r
<1>3. ASSUME b <= q PROVE FALSE
  <2>1. a * b <= a * q
    BY <1>1, <1>2, <1>3, MulMonotone
  <2>2. a * b \in Int /\ a * q \in Int
    BY <1>1, <1>2
  <2>3. QED BY <1>1, <1>2, <2>1, <2>2
<1>4. q \in 0 .. b - 1
  BY <1>1, <1>2, <1>3
<1>5. QED BY <1>4 DEF q, a, b

(* Sum satisfies its defining recursion. *)
LEMMA SumDef ==
  ASSUME NEW f \in [Nat -> Int]
  PROVE  /\ Sum(f) \in [Nat -> Int] /\ Sum(f)[0] = 0
         /\ \A n \in Nat : Sum(f)[n + 1] = Sum(f)[n] + f[n]
<1> DEFINE H == [n \in Nat |-> [v \in Int |-> v + f[n]]]
           Body(g) == [n \in Nat |-> IF n = 0 THEN 0 ELSE g[n - 1] + f[n - 1]]
<1>1. H \in [Nat -> [Int -> Int]] /\ \A n \in Nat, v \in Int : H[n][v] = v + f[n]
  OBVIOUS
<1>2. PICK h : Solves(h, 0, H)
  <2>1. H \in [Nat -> [Int -> Int]] /\ 0 \in Int
    BY <1>1
  <2> HIDE DEF H
  <2>2. QED BY <2>1, NatRecursion
<1>3. h = Body(h)
  <2>1. /\ h \in [Nat -> Int] /\ h[0] = 0
        /\ \A n \in Nat : h[n + 1] = h[n] + f[n]
    BY <1>1, <1>2 DEF Solves
  <2>2. ASSUME NEW n \in Nat
        PROVE  h[n] = IF n = 0 THEN 0 ELSE h[n - 1] + f[n - 1]
    <3>1. n # 0 => n - 1 \in Nat /\ (n - 1) + 1 = n
      OBVIOUS
    <3>2. QED BY <2>1, <3>1
  <2>3. h = [n \in Nat |-> h[n]]
    BY <2>1
  <2>4. QED BY <2>2, <2>3
<1> DEFINE g == Sum(f)
<1>4. g = Body(g)
  <2>1. Sum(f) = CHOOSE k : k = Body(k)
    BY DEF Sum
  <2>2. QED BY <2>1, <1>3
<1>5. ASSUME NEW n \in Nat
      PROVE  g[n + 1] = g[n] + f[n]
  <2> HIDE DEF Body, g
  <2>1. n + 1 \in Nat /\ n + 1 # 0 /\ (n + 1) - 1 = n
    OBVIOUS
  <2>2. QED BY <2>1, <1>4 DEF Body
<1>6. g[0] = 0
  BY <1>4
<1>7. \A n \in Nat : g[n] \in Int
  <2> HIDE DEF g
  <2> DEFINE T == {n \in Nat : g[n] \in Int}
  <2>1. 0 \in T
    BY <1>6
  <2>2. \A n \in Nat : n \in T => n + 1 \in T
    BY <1>5
  <2>3. Nat \subseteq T
    <3> HIDE DEF T
    <3>1. QED BY <2>1, <2>2, SetInduction
  <2>4. QED BY <2>3
<1>8. g \in [Nat -> Int]
  <2> HIDE DEF g
  <2>1. g = [n \in Nat |-> g[n]]
    BY <1>4
  <2>2. QED BY <1>7, <2>1
<1>9. QED BY <1>5, <1>6, <1>8

(* The weighed digits that DigitSum adds up. *)
Weighed(d, w, n) == [i \in Nat |-> IF i < n THEN d[i] * Pow2[w * i] ELSE 0]

LEMMA WeighedType ==
  ASSUME NEW w \in Nat, NEW n \in Nat, NEW d, \A i \in 0 .. n - 1 : d[i] \in Int
  PROVE  /\ Weighed(d, w, n) \in [Nat -> Int]
         /\ \A i \in Nat : Weighed(d, w, n)[i] =
                             IF i < n THEN d[i] * Pow2[w * i] ELSE 0
<1>1. ASSUME NEW i \in Nat, i < n
      PROVE  d[i] * Pow2[w * i] \in Int
  <2>1. w * i \in Nat /\ d[i] \in Int
    BY <1>1
  <2>2. Pow2[w * i] \in Int
    BY <2>1, Pow2Def
  <2> DEFINE a == d[i]
             b == Pow2[w * i]
  <2>3. a \in Int /\ b \in Int
    BY <2>1, <2>2
  <2> HIDE DEF a, b
  <2>4. a * b \in Int
    BY <2>3
  <2>5. QED BY <2>4 DEF a, b
<1>2. QED BY <1>1 DEF Weighed

LEMMA DigitSumType ==
  ASSUME NEW w \in Nat, NEW n \in Nat, NEW d, \A i \in 0 .. n - 1 : d[i] \in Int
  PROVE  DigitSum(d, w, n) \in Int /\ DigitSum(d, w, n) = Sum(Weighed(d, w, n))[n]
BY WeighedType, SumDef DEF DigitSum, Weighed

(* Changing one digit changes the value by the difference, weighed. *)
OneChanged(e, d, n, j, v) ==
  \A i \in 0 .. n - 1 : d[i] \in Int /\ e[i] = IF i = j THEN v ELSE d[i]

LEMMA DigitSumUpdate ==
  ASSUME NEW w \in Nat, NEW n \in Nat, NEW d, NEW e,
         NEW j \in 0 .. n - 1, NEW v \in Int, OneChanged(e, d, n, j, v)
  PROVE  DigitSum(e, w, n) = DigitSum(d, w, n) + (v - d[j]) * Pow2[w * j]
<1> DEFINE F == Weighed(d, w, n)
           G == Weighed(e, w, n)
           c == (v - d[j]) * Pow2[w * j]
           R == Sum(F)
           S == Sum(G)
<1>1. /\ \A i \in 0 .. n - 1 : d[i] \in Int /\ e[i] = IF i = j THEN v ELSE d[i]
      /\ d[j] \in Int
  BY DEF OneChanged
<1>2. /\ F \in [Nat -> Int] /\ \A i \in Nat : F[i] = IF i < n THEN d[i] * Pow2[w * i] ELSE 0
  BY <1>1, WeighedType
<1>3. /\ G \in [Nat -> Int] /\ \A i \in Nat : G[i] = IF i < n THEN e[i] * Pow2[w * i] ELSE 0
  <2>1. \A i \in 0 .. n - 1 : e[i] \in Int
    BY <1>1
  <2>2. QED BY <2>1, WeighedType
<1>4. c \in Int /\ G[j] = F[j] + c
  <2>1. w * j \in Nat
    OBVIOUS
  <2> DEFINE p == Pow2[w * j]
             a == d[j]
  <2>2. p \in Int /\ a \in Int
    BY <1>1, <2>1, Pow2Def
  <2>3. j \in Nat /\ j < n /\ e[j] = v
    BY <1>1
  <2>4. F[j] = a * p /\ G[j] = v * p
    <3> HIDE DEF F, G
    <3>1. QED BY <1>2, <1>3, <2>3
  <2>5. c = (v - a) * p
    OBVIOUS
  <2> HIDE DEF p, a, c, F, G
  <2>6. (v - a) * p \in Int /\ v * p = a * p + (v - a) * p
    BY <2>2
  <2>7. QED BY <2>4, <2>5, <2>6
<1>5. ASSUME NEW i \in Nat, i # j
      PROVE  G[i] = F[i]
  <2> HIDE DEF F, G
  <2>1. CASE i < n
    <3>1. i \in 0 .. n - 1
      BY <2>1
    <3>2. e[i] = d[i]
      BY <1>1, <1>5, <3>1
    <3>3. QED BY <1>2, <1>3, <2>1, <3>2
  <2>2. CASE ~ (i < n)
    BY <1>2, <1>3, <2>2
  <2>3. QED BY <2>1, <2>2
<1> HIDE DEF F, G, c
<1>6. /\ R \in [Nat -> Int] /\ R[0] = 0 /\ \A i \in Nat : R[i + 1] = R[i] + F[i]
      /\ S \in [Nat -> Int] /\ S[0] = 0 /\ \A i \in Nat : S[i + 1] = S[i] + G[i]
  BY <1>2, <1>3, SumDef
<1> HIDE DEF R, S
<1> DEFINE T == {i \in Nat : S[i] = R[i] + (IF j < i THEN c ELSE 0)}
<1>7. 0 \in T
  BY <1>6
<1>8. ASSUME NEW i \in Nat, i \in T
      PROVE  i + 1 \in T
  <2>1. F[i] \in Int /\ R[i] \in Int
    BY <1>2, <1>6
  <2>2. CASE i = j
    BY <1>4, <1>6, <1>8, <2>1, <2>2
  <2>3. CASE i # j
    BY <1>4, <1>5, <1>6, <1>8, <2>1, <2>3
  <2>4. QED BY <2>2, <2>3
<1>9. Nat \subseteq T
  <2> HIDE DEF T
  <2>1. QED BY <1>7, <1>8, SetInduction
<1>10. S[n] = R[n] + c
  BY <1>9
<1>11. DigitSum(d, w, n) = R[n] /\ DigitSum(e, w, n) = S[n]
  BY DEF DigitSum, Weighed, R, S, F, G
<1>12. QED BY <1>10, <1>11 DEF c

(* Zeros stand for zero. *)
LEMMA DigitSumZero ==
  ASSUME NEW w \in Nat, NEW n \in Nat, NEW d, \A i \in 0 .. n - 1 : d[i] = 0
  PROVE  DigitSum(d, w, n) = 0
<1> DEFINE F == Weighed(d, w, n)
           S == Sum(F)
           T == {i \in Nat : S[i] = 0}
<1>1. /\ F \in [Nat -> Int] /\ \A i \in Nat : F[i] = IF i < n THEN d[i] * Pow2[w * i] ELSE 0
  BY WeighedType
<1>2. ASSUME NEW i \in Nat
      PROVE  F[i] = 0
  <2>1. w * i \in Nat
    OBVIOUS
  <2>2. Pow2[w * i] \in Int
    BY <2>1, Pow2Def
  <2>3. 0 * Pow2[w * i] = 0
    BY <2>2
  <2>4. QED BY <1>1, <2>3
<1> HIDE DEF F
<1>3. S[0] = 0 /\ \A i \in Nat : S[i + 1] = S[i] + F[i]
  BY <1>1, SumDef
<1>4. 0 \in T /\ \A i \in Nat : i \in T => i + 1 \in T
  BY <1>2, <1>3
<1>5. Nat \subseteq T
  <2> HIDE DEF T
  <2>1. QED BY <1>4, SetInduction
<1>6. QED BY <1>5 DEF DigitSum, Weighed, F

(* A number is its digits, with what they leave. *)
LEMMA DigitSumOfDigits ==
  ASSUME NEW x \in Int, NEW w \in Nat, NEW n \in Nat, NEW d,
         \A i \in 0 .. n - 1 : d[i] = (x \div Pow2[w * i]) % Pow2[w]
  PROVE  x = DigitSum(d, w, n) + (x \div Pow2[w * n]) * Pow2[w * n]
<1> DEFINE F == Weighed(d, w, n)
           S == Sum(F)
           q(i) == x \div Pow2[w * i]
           T == {i \in Nat : i <= n => x = S[i] + q(i) * Pow2[w * i]}
<1>1. \A i \in Nat : w * i \in Nat /\ Pow2[w * i] \in Nat /\ q(i) \in Int
  <2>1. \A i \in Nat : w * i \in Nat
    OBVIOUS
  <2>2. QED BY <2>1, Pow2Def, DivFacts
<1>2. ASSUME NEW i \in 0 .. n - 1 PROVE d[i] \in Int
  <2>1. d[i] = q(i) % Pow2[w] /\ q(i) \in Int
    BY <1>1
  <2> HIDE DEF q
  <2>2. q(i) % Pow2[w] \in 0 .. Pow2[w] - 1 /\ Pow2[w] \in Nat
    BY <2>1, DivFacts, Pow2Def
  <2>3. QED BY <2>1, <2>2
<1>3. /\ F \in [Nat -> Int] /\ \A i \in Nat : F[i] = IF i < n THEN d[i] * Pow2[w * i] ELSE 0
  BY <1>2, WeighedType
<1> HIDE DEF F
<1>4. S \in [Nat -> Int] /\ S[0] = 0 /\ \A i \in Nat : S[i + 1] = S[i] + F[i]
  BY <1>3, SumDef
<1> HIDE DEF S
<1>5. 0 \in T
  <2>1. w * 0 = 0 /\ Pow2[0] = 1
    BY Pow2Def
  <2>2. q(0) = x
    BY <2>1
  <2>3. QED BY <1>4, <2>1, <2>2
<1>6. ASSUME NEW i \in Nat, i \in T
      PROVE  i + 1 \in T
  <2>1. CASE i + 1 <= n
    <3> DEFINE a == q(i)
               b == q(i + 1)
               m == d[i]
               u == Pow2[w]
               p == Pow2[w * i]
    <3>1. a \in Int /\ p \in Int /\ u \in Nat /\ w * i \in Nat /\ b \in Int
      <4>1. i + 1 \in Nat
        OBVIOUS
      <4>2. b \in Int /\ a \in Int
        <5> HIDE DEF q
        <5>1. QED BY <1>1, <4>1
      <4>3. p \in Int /\ w * i \in Nat
        BY <1>1
      <4>4. u \in Nat
        BY Pow2Def
      <4>5. QED BY <4>2, <4>3, <4>4
    <3>2. w * (i + 1) = w * i + w
      OBVIOUS
    <3>3. Pow2[w * (i + 1)] = p * u
      BY <3>1, <3>2, Pow2Sum
    <3>4. b = a \div u
      BY <3>1, <3>2, DivTwice
    <3>5. m = a % u
      BY <2>1
    <3>6. a = u * b + m /\ m \in Int
      BY <3>1, <3>4, <3>5, DivFacts
    <3>7. x = S[i] + a * p /\ S[i + 1] = S[i] + m * p
      BY <1>3, <1>4, <1>6, <2>1
    <3> HIDE DEF a, b, m, u, p
    <3>8. a * p = m * p + b * (p * u) /\ m * p \in Int /\ b * (p * u) \in Int
      BY <3>1, <3>6
    <3>9. x = S[i + 1] + b * (p * u)
      BY <1>4, <3>7, <3>8
    <3>10. QED BY <3>3, <3>9 DEF b
  <2>2. CASE ~ (i + 1 <= n)
    BY <2>2
  <2>3. QED BY <2>1, <2>2
<1>7. Nat \subseteq T
  <2> HIDE DEF T
  <2>1. QED BY <1>5, <1>6, SetInduction
<1>8. x = S[n] + q(n) * Pow2[w * n]
  BY <1>7
<1>9. QED BY <1>8 DEF DigitSum, Weighed, F, S
-----------------------------------------------------------------------------
(* The powers that the widths and the bytes need. *)
LEMMA SmallPowers ==
  /\ Pow2[0] = 1 /\ Pow2[1] = 2 /\ Pow2[2] = 4 /\ Pow2[3] = 8 /\ Pow2[4] = 16
  /\ Pow2[5] = 32 /\ Pow2[6] = 64 /\ Pow2[7] = 128 /\ Pow2[8] = 256
<1>1. \A n \in Nat : Pow2[n + 1] = 2 * Pow2[n]
  BY Pow2Def
<1>2. Pow2[0] = 1 /\ Pow2[0 + 1] = 2
  BY <1>1, Pow2Def
<1>3. Pow2[1 + 1] = 4
  BY <1>1, <1>2
<1>4. Pow2[2 + 1] = 8
  BY <1>1, <1>3
<1>5. Pow2[3 + 1] = 16
  BY <1>1, <1>4
<1>6. Pow2[4 + 1] = 32
  BY <1>1, <1>5
<1>7. Pow2[5 + 1] = 64
  BY <1>1, <1>6
<1>8. Pow2[6 + 1] = 128
  BY <1>1, <1>7
<1>9. Pow2[7 + 1] = 256
  BY <1>1, <1>8
<1>10. QED BY <1>2, <1>3, <1>4, <1>5, <1>6, <1>7, <1>8, <1>9

(* Half of the radix of digits of v bits. *)
LEMMA HalfPower ==
  ASSUME NEW v \in Nat, v >= 1
  PROVE  /\ v - 1 \in Nat /\ Pow2[v - 1] \in Nat /\ Pow2[v - 1] >= 1
         /\ Pow2[v] = 2 * Pow2[v - 1]
<1>1. v - 1 \in Nat /\ (v - 1) + 1 = v
  OBVIOUS
<1>2. QED BY <1>1, Pow2Def, Pow2Positive

(* Adding a multiple of 2^n adds to the quotient alone. *)
LEMMA DivShift ==
  ASSUME NEW a \in Int, NEW b \in Int, NEW n \in Nat, NEW k \in Int,
         a = b + Pow2[n] * k
  PROVE  a \div Pow2[n] = (b \div Pow2[n]) + k /\ a % Pow2[n] = b % Pow2[n]
<1> DEFINE p == Pow2[n]
           q == b \div p
           r == b % p
<1>1. p \in Nat /\ p > 0
  BY Pow2Positive
<1>2. q \in Int /\ r \in 0 .. p - 1 /\ b = p * q + r
  BY DivFacts
<1> HIDE DEF p, q, r
<1>3. a = p * (q + k) + r
  <2>1. a = b + p * k
    BY DEF p
  <2>2. p * (q + k) = p * q + p * k /\ p * q \in Int /\ p * k \in Int
    BY <1>1, <1>2
  <2>3. QED BY <1>2, <2>1, <2>2
<1>4. a \div p = q + k /\ a % p = r
  <2> DEFINE m == q + k
  <2>1. m \in Int /\ a = p * m + r
    BY <1>2, <1>3
  <2> HIDE DEF m
  <2>2. a \div p = m /\ a % p = r
    BY <1>1, <1>2, <2>1, DivUnique
  <2>3. QED BY <2>2 DEF m
<1>5. QED BY <1>4 DEF p, q, r

-----------------------------------------------------------------------------
(* The digit that Naf takes off n, and what it leaves. *)
NafDigit(n, v) == IF n % 2 = 0 THEN 0 ELSE SignedMod(n, v)
NafLeft(n, v) == (n - NafDigit(n, v)) \div 2

(* Naf's k, without its bound. *)
IsNafK(K, y, v) ==
  /\ K \in [Nat -> Int] /\ K[0] = y
  /\ \A i \in Nat : K[i + 1] = NafLeft(K[i], v)

NafK(y, v) == CHOOSE K : IsNafK(K, y, v)

LEMMA SignedModFacts ==
  ASSUME NEW n \in Int, NEW v \in Nat, v >= 1
  PROVE  /\ SignedMod(n, v) \in -Pow2[v - 1] .. Pow2[v - 1] - 1
         /\ (n + Pow2[v - 1]) \div Pow2[v] \in Int
         /\ SignedMod(n, v) = n - Pow2[v] * ((n + Pow2[v - 1]) \div Pow2[v])
<1> DEFINE h == Pow2[v - 1]
           m == n + h
           q == m \div Pow2[v]
           r == m % Pow2[v]
<1>1. h \in Nat /\ Pow2[v] = 2 * h
  BY HalfPower
<1>2. m \in Int
  <2> HIDE DEF h
  <2>1. QED BY <1>1
<1> HIDE DEF m
<1>3. q \in Int /\ r \in 0 .. Pow2[v] - 1 /\ m = Pow2[v] * q + r
  BY <1>2, DivFacts
<1>4. SignedMod(n, v) = r - h
  BY DEF SignedMod, m
<1> HIDE DEF h, q, r
<1>5. Pow2[v] * q \in Int
  BY <1>1, <1>3
<1>6. m = n + h
  BY DEF m, h
<1>7. r - h \in -h .. h - 1 /\ r - h = n - Pow2[v] * q
  BY <1>1, <1>2, <1>3, <1>5, <1>6
<1>8. QED BY <1>3, <1>4, <1>7 DEF q, m, h

LEMMA NafKExists ==
  ASSUME NEW y \in Int, NEW v \in Nat, v >= 1
  PROVE  IsNafK(NafK(y, v), y, v)
<1> DEFINE H == [i \in Nat |-> [n \in Int |-> NafLeft(n, v)]]
<1>1. \A n \in Int : NafLeft(n, v) \in Int
  <2>1. \A n \in Int : SignedMod(n, v) \in Int
    <3>1. Pow2[v - 1] \in Nat
      BY HalfPower
    <3>2. QED BY <3>1, SignedModFacts
  <2>2. QED BY <2>1 DEF NafLeft, NafDigit
<1>2. H \in [Nat -> [Int -> Int]]
  BY <1>1
<1>3. \A i \in Nat, n \in Int : H[i][n] = NafLeft(n, v)
  OBVIOUS
<1> HIDE DEF H
<1>4. PICK K : Solves(K, y, H)
  BY <1>2, NatRecursion
<1>5. IsNafK(K, y, v)
  BY <1>3, <1>4 DEF Solves, IsNafK
<1>6. QED BY <1>5 DEF NafK

LEMMA NafIsNafK ==
  ASSUME NEW y \in Int, NEW v \in Nat, v >= 1, NEW bits \in Nat
  PROVE  Naf(y, v, bits) = [i \in 0 .. bits - 1 |-> NafDigit(NafK(y, v)[i], v)]
<1> DEFINE D == 0 .. bits - 1
           Body(f) == [i \in D |-> IF i = 0 THEN y ELSE NafLeft(f[i - 1], v)]
           K == NafK(y, v)
           g == [i \in D |-> K[i]]
           k == CHOOSE f : f = Body(f)
<1>1. K \in [Nat -> Int] /\ K[0] = y /\ \A i \in Nat : K[i + 1] = NafLeft(K[i], v)
  BY NafKExists DEF IsNafK
<1> HIDE DEF K
<1>2. g = Body(g)
  <2>1. ASSUME NEW i \in D PROVE g[i] = Body(g)[i]
    <3>1. CASE i = 0
      BY <1>1, <3>1
    <3>2. CASE i # 0
      <4>1. i - 1 \in Nat /\ i - 1 \in D /\ (i - 1) + 1 = i
        BY <3>2
      <4>2. K[i] = NafLeft(K[i - 1], v)
        BY <1>1, <4>1
      <4>3. QED BY <3>2, <4>1, <4>2
    <3>3. QED BY <3>1, <3>2
  <2>2. QED BY <2>1
<1>3. k = Body(k)
  <2> HIDE DEF Body, g
  <2>1. QED BY <1>2
<1>4. Naf(y, v, bits) = [i \in D |-> NafDigit(k[i], v)]
  BY DEF Naf, NafDigit, NafLeft
<1> HIDE DEF k
<1> DEFINE T == {i \in Nat : i \in D => k[i] = K[i]}
<1>5. 0 \in T
  BY <1>1, <1>3
<1>6. ASSUME NEW i \in Nat, i \in T PROVE i + 1 \in T
  <2>1. CASE i + 1 \in D
    <3>1. i \in D /\ (i + 1) - 1 = i /\ i + 1 # 0
      BY <2>1
    <3>2. k[i + 1] = NafLeft(k[i], v)
      BY <1>3, <2>1, <3>1
    <3>3. QED BY <1>1, <1>6, <3>1, <3>2
  <2>2. CASE i + 1 \notin D
    BY <2>2
  <2>3. QED BY <2>1, <2>2
<1>7. Nat \subseteq T
  <2> HIDE DEF T
  <2>1. QED BY <1>5, <1>6, SetInduction
<1>8. \A i \in D : k[i] = K[i]
  BY <1>7
<1>9. QED BY <1>4, <1>8 DEF K

(* The digit of an odd number is its lower window, or that less 2^v.       *)
LEMMA OddWindow ==
  ASSUME NEW n \in Int, NEW v \in Nat, v >= 1, NEW W \in 0 .. Pow2[v], NEW Y \in Int,
         n = W + Pow2[v] * Y, W % 2 = 1
  PROVE  /\ W < Pow2[v]
         /\ NafDigit(n, v) = IF W < Pow2[v - 1] THEN W ELSE W - Pow2[v]
<1> DEFINE h == Pow2[v - 1]
           p == Pow2[v]
           s == p * Y
           r == IF W < h THEN W + h ELSE W - h
           q == IF W < h THEN Y ELSE Y + 1
<1>1. h \in Nat /\ p = 2 * h /\ p \in Nat /\ p >= 1 /\ W \in 0 .. p /\ h >= 1
  BY HalfPower, Pow2Positive
<1>2. n = W + s
  OBVIOUS
<1> HIDE DEF h, p
<1>3. s \in Int /\ s % 2 = 0
  <2>1. s = 2 * (h * Y) /\ h * Y \in Int
    BY <1>1
  <2>2. QED BY <2>1
<1>4. p * (Y + 1) = s + p
  BY <1>1
<1> HIDE DEF s
<1>5. n % 2 = 1 /\ W # p
  BY <1>1, <1>2, <1>3
<1>6. r \in 0 .. p - 1 /\ q \in Int /\ n + h \in Int
  BY <1>1, <1>5
<1>7. n + h = p * q + r
  BY <1>1, <1>2, <1>3, <1>4 DEF s
<1> HIDE DEF r, q
<1>8. (n + h) % p = r
  <2> DEFINE m == n + h
  <2>1. m \in Int /\ m = p * q + r /\ p > 0
    BY <1>1, <1>6, <1>7
  <2> HIDE DEF m
  <2>2. m % p = r
    BY <1>1, <1>6, <2>1, DivUnique
  <2>3. QED BY <2>2 DEF m
<1>9. NafDigit(n, v) = r - h
  BY <1>5, <1>8 DEF NafDigit, SignedMod, h, p
<1>10. r - h = IF W < h THEN W ELSE W - p
  BY <1>1 DEF r
<1>11. W < p /\ NafDigit(n, v) = IF W < h THEN W ELSE W - p
  BY <1>1, <1>5, <1>9, <1>10
<1>12. QED BY <1>11 DEF h, p
LEMMA WidthFacts ==
  ASSUME NEW v \in 2 .. 8
  PROVE  /\ v \in Nat /\ v >= 1 /\ v - 1 \in Nat
         /\ Pow2[v] \in 4 .. 256 /\ Pow2[v - 1] \in 2 .. 128
         /\ Pow2[v] = 2 * Pow2[v - 1] /\ Pow2[v - 1] % 2 = 0
<1>1. v = 2 \/ v = 3 \/ v = 4 \/ v = 5 \/ v = 6 \/ v = 7 \/ v = 8
  OBVIOUS
<1>2. QED BY <1>1, SmallPowers

(* What Radix leaves of n, and its q without its bound. *)
RadixLeft(n, v) == (n + Pow2[v - 1]) \div Pow2[v]

IsRadixQ(Q, y, v) ==
  /\ Q \in [Nat -> Int] /\ Q[0] = y
  /\ \A k \in Nat : Q[k + 1] = RadixLeft(Q[k], v)

RadixQ(y, v) == CHOOSE Q : IsRadixQ(Q, y, v)

LEMMA RadixQExists ==
  ASSUME NEW y \in Int, NEW v \in Nat, v >= 1
  PROVE  IsRadixQ(RadixQ(y, v), y, v)
<1> DEFINE H == [k \in Nat |-> [n \in Int |-> RadixLeft(n, v)]]
<1>1. \A n \in Int : RadixLeft(n, v) \in Int
  BY SignedModFacts DEF RadixLeft
<1>2. H \in [Nat -> [Int -> Int]]
  BY <1>1
<1>3. \A k \in Nat, n \in Int : H[k][n] = RadixLeft(n, v)
  OBVIOUS
<1> HIDE DEF H
<1>4. PICK Q : Solves(Q, y, H)
  BY <1>2, NatRecursion
<1>5. IsRadixQ(Q, y, v)
  BY <1>3, <1>4 DEF Solves, IsRadixQ
<1>6. QED BY <1>5 DEF RadixQ

LEMMA RadixIsRadixQ ==
  ASSUME NEW y \in Int, NEW v \in Nat, v >= 1, NEW n \in Nat
  PROVE  \A k \in 0 .. n - 1 :
           Radix(y, v, n)[k] = IF k < n - 1 THEN SignedMod(RadixQ(y, v)[k], v)
                               ELSE RadixQ(y, v)[k]
<1> DEFINE D == 0 .. n - 1
           Body(f) == [k \in D |-> IF k = 0 THEN y ELSE RadixLeft(f[k - 1], v)]
           Q == RadixQ(y, v)
           g == [k \in D |-> Q[k]]
           q == CHOOSE f : f = Body(f)
<1>1. Q \in [Nat -> Int] /\ Q[0] = y /\ \A k \in Nat : Q[k + 1] = RadixLeft(Q[k], v)
  BY RadixQExists DEF IsRadixQ
<1> HIDE DEF Q
<1>2. g = Body(g)
  <2>1. ASSUME NEW k \in D PROVE g[k] = Body(g)[k]
    <3>1. CASE k = 0
      BY <1>1, <3>1
    <3>2. CASE k # 0
      <4>1. k - 1 \in Nat /\ k - 1 \in D /\ (k - 1) + 1 = k
        BY <3>2
      <4>2. Q[k] = RadixLeft(Q[k - 1], v)
        BY <1>1, <4>1
      <4>3. QED BY <3>2, <4>1, <4>2
    <3>3. QED BY <3>1, <3>2
  <2>2. QED BY <2>1
<1>3. q = Body(q)
  <2> HIDE DEF Body, g
  <2>1. QED BY <1>2
<1>4. Radix(y, v, n) = [k \in D |-> IF k < n - 1 THEN SignedMod(q[k], v) ELSE q[k]]
  BY DEF Radix, RadixLeft
<1> HIDE DEF q
<1> DEFINE T == {k \in Nat : k \in D => q[k] = Q[k]}
<1>5. 0 \in T
  BY <1>1, <1>3
<1>6. ASSUME NEW k \in Nat, k \in T PROVE k + 1 \in T
  <2>1. CASE k + 1 \in D
    <3>1. k \in D /\ (k + 1) - 1 = k /\ k + 1 # 0
      BY <2>1
    <3>2. q[k + 1] = RadixLeft(q[k], v)
      BY <1>3, <2>1, <3>1
    <3>3. QED BY <1>1, <1>6, <3>1, <3>2
  <2>2. CASE k + 1 \notin D
    BY <2>2
  <2>3. QED BY <2>1, <2>2
<1>7. Nat \subseteq T
  <2> HIDE DEF T
  <2>1. QED BY <1>5, <1>6, SetInduction
<1>8. \A k \in D : q[k] = Q[k]
  BY <1>7
<1>9. QED BY <1>4, <1>8 DEF Q

(* n is X with a carry, and m is what a window of v bits shows of it.      *)
Windowed(X, v, c, n, m) == c \in {0, 1} /\ n = c + X /\ m = c + (X % Pow2[v])

(* A window of v bits and a carry, recentered, pass on at most one.        *)
LEMMA Recentered ==
  ASSUME NEW X \in Int, NEW v \in Nat, v >= 1, NEW c, NEW n, NEW m, Windowed(X, v, c, n, m)
  PROVE  /\ RadixLeft(m, v) \in {0, 1}
         /\ RadixLeft(n, v) = RadixLeft(m, v) + (X \div Pow2[v])
<1> DEFINE p == Pow2[v]
           h == Pow2[v - 1]
           r == X % p
           Y == X \div p
           a == (c + X) + h
           b == (c + r) + h
<1>1. p = 2 * h /\ h \in Nat /\ h >= 1 /\ p \in Nat
  BY HalfPower, Pow2Def
<1>2. Y \in Int /\ r \in 0 .. p - 1 /\ X = p * Y + r
  BY DivFacts
<1>3. p * Y \in Int
  <2> HIDE DEF p, Y
  <2>1. QED BY <1>1, <1>2
<1> HIDE DEF r, Y, h, p
<1>4. a \in Int /\ b \in 0 .. 2 * p - 1 /\ a = b + p * Y
  <2>1. c \in {0, 1}
    BY DEF Windowed
  <2>2. QED BY <1>1, <1>2, <1>3, <2>1
<1> HIDE DEF a, b
<1>5. a \div p = (b \div p) + Y
  <2>1. a = b + Pow2[v] * Y /\ b \in Int
    BY <1>1, <1>4 DEF p
  <2>2. QED BY <1>2, <1>4, <2>1, DivShift DEF p
<1>6. b \div p \in {0, 1}
  <2>1. CASE b < p
    <3>1. b \in 0 .. p - 1 /\ b = p * 0 + b /\ b \in Int /\ p > 0
      BY <1>1, <1>4, <2>1
    <3>2. b \div p = 0
      BY <1>1, <3>1, DivUnique
    <3>3. QED BY <3>2
  <2>2. CASE ~ (b < p)
    <3> DEFINE s == b - p
    <3>1. s \in 0 .. p - 1 /\ b = p * 1 + s /\ b \in Int /\ p > 0
      BY <1>1, <1>4, <2>2
    <3> HIDE DEF s
    <3>2. b \div p = 1
      BY <1>1, <3>1, DivUnique
    <3>3. QED BY <3>2
  <2>3. QED BY <2>1, <2>2
<1>7. RadixLeft(n, v) = a \div p /\ RadixLeft(m, v) = b \div p
  BY DEF RadixLeft, Windowed, a, b, p, h, r
<1>8. QED BY <1>5, <1>6, <1>7 DEF r, Y, p

(* Radix's q is the scalar without its lower bits, or one more.            *)
LEMMA RadixQNear ==
  ASSUME NEW y \in Nat, NEW v \in Nat, v >= 1, NEW k \in Nat
  PROVE  \E c \in {0, 1} : RadixQ(y, v)[k] = c + (y \div Pow2[v * k])
<1> DEFINE Q == RadixQ(y, v)
           X(i) == y \div Pow2[v * i]
           T == {i \in Nat : \E c \in {0, 1} : Q[i] = c + X(i)}
<1>1. Q \in [Nat -> Int] /\ Q[0] = y /\ \A i \in Nat : Q[i + 1] = RadixLeft(Q[i], v)
  BY RadixQExists DEF IsRadixQ
<1> HIDE DEF Q
<1>2. 0 \in T
  <2>1. v * 0 = 0 /\ Pow2[0] = 1 /\ y \div 1 = y
    BY Pow2Def
  <2>2. Q[0] = 0 + X(0)
    BY <1>1, <2>1
  <2>3. QED BY <2>2
<1>3. ASSUME NEW i \in Nat, i \in T PROVE i + 1 \in T
  <2>1. PICK c \in {0, 1} : Q[i] = c + X(i)
    BY <1>3
  <2>2. v * i \in Nat /\ v * (i + 1) = v * i + v /\ y \in Int
    OBVIOUS
  <2>3. X(i) \in Int
    BY <2>2, DivFacts
  <2>4. X(i) \div Pow2[v] = X(i + 1)
    BY <2>2, DivTwice
  <2> DEFINE m == c + (X(i) % Pow2[v])
             b == RadixLeft(m, v)
  <2> HIDE DEF X
  <2>5. b \in {0, 1} /\ RadixLeft(Q[i], v) = b + (X(i) \div Pow2[v])
    <3>1. Windowed(X(i), v, c, Q[i], m)
      BY <2>1 DEF Windowed
    <3> HIDE DEF m
    <3>2. QED BY <2>3, <3>1, Recentered
  <2> HIDE DEF b
  <2>6. Q[i + 1] = b + X(i + 1)
    BY <1>1, <2>1, <2>4, <2>5
  <2>7. QED BY <2>5, <2>6
<1>4. Nat \subseteq T
  <2> HIDE DEF T
  <2>1. QED BY <1>2, <1>3, SetInduction
<1>5. QED BY <1>4 DEF Q

(* A number below a power of two has no higher bits. *)
LEMMA DivOfSmall ==
  ASSUME NEW y \in Nat, NEW n \in Nat, y < Pow2[n]
  PROVE  y \div Pow2[n] = 0
<1>1. Pow2[n] \in Nat /\ Pow2[n] >= 1
  BY Pow2Positive
<1>2. y = Pow2[n] * 0 + y /\ y \in 0 .. Pow2[n] - 1
  BY <1>1
<1>3. QED BY <1>1, <1>2, DivUnique

(* How many digits of v bits a scalar of B bits needs: no more than B \div 4 *)
(* in all, and only width 8 leaves room for one more.                      *)
LEMMA CountFacts ==
  ASSUME NEW B \in Nat, B >= 16, B % 8 = 0, B % 7 # 0, NEW v \in 4 .. 8,
         NEW d, d = (B + v - 1) \div v
  PROVE  /\ B \div 4 \in Nat /\ B \div 4 >= 4 /\ 4 * (B \div 4) = B
         /\ d \in Nat /\ d >= 2 /\ d <= B \div 4
         /\ v * d >= B
         /\ v * (d - 1) \in 0 .. B - 1
         /\ B - v * (d - 1) <= v
         /\ v = 4 => d = B \div 4
         /\ v = 7 => B - v * (d - 1) <= 6
         /\ v = 8 => d + 1 <= B \div 4
<1> DEFINE Size == B \div 4
<1>1. Size \in Nat /\ Size >= 4 /\ 4 * Size = B
  OBVIOUS
<1> HIDE DEF Size
<1>2. CASE v = 4
  <2>1. d = (B + 3) \div 4
    BY <1>2
  <2>2. d = Size
    BY <1>1, <2>1
  <2>3. QED BY <1>1, <1>2, <2>2 DEF Size
<1>3. CASE v = 5
  <2>1. d = (B + 4) \div 5
    BY <1>3
  <2>2. /\ d \in Nat /\ d >= 2 /\ 5 * d >= B /\ 5 * (d - 1) \in 0 .. B - 1
        /\ B - 5 * (d - 1) <= 5 /\ d <= Size
    BY <1>1, <2>1
  <2>3. QED BY <1>1, <1>3, <2>2 DEF Size
<1>4. CASE v = 6
  <2>1. d = (B + 5) \div 6
    BY <1>4
  <2>2. /\ d \in Nat /\ d >= 2 /\ 6 * d >= B /\ 6 * (d - 1) \in 0 .. B - 1
        /\ B - 6 * (d - 1) <= 6 /\ d <= Size
    BY <1>1, <2>1
  <2>3. QED BY <1>1, <1>4, <2>2 DEF Size
<1>5. CASE v = 7
  <2>1. d = (B + 6) \div 7
    BY <1>5
  <2>2. /\ d \in Nat /\ d >= 2 /\ 7 * d >= B /\ 7 * (d - 1) \in 0 .. B - 1
        /\ B - 7 * (d - 1) <= 7 /\ d <= Size
    BY <1>1, <2>1
  <2>3. B - 7 * (d - 1) # 7
    BY <2>2
  <2>4. QED BY <1>1, <1>5, <2>2, <2>3 DEF Size
<1>6. CASE v = 8
  <2>1. d = (B + 7) \div 8
    BY <1>6
  <2>2. /\ d \in Nat /\ d >= 2 /\ 8 * d >= B /\ 8 * (d - 1) \in 0 .. B - 1
        /\ B - 8 * (d - 1) <= 8 /\ d + 1 <= Size
    BY <1>1, <2>1
  <2>3. QED BY <1>1, <1>6, <2>2 DEF Size
<1>7. v = 4 \/ v = 5 \/ v = 6 \/ v = 7 \/ v = 8
  OBVIOUS
<1>8. QED BY <1>2, <1>3, <1>4, <1>5, <1>6, <1>7

(* The last digit of a window is not negative and at most half the radix;  *)
(* for width 7, where that would be too much with a carry, it is small.    *)
LEMMA LastQuotient ==
  ASSUME NEW B \in Nat, B >= 16, B % 8 = 0, B % 7 # 0, NEW v \in 4 .. 8,
         NEW d, d = (B + v - 1) \div v, NEW y \in Nat, y < Pow2[B - 1]
  PROVE  /\ RadixQ(y, v)[d - 1] \in 0 .. Pow2[v - 1]
         /\ v = 7 => RadixQ(y, v)[d - 1] \in 0 .. 32
         /\ RadixQ(y, v)[d] \in {0, 1}
<1> DEFINE m == v * (d - 1)
           n == B - 1 - m
           X == y \div Pow2[m]
           Q == RadixQ(y, v)
<1>1. B - 1 \in Nat /\ v \in Nat /\ v >= 1 /\ v - 1 \in Nat
  OBVIOUS
<1>2. /\ d \in Nat /\ d - 1 \in Nat /\ m \in 0 .. B - 1 /\ B - m <= v
      /\ v * d >= B /\ v * d \in Nat
      /\ v = 7 => B - m <= 6
  <2>1. /\ d \in Nat /\ d >= 2 /\ m \in 0 .. B - 1 /\ B - m <= v
        /\ v * d >= B /\ (v = 7 => B - m <= 6)
    BY CountFacts
  <2> HIDE DEF m
  <2>2. v * d \in Nat
    BY <1>1, <2>1
  <2>3. QED BY <2>1, <2>2
<1>3. /\ \E c \in {0, 1} : Q[d - 1] = c + X
      /\ \E c \in {0, 1} : Q[d] = c + (y \div Pow2[v * d])
  <2>1. \A k \in Nat : \E c \in {0, 1} : Q[k] = c + (y \div Pow2[v * k])
    BY <1>1, RadixQNear
  <2>2. QED BY <1>2, <2>1
<1> HIDE DEF m, Q
<1>4. n \in Nat /\ m \in Nat /\ m + n = B - 1 /\ n <= v - 1 /\ (v = 7 => n <= 5)
  BY <1>1, <1>2
<1> HIDE DEF n
<1>5. X \in 0 .. Pow2[n] - 1
  BY <1>1, <1>4, DivSmall
<1> HIDE DEF X
<1>6. Pow2[n] <= Pow2[v - 1] /\ Pow2[n] \in Nat /\ Pow2[v - 1] \in Nat
  BY <1>1, <1>4, Pow2Monotone, Pow2Def
<1>7. v = 7 => Pow2[n] <= 32
  <2>1. ASSUME v = 7 PROVE Pow2[n] <= Pow2[5]
    BY <1>4, <2>1, Pow2Monotone
  <2>2. QED BY <2>1, SmallPowers
<1>8. Q[d - 1] \in 0 .. Pow2[v - 1] /\ (v = 7 => Q[d - 1] \in 0 .. 32)
  BY <1>3, <1>5, <1>6, <1>7
<1>9. Q[d] \in {0, 1}
  <2>1. y < Pow2[v * d]
    <3>1. B - 1 <= v * d
      BY <1>1, <1>2
    <3>2. Pow2[B - 1] <= Pow2[v * d] /\ Pow2[B - 1] \in Nat /\ Pow2[v * d] \in Nat
      BY <1>1, <1>2, <3>1, Pow2Monotone, Pow2Def
    <3>3. QED BY <3>2
  <2>2. y \div Pow2[v * d] = 0
    BY <1>2, <2>1, DivOfSmall
  <2>3. QED BY <1>3, <2>2
<1>10. QED BY <1>8, <1>9 DEF Q

(* What one step of Naf does: an odd digit below 2^(v-1) or none.          *)
LEMMA NafStepFacts ==
  ASSUME NEW n \in Nat, NEW v \in Nat, v >= 2
  PROVE  /\ NafDigit(n, v) \in Int /\ NafLeft(n, v) \in Nat
         /\ n = NafDigit(n, v) + 2 * NafLeft(n, v)
         /\ NafDigit(n, v) # 0 =>
              /\ NafDigit(n, v) % 2 = 1
              /\ -Pow2[v - 1] < NafDigit(n, v) /\ NafDigit(n, v) < Pow2[v - 1]
<1> DEFINE h == Pow2[v - 1]
           p == Pow2[v]
           m == (n + h) \div p
           d == SignedMod(n, v)
<1>1. CASE n % 2 = 0
  BY <1>1 DEF NafDigit, NafLeft
<1>2. CASE n % 2 = 1
  <2>1. /\ h \in Nat /\ h % 2 = 0 /\ p = 2 * h /\ p \in Nat /\ p > 0
    <3>1. /\ v - 1 \in Nat /\ v - 2 \in Nat /\ (v - 1) + 1 = v /\ (v - 2) + 1 = v - 1
      OBVIOUS
    <3>2. p = 2 * h /\ h = 2 * Pow2[v - 2] /\ Pow2[v - 2] \in Nat /\ Pow2[v - 2] >= 1
      BY <3>1, Pow2Def, Pow2Positive
    <3>3. QED BY <3>2
  <2>2. d \in -h .. h - 1 /\ d = n - p * m /\ m \in Int
    <3>1. v >= 1 /\ n \in Int
      OBVIOUS
    <3>2. /\ SignedMod(n, v) \in -Pow2[v - 1] .. Pow2[v - 1] - 1
          /\ (n + Pow2[v - 1]) \div Pow2[v] \in Int
          /\ SignedMod(n, v) = n - Pow2[v] * ((n + Pow2[v - 1]) \div Pow2[v])
      <4> HIDE DEF h, p, m, d
      <4>1. QED BY <3>1, SignedModFacts
    <3>3. QED BY <3>2
  <2> HIDE DEF h, d
  <2>3. m \in Nat
    BY <2>1
  <2> HIDE DEF m, p
  <2>4. h * m \in Nat /\ p * m = 2 * (h * m)
    BY <2>1, <2>3
  <2>5. d % 2 = 1 /\ d # -h /\ (n - d) \div 2 = h * m
    BY <1>2, <2>1, <2>2, <2>4
  <2>6. NafDigit(n, v) = d /\ NafLeft(n, v) = (n - d) \div 2
    BY <1>2 DEF NafDigit, NafLeft, d
  <2>7. d \in Int /\ -h < d /\ d < h /\ n = d + 2 * (h * m)
    BY <2>1, <2>2, <2>4, <2>5
  <2>8. NafLeft(n, v) = h * m
    BY <2>5, <2>6
  <2>9. QED BY <2>4, <2>5, <2>6, <2>7, <2>8 DEF h
<1>3. QED BY <1>1, <1>2

(* A number of t bits, or 2^t, leaves at most half of that. *)
LEMMA NafLeftBound ==
  ASSUME NEW n \in Nat, NEW v \in Nat, v >= 2, NEW t \in Nat, n <= Pow2[t]
  PROVE  NafLeft(n, v) <= IF t = 0 THEN 0 ELSE Pow2[t - 1]
<1> DEFINE h == Pow2[v - 1]
           p == Pow2[v]
           m == (n + h) \div p
           b == Pow2[t]
<1>1. t > 0 => b = 2 * Pow2[t - 1] /\ Pow2[t - 1] \in Nat
  BY HalfPower
<1>2. t = 0 => b = 1
  BY Pow2Def
<1>3. CASE n % 2 = 0
  <2>1. NafLeft(n, v) = n \div 2
    BY <1>3 DEF NafDigit, NafLeft
  <2> HIDE DEF b
  <2>2. QED BY <1>1, <1>2, <1>3, <2>1 DEF b
<1>4. CASE n % 2 = 1
  <2>1. /\ h \in Nat /\ h % 2 = 0 /\ h > 0 /\ p = 2 * h /\ p \in Nat /\ p > 0
    <3>1. /\ v - 1 \in Nat /\ v - 2 \in Nat /\ (v - 1) + 1 = v /\ (v - 2) + 1 = v - 1
      OBVIOUS
    <3>2. p = 2 * h /\ h = 2 * Pow2[v - 2] /\ Pow2[v - 2] \in Nat /\ Pow2[v - 2] >= 1
      BY <3>1, Pow2Def, Pow2Positive
    <3>3. QED BY <3>2
  <2>2. NafLeft(n, v) = h * m
    <3>0. v >= 1
      OBVIOUS
    <3>1. NafDigit(n, v) = n - p * m
      <4>1. SignedMod(n, v) = n - p * m
        BY <3>0, SignedModFacts
      <4>2. QED BY <1>4, <4>1 DEF NafDigit
    <3>2. NafLeft(n, v) = (n - (n - p * m)) \div 2
      BY <3>1 DEF NafLeft
    <3>3. m \in Int
      BY <2>1
    <3> HIDE DEF h, p, m
    <3>4. p * m = 2 * (h * m) /\ h * m \in Int
      BY <2>1, <3>3
    <3>5. QED BY <3>2, <3>4
  <2>3. CASE t < v
    <3>1. b <= h /\ b \in Nat
      <4>1. t <= v - 1 /\ v - 1 \in Nat
        BY <2>3
      <4>2. QED BY <4>1, Pow2Monotone, Pow2Def
    <3>2. n <= h
      <4> HIDE DEF b, h
      <4>1. QED BY <2>1, <3>1 DEF b
    <3> HIDE DEF h, p
    <3>3. n # h
      BY <1>4, <2>1
    <3>4. n + h \in 0 .. p - 1
      BY <2>1, <3>2, <3>3
    <3>5. m = 0
      BY <2>1, <3>4
    <3>6. NafLeft(n, v) = 0
      BY <2>1, <2>2, <3>5
    <3>7. QED BY <1>1, <3>6
  <2>4. CASE t >= v
    <3> DEFINE q == Pow2[t - v]
    <3>1. b = p * q /\ Pow2[t - 1] = h * q /\ q \in Nat
      <4>1. t - v \in Nat /\ v + (t - v) = t /\ (v - 1) + (t - v) = t - 1 /\ v - 1 \in Nat
        BY <2>4
      <4>2. b = p * q
        BY <4>1, Pow2Sum
      <4>3. Pow2[t - 1] = h * q
        BY <4>1, Pow2Sum
      <4>4. q \in Nat
        BY <4>1, Pow2Def
      <4>5. QED BY <4>2, <4>3, <4>4
    <3>2. t # 0
      BY <2>4
    <3> HIDE DEF h, p, b, q
    <3>3. p * q + h < p * (q + 1) /\ n + h <= p * q + h
      BY <2>1, <3>1 DEF b
    <3>4. m <= q
      <4>1. n + h \in Nat /\ m \in Nat /\ p * m <= n + h
        BY <2>1
      <4>2. ASSUME m >= q + 1 PROVE FALSE
        <5>1. p * (q + 1) <= p * m
          BY <2>1, <3>1, <4>1, <4>2, MulMonotone
        <5> HIDE DEF m
        <5>2. p * (q + 1) \in Int /\ p * m \in Int /\ p * q + h \in Int
          BY <2>1, <3>1, <4>1
        <5>3. QED BY <3>3, <4>1, <5>1, <5>2
      <4>3. QED BY <3>1, <4>1, <4>2
    <3>5. m \in Int
      BY <2>1
    <3>6. h * m <= h * q
      BY <2>1, <3>1, <3>4, <3>5, MulMonotone
    <3>7. QED BY <2>2, <3>1, <3>2, <3>6
  <2>5. QED BY <2>3, <2>4
<1>5. QED BY <1>3, <1>4

(* Naf's k never gets negative, and is zero beyond place N for a scalar of *)
(* N bits: there is no digit there.                                        *)
LEMMA NafVanishes ==
  ASSUME NEW y \in Nat, NEW v \in Nat, v >= 2, NEW N \in Nat, y <= Pow2[N]
  PROVE  \A i \in Nat : NafK(y, v)[i] \in Nat /\ (i > N => NafK(y, v)[i] = 0)
<1> DEFINE K == NafK(y, v)
           T == {i \in Nat : /\ K[i] \in Nat
                             /\ i <= N => K[i] <= Pow2[N - i]
                             /\ i > N => K[i] = 0}
<1>1. K[0] = y /\ \A i \in Nat : K[i + 1] = NafLeft(K[i], v)
  <2>1. v >= 1
    OBVIOUS
  <2>2. QED BY <2>1, NafKExists DEF IsNafK
<1> HIDE DEF K
<1>2. 0 \in T
  BY <1>1
<1>3. ASSUME NEW i \in Nat, i \in T PROVE i + 1 \in T
  <2>1. K[i] \in Nat /\ K[i + 1] \in Nat
    <3>1. K[i] \in Nat
      BY <1>3
    <3>2. NafLeft(K[i], v) \in Nat
      BY <3>1, NafStepFacts
    <3>3. QED BY <1>1, <3>1, <3>2
  <2>2. CASE i <= N
    <3> DEFINE t == N - i
    <3>1. t \in Nat /\ K[i] <= Pow2[t]
      BY <1>3, <2>2
    <3>2. K[i + 1] <= IF t = 0 THEN 0 ELSE Pow2[t - 1]
      BY <1>1, <2>1, <3>1, NafLeftBound
    <3>3. t - 1 = N - (i + 1) /\ (t = 0 <=> ~ (i + 1 <= N))
      BY <2>2
    <3>4. QED BY <2>1, <3>2, <3>3
  <2>3. CASE i > N
    <3>1. K[i] = 0 /\ NafLeft(0, v) = 0
      BY <1>3, <2>3 DEF NafLeft, NafDigit
    <3>2. QED BY <1>1, <2>1, <2>3, <3>1
  <2>4. QED BY <2>2, <2>3
<1>4. Nat \subseteq T
  <2> HIDE DEF T
  <2>1. QED BY <1>2, <1>3, SetInduction
<1>5. QED BY <1>4 DEF K

(* The sum of shifted differences telescopes.                              *)
Differences(f, A, w, m, n) ==
  \A i \in Nat : i < n => f[i] = (A[i + m] - Pow2[w] * A[i + m + 1]) * Pow2[w * i]

LEMMA Telescopes ==
  ASSUME NEW w \in Nat, NEW A \in [Nat -> Int], NEW m \in Nat, NEW n \in Nat,
         NEW f \in [Nat -> Int], Differences(f, A, w, m, n)
  PROVE  Sum(f)[n] = A[m] - Pow2[w * n] * A[n + m]
<1> DEFINE S == Sum(f)
           T == {i \in Nat : i <= n => S[i] = A[m] - Pow2[w * i] * A[i + m]}
<1>1. S \in [Nat -> Int] /\ S[0] = 0 /\ \A i \in Nat : S[i + 1] = S[i] + f[i]
  BY SumDef
<1> HIDE DEF S
<1>2. 0 \in T
  <2>1. w * 0 = 0 /\ Pow2[0] = 1 /\ 0 + m = m /\ A[m] \in Int
    BY Pow2Def
  <2>2. QED BY <1>1, <2>1
<1>3. ASSUME NEW i \in Nat, i \in T PROVE i + 1 \in T
  <2>1. SUFFICES ASSUME i + 1 <= n PROVE S[i + 1] = A[m] - Pow2[w * (i + 1)] * A[i + 1 + m]
    OBVIOUS
  <2> DEFINE P == Pow2[w]
             R == Pow2[w * i]
             a == A[i + m]
             b == A[i + 1 + m]
  <2>2. /\ P \in Int /\ R \in Int /\ a \in Int /\ b \in Int /\ A[m] \in Int
        /\ Pow2[w * (i + 1)] = R * P
    <3>1. w * i \in Nat /\ w * (i + 1) = w * i + w
      OBVIOUS
    <3> DEFINE wi == w * i
    <3>2. wi \in Nat /\ w * (i + 1) = wi + w
      BY <3>1
    <3> HIDE DEF wi
    <3>3. Pow2[wi + w] = Pow2[wi] * P
      BY <3>2, Pow2Sum
    <3>4. P \in Int /\ Pow2[wi] \in Int
      BY <3>2, Pow2Def
    <3>5. QED BY <3>2, <3>3, <3>4 DEF wi
  <2>3. S[i] = A[m] - R * a /\ S[i + 1] = S[i] + f[i]
    BY <1>1, <1>3, <2>1
  <2>4. f[i] = (a - P * b) * R
    <3>1. i + m + 1 = i + 1 + m /\ i < n
      BY <2>1
    <3>2. QED BY <3>1 DEF Differences
  <2> HIDE DEF P, R, a, b
  <2>5. A[m] - R * a + (a - P * b) * R = A[m] - (R * P) * b
    BY <2>2
  <2>6. QED BY <2>2, <2>3, <2>4, <2>5 DEF b
<1>4. Nat \subseteq T
  <2> HIDE DEF T
  <2>1. QED BY <1>2, <1>3, SetInduction
<1>5. QED BY <1>4 DEF S

(* Radix's q while there are digits, and zero beyond the last one.         *)
RadixAbove(y, v, n) == [i \in Nat |-> IF i < n THEN RadixQ(y, v)[i] ELSE 0]

(* How many digits of v bits a scalar of B bits has.                       *)
RadixCount(B, v, d, n) ==
  /\ B \in Nat /\ B >= 16 /\ B % 8 = 0 /\ B % 7 # 0
  /\ d = (B + v - 1) \div v /\ n = IF v = 8 THEN d + 1 ELSE d

(* A row of n digits that are the differences of A, a sequence from y to   *)
(* zero, and fit a byte and a table.                                       *)
RadixRow(row, A, y, v, n) ==
  /\ A \in [Nat -> Int] /\ A[0] = y
  /\ \A i \in Nat : i >= n => A[i] = 0
  /\ row \in [0 .. n - 1 -> -128 .. 127]
  /\ \A i \in 0 .. n - 1 :
       /\ row[i] \in Int /\ row[i] = A[i] - Pow2[v] * A[i + 1]
       /\ row[i] \in -Pow2[v - 1] .. Pow2[v - 1]

(* The n digits of a scalar of B bits are such a row for q, the last one   *)
(* because q is cut after it.                                              *)
LEMMA RadixDigits ==
  ASSUME NEW B, NEW v \in 4 .. 8, NEW d, NEW n, RadixCount(B, v, d, n),
         NEW y \in Nat, y < Pow2[B - 1]
  PROVE  RadixRow(Radix(y, v, n), RadixAbove(y, v, n), y, v, n)
<1> DEFINE Q == RadixQ(y, v)
           A == RadixAbove(y, v, n)
           D == Radix(y, v, n)
           h == Pow2[v - 1]
<1>0. /\ B \in Nat /\ B >= 16 /\ B % 8 = 0 /\ B % 7 # 0 /\ d = (B + v - 1) \div v
      /\ n = IF v = 8 THEN d + 1 ELSE d
  BY DEF RadixCount
<1>1. v \in Nat /\ v >= 1 /\ v \in 2 .. 8 /\ y \in Int /\ d \in Nat /\ d >= 2 /\ n \in Nat /\ n >= 2
  <2>1. d \in Nat /\ d >= 2
    BY <1>0, CountFacts
  <2>2. QED BY <1>0, <2>1
<1>2. Q \in [Nat -> Int] /\ Q[0] = y /\ \A k \in Nat : Q[k + 1] = RadixLeft(Q[k], v)
  BY <1>1, RadixQExists DEF IsRadixQ
<1>3. /\ Q[d - 1] \in 0 .. h /\ (v = 7 => Q[d - 1] \in 0 .. 32)
      /\ Q[d] \in {0, 1}
  BY <1>0, LastQuotient
<1>4. \A i \in 0 .. n - 1 : D[i] = IF i < n - 1 THEN SignedMod(Q[i], v) ELSE Q[i]
  BY <1>1, RadixIsRadixQ
<1>5. h \in 2 .. 128 /\ (v # 8 => h <= 64)
  <2>1. h \in 2 .. 128
    BY <1>1, WidthFacts
  <2>2. ASSUME v # 8 PROVE h <= 64
    <3>1. v - 1 <= 6 /\ v - 1 \in Nat
      BY <1>1, <2>2
    <3>2. h <= Pow2[6]
      BY <3>1, Pow2Monotone
    <3>3. QED BY <3>2, SmallPowers
  <2>3. QED BY <2>1, <2>2
<1> HIDE DEF Q, h
<1>6. A \in [Nat -> Int] /\ A[0] = y
  BY <1>1, <1>2 DEF RadixAbove, Q
<1>7. \A i \in Nat : A[i] = IF i < n THEN Q[i] ELSE 0
  BY DEF RadixAbove, Q
<1>8. DOMAIN D = 0 .. n - 1 /\ D = [i \in 0 .. n - 1 |-> D[i]]
  BY DEF Radix
<1> HIDE DEF A, D
<1>9. ASSUME NEW i \in 0 .. n - 1
      PROVE  /\ D[i] = A[i] - Pow2[v] * A[i + 1]
             /\ D[i] \in -h .. h /\ D[i] \in -128 .. 127
  <2>1. i \in Nat /\ i + 1 \in Nat /\ Q[i] \in Int /\ A[i] = Q[i]
    BY <1>1, <1>2, <1>7
  <2>2. CASE i < n - 1
    <3>1. A[i + 1] = RadixLeft(Q[i], v)
      BY <1>1, <1>2, <1>7, <2>1, <2>2
    <3>2. /\ SignedMod(Q[i], v) \in -h .. h - 1
          /\ SignedMod(Q[i], v) = Q[i] - Pow2[v] * RadixLeft(Q[i], v)
      BY <1>1, <2>1, SignedModFacts DEF RadixLeft, h
    <3>3. D[i] = SignedMod(Q[i], v)
      BY <1>4, <2>2
    <3>4. D[i] = A[i] - Pow2[v] * A[i + 1]
      BY <2>1, <3>1, <3>2, <3>3
    <3>5. D[i] \in -h .. h - 1
      BY <3>2, <3>3
    <3>6. QED BY <1>5, <3>4, <3>5
  <2>3. CASE i = n - 1
    <3>1. D[i] = Q[i] /\ A[i + 1] = 0
      BY <1>1, <1>4, <1>7, <2>1, <2>3
    <3>2. D[i] \in 0 .. h /\ D[i] <= 64
      BY <1>0, <1>1, <1>3, <1>5, <2>3, <3>1
    <3>3. Pow2[v] \in Int
      BY <1>1, Pow2Def
    <3>4. QED BY <1>5, <2>1, <3>1, <3>2, <3>3
  <2>4. QED BY <1>1, <2>2, <2>3
<1>10. D \in [0 .. n - 1 -> -128 .. 127]
  BY <1>8, <1>9
<1>11. \A i \in 0 .. n - 1 : D[i] \in Int
  <2>1. \A i \in 0 .. n - 1 : D[i] \in -128 .. 127
    BY <1>9
  <2>2. QED BY <2>1
<1>12. \A i \in Nat : i >= n => A[i] = 0
  BY <1>1, <1>7
<1>13. RadixRow(D, A, y, v, n)
  <2> HIDE DEF A, D
  <2>1. \A i \in 0 .. n - 1 :
          /\ D[i] \in Int /\ D[i] = A[i] - Pow2[v] * A[i + 1]
          /\ D[i] \in -Pow2[v - 1] .. Pow2[v - 1]
    BY <1>9, <1>11, Zenon DEF h
  <2>2. QED BY <1>6, <1>10, <1>12, <2>1, Zenon DEF RadixRow
<1>14. QED BY <1>13 DEF A, D

(* The digits of a non-adjacent form are the differences of k, which is    *)
(* zero from the last place on.                                            *)
LEMMA NafDigits ==
  ASSUME NEW bits \in Nat, bits >= 1, NEW v \in 2 .. 8, NEW y \in Nat, y < Pow2[bits - 1]
  PROVE  /\ NafK(y, v) \in [Nat -> Int] /\ NafK(y, v)[0] = y
         /\ \A i \in Nat : i >= bits => NafK(y, v)[i] = 0
         /\ Naf(y, v, bits) \in [0 .. bits - 1 -> -128 .. 127]
         /\ \A i \in 0 .. bits - 1 :
              /\ Naf(y, v, bits)[i] = NafK(y, v)[i] - Pow2[1] * NafK(y, v)[i + 1]
              /\ Naf(y, v, bits)[i] # 0 =>
                   /\ Naf(y, v, bits)[i] % 2 = 1
                   /\ -Pow2[v - 1] < Naf(y, v, bits)[i]
                   /\ Naf(y, v, bits)[i] < Pow2[v - 1]
<1> DEFINE K == NafK(y, v)
           D == Naf(y, v, bits)
           h == Pow2[v - 1]
           N == bits - 1
<1>1. /\ v \in Nat /\ v >= 2 /\ v >= 1 /\ y \in Int /\ N \in Nat /\ y <= Pow2[N]
      /\ h \in 2 .. 128 /\ Pow2[1] = 2
  <2>1. v \in Nat /\ v >= 2 /\ v >= 1 /\ y \in Int /\ N \in Nat
    OBVIOUS
  <2>2. Pow2[N] \in Nat
    BY <2>1, Pow2Def
  <2>3. h \in 2 .. 128
    BY WidthFacts
  <2>4. QED BY <2>1, <2>2, <2>3, SmallPowers
<1>2. K \in [Nat -> Int] /\ K[0] = y /\ \A i \in Nat : K[i + 1] = NafLeft(K[i], v)
  BY <1>1, NafKExists DEF IsNafK
<1>3. \A i \in Nat : K[i] \in Nat /\ (i > N => K[i] = 0)
  BY <1>1, NafVanishes
<1>4. D = [i \in 0 .. bits - 1 |-> NafDigit(K[i], v)]
  BY <1>1, NafIsNafK
<1> HIDE DEF K, h
<1>5. ASSUME NEW i \in 0 .. bits - 1
      PROVE  /\ D[i] = K[i] - Pow2[1] * K[i + 1]
             /\ D[i] # 0 => D[i] % 2 = 1 /\ -h < D[i] /\ D[i] < h
             /\ D[i] \in -128 .. 127
  <2>1. K[i] \in Nat /\ K[i + 1] \in Nat /\ K[i + 1] = NafLeft(K[i], v)
    BY <1>2, <1>3
  <2>2. /\ NafDigit(K[i], v) \in Int
        /\ K[i] = NafDigit(K[i], v) + 2 * NafLeft(K[i], v)
        /\ NafDigit(K[i], v) # 0 =>
             NafDigit(K[i], v) % 2 = 1 /\ -h < NafDigit(K[i], v) /\ NafDigit(K[i], v) < h
    BY <1>1, <2>1, NafStepFacts DEF h
  <2>3. D[i] = NafDigit(K[i], v)
    BY <1>4
  <2> HIDE DEF D
  <2>4. QED BY <1>1, <2>1, <2>2, <2>3
<1>6. D \in [0 .. bits - 1 -> -128 .. 127]
  BY <1>4, <1>5
<1>7. \A i \in Nat : i >= bits => K[i] = 0
  BY <1>3
<1> HIDE DEF D
<1>8. QED BY <1>2, <1>5, <1>6, <1>7 DEF K, D, h

(* If k is zero at place b and there are no digits from a on, it is zero   *)
(* at a.                                                                   *)
LEMMA NafSkipsZeros ==
  ASSUME NEW K \in [Nat -> Int], NEW a \in Nat, NEW b \in Nat, a <= b, K[b] = 0,
         \A i \in a .. b - 1 : K[i] - 2 * K[i + 1] = 0
  PROVE  K[a] = 0
<1> DEFINE T == {n \in Nat : b - n >= a => K[b - n] = 0}
<1>1. 0 \in T
  BY b - 0 = b
<1>2. ASSUME NEW n \in Nat, n \in T PROVE n + 1 \in T
  <2>1. SUFFICES ASSUME b - (n + 1) >= a PROVE K[b - (n + 1)] = 0
    OBVIOUS
  <2> DEFINE i == b - (n + 1)
  <2>2. i \in a .. b - 1 /\ i + 1 = b - n /\ i + 1 >= a
    BY <2>1
  <2>3. K[i + 1] = 0 /\ K[i] - 2 * K[i + 1] = 0 /\ K[i] \in Int
    BY <1>2, <2>2
  <2>4. QED BY <2>3
<1>3. Nat \subseteq T
  <2> HIDE DEF T
  <2>1. QED BY <1>1, <1>2, SetInduction
<1>4. b - a \in T /\ b - (b - a) = a
  BY <1>3
<1>5. QED BY <1>4
=============================================================================

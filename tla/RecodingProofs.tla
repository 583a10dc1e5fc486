--------------------------- MODULE RecodingProofs ---------------------------
(***************************************************************************)
(* Proofs about module Numbers' recodings of a scalar.                     *)
(*                                                                         *)
(* What the recodings compute is defined by recursion, over the places of  *)
(* Naf and the digits of Radix. The sequences that solve these recurrences *)
(* for all naturals, NafK and RadixQ, exist by NatRecursion, and the       *)
(* recursive functions agree with them on their finite domains. An         *)
(* inductive invariant then ties the state of each scan to them: what is   *)
(* not read yet and the carry are NafK or RadixQ at the place reached, the *)
(* digits written are theirs, and the sum of the digits and the rest is    *)
(* the scalar. That the sum is kept is an identity on one changed digit,   *)
(* DigitSumUpdate.                                                         *)
(*                                                                         *)
(* BitBufIsWindow is the lemma about limbs: a window read from one limb or *)
(* from two is the one of the scalar itself.                               *)
(***************************************************************************)
EXTENDS Numbers, PowersProofs

(* A smaller modulus does not see multiples of a larger one either. *)
LEMMA SmallerModulus ==
  ASSUME NEW a \in Int, NEW b \in Int, NEW n \in Nat, NEW v \in 0 .. n,
         NEW k \in Int, a = b + Pow2[n] * k
  PROVE  a % Pow2[v] = b % Pow2[v]
<1>1. v \in Nat /\ n - v \in Nat /\ v + (n - v) = n
  OBVIOUS
<1> DEFINE c == Pow2[n - v] * k
<1>2. c \in Int /\ Pow2[n] * k = Pow2[v] * c
  <2>1. Pow2[n] = Pow2[v] * Pow2[n - v]
    BY <1>1, Pow2Sum
  <2>2. Pow2[v] \in Int /\ Pow2[n - v] \in Int
    BY <1>1, Pow2Def
  <2>3. QED BY <2>1, <2>2
<1> HIDE DEF c
<1>3. a = b + Pow2[v] * c
  BY <1>2
<1>4. QED BY <1>1, <1>2, <1>3, DivShift

(* A quotient by 2^b of what is left of X modulo 2^n. *)
LEMMA DivOfRemainder ==
  ASSUME NEW X \in Nat, NEW n \in Nat, NEW b \in 0 .. n
  PROVE  X \div Pow2[b] = ((X % Pow2[n]) \div Pow2[b]) + Pow2[n - b] * (X \div Pow2[n])
<1>1. b \in Nat /\ n - b \in Nat /\ b + (n - b) = n /\ X \in Int
  OBVIOUS
<1> DEFINE A == X \div Pow2[n]
           R == X % Pow2[n]
           c == Pow2[n - b] * A
<1>2. A \in Int /\ R \in Int /\ X = R + Pow2[n] * A
  <2>1. A \in Int /\ R \in 0 .. Pow2[n] - 1 /\ X = Pow2[n] * A + R
    BY <1>1, DivFacts
  <2>2. Pow2[n] \in Nat
    BY Pow2Def
  <2> HIDE DEF A, R
  <2>3. Pow2[n] * A \in Int
    BY <2>1, <2>2
  <2>4. QED BY <2>1, <2>2, <2>3
<1>3. c \in Int /\ Pow2[n] * A = Pow2[b] * c
  <2> HIDE DEF A
  <2>1. Pow2[n] = Pow2[b] * Pow2[n - b]
    BY <1>1, Pow2Sum
  <2>2. Pow2[b] \in Int /\ Pow2[n - b] \in Int
    BY <1>1, Pow2Def
  <2>3. QED BY <1>2, <2>1, <2>2
<1>4. X = R + Pow2[b] * c
  BY <1>2, <1>3
<1> HIDE DEF c, R
<1>5. X \div Pow2[b] = (R \div Pow2[b]) + c
  BY <1>1, <1>2, <1>3, <1>4, DivShift
<1>6. QED BY <1>5 DEF c, R, A

(* A window that ends within the limb. *)
LEMMA WindowOfLimb ==
  ASSUME NEW X \in Nat, NEW n \in Nat, NEW b \in Nat, NEW v \in Nat, b + v <= n
  PROVE  ((X % Pow2[n]) \div Pow2[b]) % Pow2[v] = (X \div Pow2[b]) % Pow2[v]
<1> DEFINE A == X \div Pow2[n]
           lo == (X % Pow2[n]) \div Pow2[b]
           hi == X \div Pow2[b]
<1>1. b \in 0 .. n /\ n - b \in Nat /\ v \in 0 .. n - b
  OBVIOUS
<1>2. hi = lo + Pow2[n - b] * A
  BY <1>1, DivOfRemainder
<1>3. A \in Int /\ hi \in Int /\ lo \in Int
  <2>1. X \in Int /\ X % Pow2[n] \in Int
    BY DivFacts, Pow2Def
  <2>2. QED BY <2>1, DivFacts
<1> HIDE DEF A, lo, hi
<1>4. hi % Pow2[v] = lo % Pow2[v]
  BY <1>1, <1>2, <1>3, SmallerModulus
<1>5. QED BY <1>4 DEF lo, hi

(* A window that takes bits of the next limb.                              *)
LEMMA WindowOfTwoLimbs ==
  ASSUME NEW X \in Nat, NEW n \in Nat, NEW b \in 0 .. n, NEW v \in 0 .. n
  PROVE  (((X % Pow2[n]) \div Pow2[b])
            + ((((X \div Pow2[n]) % Pow2[n]) * Pow2[n - b]) % Pow2[n])) % Pow2[v]
           = (X \div Pow2[b]) % Pow2[v]
<1> DEFINE A  == X \div Pow2[n]
           A1 == A % Pow2[n]
           A2 == A \div Pow2[n]
           u  == Pow2[n - b]
           s  == A1 * u
           t  == s \div Pow2[n]
           s1 == s % Pow2[n]
           lo == (X % Pow2[n]) \div Pow2[b]
           hi == X \div Pow2[b]
           p  == Pow2[n]
           k  == -(A2 * u + t)
<1>1. hi = lo + u * A
  BY DivOfRemainder
<1>2. n - b \in Nat /\ b \in Nat /\ v \in Nat /\ X \in Int
  OBVIOUS
<1>3. A \in Int /\ hi \in Int /\ lo \in Int /\ u \in Int /\ p \in Int
  <2>1. X % Pow2[n] \in Int
    BY <1>2, DivFacts, Pow2Def
  <2>2. lo \in Int
    BY <1>2, <2>1, DivFacts
  <2>3. A \in Int /\ hi \in Int
    BY <1>2, DivFacts
  <2>4. u \in Int /\ p \in Int
    BY <1>2, Pow2Def
  <2>5. QED BY <2>2, <2>3, <2>4
<1>4. A1 \in Int /\ A2 \in Int /\ A = p * A2 + A1
  <2> HIDE DEF A
  <2>1. A % Pow2[n] \in 0 .. Pow2[n] - 1
    BY <1>3, DivFacts
  <2>2. QED BY <1>3, <2>1, DivFacts
<1> HIDE DEF A, A1, A2, u
<1>5. s \in Int
  BY <1>3, <1>4
<1> HIDE DEF s
<1>6. t \in Int /\ s1 \in Int /\ s = p * t + s1
  <2>1. s % Pow2[n] \in 0 .. Pow2[n] - 1
    BY <1>5, DivFacts
  <2>2. QED BY <1>3, <1>5, <2>1, DivFacts
<1> HIDE DEF t, s1, lo, hi
<1>7. s = u * A + p * (-(A2 * u))
  <2> HIDE DEF p
  <2>1. s = A1 * u
    BY DEF s
  <2>2. A1 = A - p * A2
    <3>1. p * A2 \in Int
      BY <1>3, <1>4
    <3>2. QED BY <1>3, <1>4, <3>1
  <2>3. (A - p * A2) * u = u * A + p * (-(A2 * u))
    BY <1>3, <1>4
  <2>4. QED BY <2>1, <2>2, <2>3
<1>8. k \in Int /\ p * k = p * (-(A2 * u)) - p * t
  <2> HIDE DEF p
  <2>1. A2 * u \in Int
    BY <1>3, <1>4
  <2> DEFINE m == A2 * u
  <2> HIDE DEF m
  <2>2. m \in Int
    BY <2>1 DEF m
  <2>3. -(m + t) \in Int /\ p * (-(m + t)) = p * (-m) - p * t
    BY <1>3, <1>6, <2>2
  <2>4. QED BY <2>3 DEF m
<1> HIDE DEF k, p
<1>9. lo + s1 = hi + p * k
  <2>1. u * A \in Int /\ p * (-(A2 * u)) \in Int /\ p * t \in Int /\ p * k \in Int
    BY <1>3, <1>4, <1>6, <1>8
  <2> DEFINE uA == u * A
             pm == p * (-(A2 * u))
             pt == p * t
             pk == p * k
  <2> HIDE DEF uA, pm, pt, pk
  <2>2. hi = lo + uA /\ s = pt + s1 /\ s = uA + pm /\ pk = pm - pt
    BY <1>1, <1>6, <1>7, <1>8 DEF uA, pm, pt, pk
  <2>3. uA \in Int /\ pm \in Int /\ pt \in Int /\ pk \in Int
    BY <2>1 DEF uA, pm, pt, pk
  <2>4. lo + s1 = hi + pk
    BY <1>3, <1>6, <2>2, <2>3
  <2>5. QED BY <2>4 DEF pk
<1>10. (lo + s1) % Pow2[v] = hi % Pow2[v]
  <2>1. lo + s1 \in Int /\ lo + s1 = hi + Pow2[n] * k
    BY <1>3, <1>6, <1>9 DEF p
  <2>2. QED BY <1>3, <1>8, <2>1, SmallerModulus
<1>11. QED BY <1>10 DEF lo, s1, s, A1, A, u, hi
-----------------------------------------------------------------------------
(* The windows that the code cuts out of limbs are those of the scalar.    *)
LEMMA BitBufIsWindow ==
  ASSUME x \in Nat, x < Pow2[Bits], w \in 2 .. 8, NEW pos \in Nat, NEW one \in BOOLEAN,
         one => pos \div LimbBits = Limbs - 1
  PROVE  BitBuf(pos, one) % Pow2[w] = (x \div Pow2[pos]) % Pow2[w]
<1> DEFINE LB  == LimbBits
           u   == pos \div LB
           bit == pos % LB
           m   == LB * u
           X   == x \div Pow2[m]
           lo  == x_u64(u) \div Pow2[bit]
           hi  == (x_u64(u + 1) * Pow2[LB - bit]) % Pow2[LB]
<1>1. LB \in Nat /\ LB > 8 /\ Limbs \in Nat /\ Limbs > 0
  BY RecodingAssumption
<1>2. u \in Nat /\ bit \in 0 .. LB - 1 /\ pos = LB * u + bit
  <2>1. u \in Int /\ bit \in 0 .. LB - 1 /\ pos = LB * u + bit
    BY <1>1
  <2>2. ASSUME u < 0 PROVE FALSE
    <3> HIDE DEF u, bit
    <3>1. LB * u <= LB * (-1)
      BY <1>1, <2>1, <2>2, MulMonotone
    <3>2. LB * (-1) = -LB /\ LB * u \in Int
      BY <1>1, <2>1
    <3>3. QED BY <1>1, <2>1, <3>1, <3>2
  <2>3. QED BY <2>1, <2>2
<1>3. BitBuf(pos, one) = IF bit < LB - w \/ one THEN lo ELSE lo + hi
  BY DEF BitBuf
<1> HIDE DEF LB, u, bit
<1>4. m \in Nat /\ bit \in Nat /\ w \in Nat /\ w \in 0 .. LB /\ bit \in 0 .. LB /\ x \in Int
  <2>1. LB * u \in Nat
    BY <1>1, <1>2
  <2>2. QED BY <1>1, <1>2, <2>1
<1> HIDE DEF m
<1>5. X \in Nat /\ X \div Pow2[bit] = x \div Pow2[pos]
  <2>1. X \in Int /\ X >= 0
    <3>1. x >= 0 /\ x \in Int
      OBVIOUS
    <3>2. X \in Int
      BY <1>4, <3>1, DivFacts
    <3>3. X >= 0
      BY <1>4, <3>1, DivFacts
    <3>4. QED BY <3>2, <3>3
  <2>2. X \div Pow2[bit] = x \div Pow2[m + bit]
    BY <1>4, DivTwice
  <2>3. QED BY <1>2, <2>1, <2>2 DEF m
<1>6. x_u64(u) = X % Pow2[LB]
  BY DEF x_u64, LB, m
<1>7. x_u64(u + 1) = (X \div Pow2[LB]) % Pow2[LB]
  <2>1. LB * (u + 1) = LB * u + LB
    BY <1>1, <1>2
  <2>2. X \div Pow2[LB] = x \div Pow2[m + LB]
    BY <1>1, <1>4, DivTwice
  <2>3. x_u64(u + 1) = (x \div Pow2[LB * (u + 1)]) % Pow2[LB]
    BY DEF x_u64, LB
  <2>4. QED BY <2>1, <2>2, <2>3 DEF m
<1>8. CASE bit < LB - w
  <2>1. bit + w <= LB
    BY <1>1, <1>4, <1>8
  <2> HIDE DEF X
  <2>2. ((X % Pow2[LB]) \div Pow2[bit]) % Pow2[w] = (X \div Pow2[bit]) % Pow2[w]
    BY <1>1, <1>4, <1>5, <2>1, WindowOfLimb
  <2>3. QED BY <1>3, <1>5, <1>6, <1>8, <2>2
<1>9. CASE one
  <2>1. m + LB = Bits
    <3>1. u = Limbs - 1
      BY <1>9 DEF u, LB
    <3>2. LB * (Limbs - 1) + LB = LB * Limbs
      BY <1>1
    <3>3. QED BY <3>1, <3>2 DEF Bits, LB, m
  <2>2. X \in 0 .. Pow2[LB] - 1
    BY <1>1, <1>4, <2>1, DivSmall
  <2> HIDE DEF X
  <2>3. X % Pow2[LB] = X
    <3> DEFINE p == Pow2[LB]
    <3>1. p \in Nat /\ p > 0
      BY <1>1, Pow2Positive
    <3>2. X \in 0 .. p - 1
      BY <2>2
    <3> HIDE DEF p
    <3>3. X = p * 0 + X
      BY <3>1, <3>2
    <3>4. X % p = X
      BY <3>1, <3>2, <3>3, DivUnique
    <3>5. QED BY <3>4 DEF p
  <2>4. QED BY <1>3, <1>5, <1>6, <1>9, <2>3
<1>10. CASE ~ (bit < LB - w) /\ ~ one
  <2> HIDE DEF X
  <2>1. (((X % Pow2[LB]) \div Pow2[bit])
            + ((((X \div Pow2[LB]) % Pow2[LB]) * Pow2[LB - bit]) % Pow2[LB])) % Pow2[w]
           = (X \div Pow2[bit]) % Pow2[w]
    BY <1>1, <1>4, <1>5, WindowOfTwoLimbs
  <2>2. BitBuf(pos, one) = lo + hi
    BY <1>3, <1>10
  <2>3. QED BY <1>5, <1>6, <1>7, <2>1, <2>2
<1>11. QED BY <1>8, <1>9, <1>10

(* Storing a digit as i8 loses nothing. *)
LEMMA ToI8Small ==
  ASSUME NEW n \in -128 .. 127
  PROVE  ToI8(n) = n
BY DEF ToI8

LEMMA ToI8Difference ==
  ASSUME NEW a \in 0 .. 256, NEW b \in 0 .. 256, a - b \in -128 .. 127
  PROVE  ToI8(ToI8(a) - ToI8(b)) = a - b
<1>1. ToI8(a) \in Int /\ (ToI8(a) = a \/ ToI8(a) = a - 256)
  BY DEF ToI8
<1>2. ToI8(b) \in Int /\ (ToI8(b) = b \/ ToI8(b) = b - 256)
  BY DEF ToI8
<1>3. QED BY <1>1, <1>2 DEF ToI8
-----------------------------------------------------------------------------
(* An even number gives the digit zero and is halved. *)
LEMMA NafHalves ==
  ASSUME NEW y \in Int, NEW v \in Nat, v >= 1, NEW i \in Nat, NEW m \in Int,
         NafK(y, v)[i] = 2 * m
  PROVE  NafDigit(NafK(y, v)[i], v) = 0 /\ NafK(y, v)[i + 1] = m
<1> DEFINE K == NafK(y, v)
<1>1. K[i + 1] = NafLeft(K[i], v)
  BY NafKExists DEF IsNafK
<1>2. (2 * m) % 2 = 0 /\ (2 * m - 0) \div 2 = m
  OBVIOUS
<1>3. QED BY <1>1, <1>2 DEF NafLeft, NafDigit

(* Without its digit, n is 2^v * M. *)
Leaves(n, v, M) ==
  NafDigit(n, v) \in Int /\ n = NafDigit(n, v) + Pow2[v] * M

(* An odd one gives a digit, after which v - 1 zeros follow.               *)
LEMMA NafSkips ==
  ASSUME NEW y \in Int, NEW v \in Nat, v >= 1, NEW i \in Nat, NEW M \in Int,
         Leaves(NafK(y, v)[i], v, M)
  PROVE  /\ NafK(y, v)[i + v] = M
         /\ \A j \in 1 .. v - 1 : NafDigit(NafK(y, v)[i + j], v) = 0
<1> DEFINE K == NafK(y, v)
           T == {j \in Nat : j < v => K[i + (j + 1)] = Pow2[v - (j + 1)] * M}
<1>1. K \in [Nat -> Int] /\ \A l \in Nat : K[l + 1] = NafLeft(K[l], v)
  BY NafKExists DEF IsNafK
<1>2. 0 \in T
  <2> DEFINE g == NafDigit(K[i], v)
             h == Pow2[v - 1]
  <2>1. K[i] = g + Pow2[v] * M /\ g \in Int /\ K[i] \in Int
    BY <1>1 DEF Leaves
  <2>2. Pow2[v] = 2 * h /\ h \in Nat
    BY HalfPower
  <2>3. K[i + 1] = (K[i] - g) \div 2
    BY <1>1 DEF NafLeft
  <2> HIDE DEF g, h, K
  <2>4. K[i] - g = 2 * (h * M) /\ h * M \in Int
    BY <2>1, <2>2
  <2>5. K[i + 1] = h * M
    BY <2>3, <2>4
  <2>6. QED BY <2>5 DEF h
<1>3. ASSUME NEW j \in Nat, j \in T, j + 1 < v
      PROVE  /\ NafDigit(K[i + (j + 1)], v) = 0
             /\ K[i + ((j + 1) + 1)] = Pow2[v - ((j + 1) + 1)] * M
  <2> DEFINE l == v - ((j + 1) + 1)
             m == Pow2[l] * M
  <2>1. l \in Nat /\ v - (j + 1) = l + 1 /\ i + (j + 1) \in Nat
        /\ i + ((j + 1) + 1) = (i + (j + 1)) + 1
    BY <1>3
  <2> HIDE DEF l
  <2>2. Pow2[l + 1] = 2 * Pow2[l] /\ Pow2[l] \in Nat
    BY <2>1, Pow2Def
  <2>3. K[i + (j + 1)] = Pow2[l + 1] * M
    BY <1>3, <2>1
  <2>4. m \in Int /\ Pow2[l + 1] * M = 2 * m
    BY <2>2
  <2> HIDE DEF m
  <2>5. NafDigit(K[i + (j + 1)], v) = 0 /\ K[(i + (j + 1)) + 1] = m
    BY <2>1, <2>3, <2>4, NafHalves
  <2>6. QED BY <2>1, <2>5 DEF m, l
<1>4. \A j \in Nat : j \in T => j + 1 \in T
  BY <1>3
<1>5. Nat \subseteq T
  <2> HIDE DEF T
  <2>1. QED BY <1>2, <1>4, SetInduction
<1>6. K[i + v] = M
  <2>1. v - 1 \in T /\ v - 1 \in Nat /\ (v - 1) + 1 = v /\ v - v = 0 /\ v - 1 < v
    BY <1>5
  <2>2. K[i + v] = Pow2[0] * M
    BY <2>1
  <2>3. QED BY <2>2, Pow2Def
<1>7. ASSUME NEW j \in 1 .. v - 1
      PROVE  NafDigit(K[i + j], v) = 0
  <2>1. j - 1 \in Nat /\ j - 1 \in T /\ (j - 1) + 1 = j /\ (j - 1) + 1 < v
    BY <1>5
  <2> HIDE DEF T, K
  <2>2. QED BY <1>3, <2>1
<1>8. QED BY <1>6, <1>7

-----------------------------------------------------------------------------
(* What the scan of non_adjacent_form keeps: it has the reference's k for  *)
(* the rest of the scalar and the carry into it,                           *)
NafScan ==
  /\ carry + (x \div Pow2[at]) = NafK(x, w)[at]
  /\ carry = 1 => at > 0 /\ Pow2[at - 1] <= x

(* the digits below are the reference's and the others are zero,           *)
NafWritten ==
  \A i \in 0 .. Bits - 1 :
    digits[i] = IF i < at THEN NafDigit(NafK(x, w)[i], w) ELSE 0

(* each is odd, short, and followed by zeros the scan has passed,          *)
NafSpread ==
  \A i \in 0 .. Bits - 1 : digits[i] # 0 =>
    /\ i + w <= at
    /\ digits[i] % 2 = 1 /\ digits[i] < Pow2[w - 1] /\ -digits[i] < Pow2[w - 1]
    /\ \A j \in i + 1 .. Bits - 1 : j < i + w => digits[j] = 0
    /\ i > 0 => Pow2[i - 1] <= x

(* and together with the rest they are the scalar.                         *)
NafSum == x = DigitSum(digits, 1, Bits) + NafK(x, w)[at] * Pow2[at]

NafInv ==
  /\ x \in Scalars /\ carry \in {0, 1} /\ NafTypeOK
  /\ NafScan /\ NafWritten /\ NafSpread /\ NafSum

LEMMA BitsFacts ==
  /\ Bits \in Nat /\ Bits >= 16 /\ Bits - 1 \in Nat
  /\ \A y \in Scalars : y \in Nat /\ y < Pow2[Bits - 1] /\ y < Pow2[Bits]
<1>1. Bits \in Nat /\ Bits >= 16
  <2>1. LimbBits \in Nat /\ Limbs \in Nat /\ Bits >= 16
    BY RecodingAssumption
  <2>2. LimbBits * Limbs \in Nat
    BY <2>1
  <2>3. QED BY <2>1, <2>2 DEF Bits
<1>2. Bits - 1 \in Nat /\ Pow2[Bits - 1] \in Nat /\ Pow2[Bits] = 2 * Pow2[Bits - 1]
  BY <1>1, HalfPower
<1>3. Scalars \subseteq 0 .. Pow2[Bits - 1] - 1
  BY RecodingAssumption
<1> HIDE DEF Bits
<1>4. QED BY <1>1, <1>2, <1>3

LEMMA QuotientPositive ==
  ASSUME NEW y \in Nat, NEW n \in Nat, NEW m \in Nat, m <= y \div Pow2[n]
  PROVE  Pow2[n] * m <= y
<1> DEFINE p == Pow2[n]
           q == y \div p
           r == y % p
<1>1. p \in Nat
  BY Pow2Def
<1>2. q \in Int /\ r \in 0 .. p - 1 /\ y = p * q + r
  BY DivFacts
<1> HIDE DEF p, r
<1>3. p * m <= p * q
  <2>1. m <= q /\ 0 <= p /\ m \in Int /\ p \in Int
    BY <1>1 DEF p
  <2> HIDE DEF q
  <2>2. QED BY <1>2, <2>1, MulMonotone
<1>4. p * m \in Int /\ p * q \in Int
  BY <1>1, <1>2
<1>5. p * m <= y
  <2> HIDE DEF q
  <2>1. QED BY <1>1, <1>2, <1>3, <1>4
<1>6. QED BY <1>5 DEF p

LEMMA NafWindow ==
  ASSUME NafInv, at < Bits
  PROVE  /\ x \in Nat /\ at \in Nat /\ w \in 2 .. 8 /\ w \in Nat /\ w >= 1
         /\ window \in 0 .. Pow2[w] /\ (x \div Pow2[at + w]) \in Nat
         /\ x \div Pow2[at] = (window - carry) + Pow2[w] * (x \div Pow2[at + w])
         /\ NafK(x, w)[at] = window + Pow2[w] * (x \div Pow2[at + w])
         /\ window - carry \in 0 .. Pow2[w] - 1
<1>1. x \in Nat /\ x \in Int /\ x < Pow2[Bits] /\ at \in Nat /\ w \in 2 .. 8 /\ carry \in {0, 1}
  <2>1. Widths \subseteq 2 .. 8
    BY RecodingAssumption
  <2>2. x \in Scalars /\ w \in Widths /\ at \in 0 .. Bits + w - 1 /\ carry \in {0, 1}
    BY DEF NafInv, NafTypeOK
  <2>3. QED BY <2>1, <2>2, BitsFacts
<1> DEFINE X == x \div Pow2[at]
           Y == x \div Pow2[at + w]
           W == X % Pow2[w]
           p == Pow2[w]
<1>2. w \in Nat /\ w >= 1 /\ at + w \in Nat
  BY <1>1
<1>3. X \in Int /\ Y \in Int /\ Y >= 0
  <2>1. x >= 0
    BY <1>1
  <2>2. QED BY <1>1, <1>2, <2>1, DivFacts
<1>4. window = carry + W
  <2>1. BitBuf(at, FALSE) % Pow2[w] = (x \div Pow2[at]) % Pow2[w]
    BY <1>1, BitBufIsWindow
  <2>2. QED BY <2>1 DEF window
<1>5. X \div Pow2[w] = Y
  BY <1>1, <1>2, DivTwice
<1> HIDE DEF X, Y
<1>6. W \in 0 .. p - 1 /\ X = p * Y + W /\ p \in Nat
  BY <1>2, <1>3, <1>5, DivFacts, Pow2Def
<1>7. p * Y \in Int
  BY <1>3, <1>6
<1>8. NafK(x, w)[at] = carry + X
  BY DEF NafInv, NafScan, X
<1> HIDE DEF p, W
<1>9. window \in 0 .. p /\ window - carry \in 0 .. p - 1
  BY <1>1, <1>4, <1>6
<1>10. X = (window - carry) + p * Y
  BY <1>1, <1>4, <1>6, <1>7
<1>11. NafK(x, w)[at] = window + p * Y
  BY <1>1, <1>4, <1>6, <1>7, <1>8
<1>12. QED BY <1>1, <1>2, <1>3, <1>9, <1>10, <1>11 DEF p, X, Y

LEMMA NafEvenStep ==
  ASSUME NafInv, Even
  PROVE  NafInv'
<1>1. /\ at < Bits /\ window % 2 = 0 /\ at' = at + 1
      /\ x' = x /\ w' = w /\ carry' = carry /\ digits' = digits
  BY DEF Even
<1> DEFINE K == NafK(x, w)
           X == x \div Pow2[at]
           Y == x \div Pow2[at + w]
           h == Pow2[w - 1]
           m == (window \div 2) + h * Y
<1>2. /\ x \in Nat /\ at \in Nat /\ w \in 2 .. 8 /\ w \in Nat /\ w >= 1
      /\ window \in 0 .. Pow2[w] /\ Y \in Nat
      /\ K[at] = window + Pow2[w] * Y
  BY <1>1, NafWindow
<1>3. Pow2[w] = 2 * h /\ h \in Nat /\ Pow2[w] \in Nat
  BY <1>2, WidthFacts
<1>4. /\ x \in Scalars /\ carry \in {0, 1} /\ w \in Widths /\ at \in 0 .. Bits + w - 1
      /\ digits \in [0 .. Bits - 1 -> -128 .. 127]
      /\ carry + X = K[at]
  BY DEF NafInv, NafTypeOK, NafScan
<1>5. X \in Int /\ Bits \in Nat /\ x \in Int
  BY <1>2, BitsFacts, DivFacts
<1> HIDE DEF K, X, Y, h
<1>6. m \in Int /\ K[at] = 2 * m
  <2>1. h * Y \in Int /\ Pow2[w] * Y = 2 * (h * Y)
    BY <1>2, <1>3
  <2>2. window \in Int /\ window = 2 * (window \div 2) /\ (window \div 2) \in Int
    <3>1. window \in Int
      BY <1>2, <1>3
    <3> HIDE DEF window
    <3>2. QED BY <3>1, <1>1
  <2> HIDE DEF window
  <2> DEFINE hY == h * Y
  <2>3. hY \in Int /\ K[at] = window + 2 * hY
    BY <1>2, <2>1
  <2> HIDE DEF hY
  <2>4. (window \div 2) + hY \in Int /\ K[at] = 2 * ((window \div 2) + hY)
    BY <2>2, <2>3
  <2>5. QED BY <2>4 DEF hY
<1> HIDE DEF m
<1>7. NafDigit(K[at], w) = 0 /\ K[at + 1] = m
  <2>1. x \in Int /\ NafK(x, w)[at] = 2 * m
    BY <1>5, <1>6 DEF K
  <2>2. QED BY <1>2, <1>6, <2>1, NafHalves DEF K
<1>8. m = carry + (x \div Pow2[at + 1])
  <2>1. X \div Pow2[1] = x \div Pow2[at + 1]
    BY <1>2, <1>5, DivTwice DEF X
  <2>2. Pow2[1] = 2
    BY SmallPowers
  <2>3. m = carry + (X \div 2)
    BY <1>4, <1>5, <1>6
  <2>4. QED BY <2>1, <2>2, <2>3
<1>9. NafScan'
  <2>1. ASSUME carry = 1 PROVE Pow2[at] <= x
    <3>1. 1 <= X
      <4>1. X >= 0
        BY <1>2, <1>5, DivFacts DEF X
      <4>2. QED BY <1>4, <1>5, <1>6, <2>1, <4>1
    <3>2. Pow2[at] * 1 <= x
      BY <1>2, <3>1, QuotientPositive DEF X
    <3>3. Pow2[at] \in Nat
      BY <1>2, Pow2Def
    <3>4. QED BY <3>2, <3>3
  <2>2. at + 1 > 0 /\ (at + 1) - 1 = at
    BY <1>2
  <2>3. carry' + (x' \div Pow2[at']) = NafK(x', w')[at']
    BY <1>1, <1>7, <1>8 DEF K
  <2>4. carry' = 1 => at' > 0 /\ Pow2[at' - 1] <= x'
    BY <1>1, <2>1, <2>2
  <2>5. QED BY <2>3, <2>4 DEF NafScan
<1>10. NafWritten'
  <2>1. ASSUME NEW i \in 0 .. Bits - 1
        PROVE  digits[i] = IF i < at + 1 THEN NafDigit(K[i], w) ELSE 0
    <3>1. digits[i] = IF i < at THEN NafDigit(K[i], w) ELSE 0
      BY DEF NafInv, NafWritten, K
    <3>2. i < at + 1 <=> i < at \/ i = at
      BY <1>2
    <3>3. QED BY <1>7, <3>1, <3>2
  <2>2. QED BY <1>1, <2>1 DEF NafWritten, K
<1>11. NafSpread'
  <2>1. \A i \in 0 .. Bits - 1 : i + w <= at => i + w <= at + 1
    BY <1>2
  <2>2. NafSpread
    BY DEF NafInv
  <2>3. QED BY <1>1, <2>1, <2>2 DEF NafSpread
<1>12. NafSum'
  <2>1. Pow2[at + 1] = 2 * Pow2[at] /\ Pow2[at] \in Int
    BY <1>2, Pow2Def
  <2>2. (2 * m) * Pow2[at] = m * Pow2[at + 1]
    BY <1>6, <2>1
  <2>3. x = DigitSum(digits, 1, Bits) + K[at] * Pow2[at]
    BY DEF NafInv, NafSum, K
  <2>4. x = DigitSum(digits, 1, Bits) + K[at + 1] * Pow2[at + 1]
    BY <1>6, <1>7, <2>2, <2>3
  <2>5. QED BY <1>1, <2>4 DEF NafSum, K
<1>13. NafTypeOK'
  <2>1. at + 1 \in 0 .. Bits + w - 1
    BY <1>1, <1>2, <1>5
  <2>2. QED BY <1>1, <1>4, <2>1 DEF NafTypeOK
<1>14. QED BY <1>1, <1>4, <1>9, <1>10, <1>11, <1>12, <1>13 DEF NafInv

(* Positive and Negative in one: an odd window is a digit, less 2^w if it  *)
(* is in the upper half.                                                   *)
NafOdd ==
  /\ at < Bits /\ window % 2 = 1
  /\ carry' = (IF window < Pow2[w - 1] THEN 0 ELSE 1)
  /\ digits' = [digits EXCEPT ![at] = IF window < Pow2[w - 1] THEN window
                                      ELSE window - Pow2[w]]
  /\ at' = at + w
  /\ UNCHANGED <<method, x, w, done>>

LEMMA OddSteps ==
  ASSUME NafInv, Positive \/ Negative
  PROVE  NafOdd
<1>1. at < Bits /\ window % 2 = 1 /\ at' = at + w /\ UNCHANGED <<method, x, w, done>>
  BY DEF Positive, Negative
<1>2. w \in 2 .. 8 /\ window \in 0 .. Pow2[w]
  BY <1>1, NafWindow
<1>3. Pow2[w] \in 4 .. 256 /\ Pow2[w - 1] \in 2 .. 128 /\ Pow2[w] = 2 * Pow2[w - 1]
  BY <1>2, WidthFacts
<1>4. CASE Positive
  <2>1. /\ window < Pow2[w - 1] /\ carry' = 0
        /\ digits' = [digits EXCEPT ![at] = ToI8(window)]
    BY <1>4 DEF Positive
  <2> HIDE DEF window
  <2>2. ToI8(window) = window
    <3>1. window \in -128 .. 127
      BY <1>2, <1>3, <2>1
    <3>2. QED BY <3>1, ToI8Small
  <2>3. QED BY <1>1, <2>1, <2>2 DEF NafOdd
<1>5. CASE Negative
  <2>1. /\ window >= Pow2[w - 1] /\ carry' = 1
        /\ digits' = [digits EXCEPT ![at] = ToI8(ToI8(window) - ToI8(Pow2[w]))]
    BY <1>5 DEF Negative
  <2> HIDE DEF window
  <2> DEFINE a == window
             b == Pow2[w]
             h == Pow2[w - 1]
  <2>2. a \in 0 .. 256 /\ b \in 0 .. 256 /\ a - b \in -128 .. 127 /\ ~ (a < h)
    <3>1. a \in 0 .. b /\ b \in 4 .. 256 /\ h \in 2 .. 128 /\ b = 2 * h /\ a >= h
      BY <1>2, <1>3, <2>1
    <3>2. b # a
      <4>1. b % 2 = 0
        BY <3>1
      <4>2. a % 2 = 1
        BY <1>1
      <4>3. QED BY <4>1, <4>2
    <3> HIDE DEF a, b, h
    <3>3. QED BY <3>1, <3>2
  <2>3. ToI8(ToI8(a) - ToI8(b)) = a - b
    <3> HIDE DEF a, b, h
    <3>1. QED BY <2>2, ToI8Difference
  <2>4. QED BY <1>1, <2>1, <2>2, <2>3 DEF NafOdd
<1>6. QED BY <1>4, <1>5

LEMMA NafOddStep ==
  ASSUME NafInv, NafOdd
  PROVE  NafInv'
<1> DEFINE W == window
           K == NafK(x, w)
           X == x \div Pow2[at]
           Y == x \div Pow2[at + w]
           h == Pow2[w - 1]
           p == Pow2[w]
           c == IF W < h THEN 0 ELSE 1
           g == IF W < h THEN W ELSE W - p
           M == Y + c
<1>1. /\ at < Bits /\ W % 2 = 1 /\ at' = at + w
      /\ x' = x /\ w' = w /\ carry' = c
      /\ digits' = [digits EXCEPT ![at] = g]
  BY DEF NafOdd
<1>2. /\ x \in Nat /\ at \in Nat /\ w \in 2 .. 8 /\ w \in Nat /\ w >= 1
      /\ W \in 0 .. p /\ Y \in Nat
      /\ X = (W - carry) + p * Y
      /\ K[at] = W + p * Y
      /\ W - carry \in 0 .. p - 1
  BY <1>1, NafWindow
<1>3. p \in 4 .. 256 /\ h \in 2 .. 128 /\ p = 2 * h /\ h % 2 = 0
  BY <1>2, WidthFacts
<1>4. /\ x \in Scalars /\ carry \in {0, 1} /\ w \in Widths /\ at \in 0 .. Bits + w - 1
      /\ digits \in [0 .. Bits - 1 -> -128 .. 127]
      /\ carry = 1 => at > 0 /\ Pow2[at - 1] <= x
  BY DEF NafInv, NafTypeOK, NafScan
<1>5. X \in Int /\ Bits \in Nat /\ x \in Int /\ at + w \in Nat /\ p * Y \in Nat
  <2>1. \A a, b \in Nat : a * b \in Nat
    OBVIOUS
  <2>2. p \in Nat
    BY <1>3
  <2>3. X \in Int
    BY <1>2, DivFacts
  <2> HIDE DEF X, Y, p
  <2>4. QED BY <1>2, <2>1, <2>2, <2>3, BitsFacts
<1>6. W < p /\ NafDigit(K[at], w) = g
  <2>1. K[at] \in Int
    <3>1. W \in Int
      BY <1>2, <1>3
    <3> HIDE DEF W, p, Y
    <3>2. QED BY <1>2, <1>5, <3>1
  <2>2. W \in 0 .. Pow2[w] /\ K[at] = W + Pow2[w] * Y /\ Y \in Int
    BY <1>2
  <2> HIDE DEF K, W, Y
  <2>3. W < Pow2[w] /\ NafDigit(K[at], w) = IF W < Pow2[w - 1] THEN W ELSE W - Pow2[w]
    BY <1>1, <1>2, <2>1, <2>2, OddWindow
  <2>4. QED BY <2>3
<1> HIDE DEF W, K, X, Y, h, p
<1>7. /\ c \in {0, 1} /\ g \in Int /\ M \in Int
      /\ g % 2 = 1 /\ g < h /\ -g < h /\ g \in -128 .. 127
  <2>1. W # h
    BY <1>1, <1>3
  <2>2. c \in {0, 1} /\ g \in Int /\ M \in Int
    BY <1>2, <1>3
  <2>3. g < h /\ -g < h /\ g \in -128 .. 127
    BY <1>2, <1>3, <1>6, <2>1
  <2>4. g % 2 = 1
    BY <1>1, <1>2, <1>3
  <2>5. QED BY <2>2, <2>3, <2>4
<1>8. K[at] = g + p * M
  <2>1. p * M = p * Y + p * c /\ p * c = (IF W < h THEN 0 ELSE p)
    <3>1. p \in Int /\ Y \in Int
      BY <1>2, <1>3
    <3>2. p * (Y + 0) = p * Y + p * 0 /\ p * (Y + 1) = p * Y + p * 1 /\ p * 0 = 0 /\ p * 1 = p
      BY <3>1
    <3>3. QED BY <3>2
  <2>2. QED BY <1>2, <1>3, <1>5, <2>1
<1> HIDE DEF c, g, M
<1>9. K[at + w] = M /\ \A j \in 1 .. w - 1 : NafDigit(K[at + j], w) = 0
  <2>1. Leaves(NafK(x, w)[at], w, M)
    BY <1>6, <1>7, <1>8 DEF K, p, Leaves
  <2>2. x \in Int /\ w \in Nat /\ w >= 1 /\ at \in Nat /\ M \in Int
    BY <1>2, <1>5, <1>7
  <2>3. NafK(x, w)[at + w] = M
    BY <2>1, <2>2, NafSkips
  <2>4. \A j \in 1 .. w - 1 : NafDigit(NafK(x, w)[at + j], w) = 0
    BY <2>1, <2>2, NafSkips
  <2>5. QED BY <2>3, <2>4 DEF K
<1>10. ASSUME at > 0 PROVE Pow2[at - 1] <= x
  <2>1. CASE carry = 1
    BY <1>4, <2>1
  <2>2. CASE carry = 0
    <3>1. 1 <= X
      <4>1. W >= 1
        BY <1>1, <1>2, <1>3
      <4>2. QED BY <1>2, <1>3, <1>5, <2>2, <4>1
    <3>2. Pow2[at] * 1 <= x
      BY <1>2, <3>1, QuotientPositive DEF X
    <3>3. at - 1 \in Nat /\ at - 1 <= at
      BY <1>2, <1>10
    <3>4. Pow2[at - 1] <= Pow2[at] /\ Pow2[at] \in Nat /\ Pow2[at - 1] \in Nat
      BY <1>2, <3>3, Pow2Monotone, Pow2Def
    <3>5. QED BY <1>2, <3>2, <3>4
  <2>3. QED BY <1>4, <2>1, <2>2
<1>11. ASSUME c = 1 PROVE Pow2[(at + w) - 1] <= x
  <2>1. h <= X
    <3>1. W >= h
      BY <1>2, <1>3, <1>11 DEF c
    <3>2. W - carry >= h
      BY <1>1, <1>2, <1>3, <1>4, <3>1
    <3>3. QED BY <1>2, <1>3, <1>5, <3>2
  <2>2. Pow2[at] * h <= x
    <3>1. h \in Nat
      BY <1>3
    <3>2. QED BY <1>2, <2>1, <3>1, QuotientPositive DEF X
  <2>3. (at + w) - 1 = at + (w - 1) /\ w - 1 \in Nat
    BY <1>2
  <2>4. Pow2[at + (w - 1)] = Pow2[at] * h
    BY <1>2, <2>3, Pow2Sum DEF h
  <2>5. QED BY <2>2, <2>3, <2>4
<1>12. NafScan'
  <2>1. carry' + (x' \div Pow2[at']) = NafK(x', w')[at']
    <3>1. Y + c = c + Y
      BY <1>2, <1>7
    <3>2. QED BY <1>1, <1>9, <3>1 DEF K, M, Y
  <2>2. carry' = 1 => at' > 0 /\ Pow2[at' - 1] <= x'
    BY <1>1, <1>2, <1>11
  <2>3. QED BY <2>1, <2>2 DEF NafScan
<1>13. NafTypeOK'
  <2>1. at + w \in 0 .. Bits + w - 1
    BY <1>1, <1>2, <1>5
  <2>2. digits' \in [0 .. Bits - 1 -> -128 .. 127]
    BY <1>1, <1>4, <1>7
  <2>3. QED BY <1>1, <1>4, <2>1, <2>2 DEF NafTypeOK
<1>14. at \in 0 .. Bits - 1
  BY <1>1, <1>2, <1>5
<1>15. \A i \in 0 .. Bits - 1 : digits'[i] = IF i = at THEN g ELSE digits[i]
  BY <1>1, <1>4
<1>16. \A i \in 0 .. Bits - 1 : digits[i] = IF i < at THEN NafDigit(K[i], w) ELSE 0
  BY DEF NafInv, NafWritten, K
<1>17. NafWritten'
  <2>1. ASSUME NEW i \in 0 .. Bits - 1
        PROVE  digits'[i] = IF i < at + w THEN NafDigit(K[i], w) ELSE 0
    <3>1. CASE i < at
      <4>1. i < at + w /\ i # at
        BY <1>2, <3>1
      <4>2. QED BY <1>15, <1>16, <3>1, <4>1
    <3>2. CASE i = at
      <4>1. i < at + w
        BY <1>2, <3>2
      <4>2. QED BY <1>6, <1>15, <3>2, <4>1
    <3>3. CASE at < i /\ i < at + w
      <4>1. i - at \in 1 .. w - 1 /\ at + (i - at) = i
        BY <1>2, <3>3
      <4>2. NafDigit(K[i], w) = 0
        BY <1>9, <4>1
      <4>3. ~ (i < at) /\ i # at
        BY <1>2, <3>3
      <4>4. QED BY <1>15, <1>16, <3>3, <4>2, <4>3
    <3>4. CASE at + w <= i
      <4>1. ~ (i < at) /\ i # at /\ ~ (i < at + w)
        BY <1>2, <3>4
      <4>2. QED BY <1>15, <1>16, <4>1
    <3>5. QED BY <1>2, <3>1, <3>2, <3>3, <3>4
  <2>2. QED BY <1>1, <2>1 DEF NafWritten, K
<1>18. NafSpread'
  <2>1. ASSUME NEW i \in 0 .. Bits - 1, digits'[i] # 0
        PROVE  /\ i + w <= at + w
               /\ digits'[i] % 2 = 1 /\ digits'[i] < h /\ -digits'[i] < h
               /\ \A j \in i + 1 .. Bits - 1 : j < i + w => digits'[j] = 0
               /\ i > 0 => Pow2[i - 1] <= x
    <3>1. CASE i = at
      <4>1. digits'[i] = g
        BY <1>15, <3>1
      <4>2. ASSUME NEW j \in i + 1 .. Bits - 1 PROVE digits'[j] = 0
        <5>1. j \in 0 .. Bits - 1 /\ j # at /\ ~ (j < at)
          BY <1>2, <3>1
        <5>2. QED BY <1>15, <1>16, <5>1
      <4>3. i + w <= at + w
        BY <1>2, <3>1
      <4>4. QED BY <1>7, <1>10, <3>1, <4>1, <4>2, <4>3
    <3>2. CASE i # at
      <4>1. digits'[i] = digits[i] /\ digits[i] # 0
        BY <1>15, <2>1, <3>2
      <4>2. /\ i + w <= at
            /\ digits[i] % 2 = 1 /\ digits[i] < h /\ -digits[i] < h
            /\ \A j \in i + 1 .. Bits - 1 : j < i + w => digits[j] = 0
            /\ i > 0 => Pow2[i - 1] <= x
        BY <4>1 DEF NafInv, NafSpread, h
      <4>3. ASSUME NEW j \in i + 1 .. Bits - 1, j < i + w PROVE digits'[j] = 0
        <5>1. j \in 0 .. Bits - 1 /\ j # at
          BY <1>2, <4>2, <4>3
        <5>2. digits[j] = 0
          BY <4>2, <4>3
        <5>3. QED BY <1>15, <5>1, <5>2
      <4>4. i + w <= at + w
        BY <1>2, <4>2
      <4>5. QED BY <4>1, <4>2, <4>3, <4>4
    <3>3. QED BY <3>1, <3>2
  <2>2. QED BY <1>1, <2>1 DEF NafSpread, h
<1>19. NafSum'
  <2> DEFINE S == DigitSum(digits, 1, Bits)
             b == Pow2[at]
  <2>1. digits \in [0 .. Bits - 1 -> Int] /\ \A i \in 0 .. Bits - 1 : digits[i] \in Int
    <3>1. -128 .. 127 \subseteq Int
      OBVIOUS
    <3>2. QED BY <1>4, <3>1
  <2>2. S \in Int
    BY <1>5, <2>1, DigitSumType
  <2>3. digits[at] = 0
    BY <1>2, <1>14, <1>16
  <2>4. DigitSum(digits', 1, Bits) = S + (g - digits[at]) * Pow2[1 * at]
    <3>1. OneChanged(digits', digits, Bits, at, g)
      BY <1>15, <2>1 DEF OneChanged
    <3>2. g \in Int /\ Bits \in Nat
      BY <1>5, <1>7
    <3>3. \A v \in Nat :
            DigitSum(digits', v, Bits)
              = DigitSum(digits, v, Bits) + (g - digits[at]) * Pow2[v * at]
      BY <1>14, <3>1, <3>2, DigitSumUpdate
    <3> DEFINE one == 1
    <3>4. one \in Nat
      OBVIOUS
    <3> HIDE DEF one
    <3>5. DigitSum(digits', one, Bits)
            = DigitSum(digits, one, Bits) + (g - digits[at]) * Pow2[one * at]
      BY <3>3, <3>4
    <3>6. QED BY <3>5 DEF one
  <2>5. 1 * at = at /\ b \in Int
    BY <1>2, Pow2Def
  <2>6. Pow2[at + w] = b * p
    BY <1>2, Pow2Sum DEF p
  <2>7. x = S + (g + p * M) * b
    BY <1>8 DEF NafInv, NafSum, K
  <2>8. DigitSum(digits', 1, Bits) = S + g * b
    <3> HIDE DEF b, S
    <3>1. g - digits[at] = g
      BY <1>7, <2>3
    <3>2. QED BY <2>4, <2>5, <3>1 DEF b
  <2> HIDE DEF S, b
  <2>9. x = (S + g * b) + M * (b * p)
    <3>1. p \in Int
      BY <1>3
    <3>2. (g + p * M) * b = g * b + M * (b * p) /\ g * b \in Int /\ M * (b * p) \in Int
      BY <1>7, <2>5, <3>1
    <3>3. QED BY <2>2, <2>7, <3>2
  <2>10. x = DigitSum(digits', 1, Bits) + K[at + w] * Pow2[at + w]
    BY <1>9, <2>6, <2>8, <2>9
  <2>11. QED BY <1>1, <2>10 DEF NafSum, K
<1>20. x' \in Scalars /\ carry' \in {0, 1}
  BY <1>1, <1>4, <1>7
<1>21. QED BY <1>12, <1>13, <1>17, <1>18, <1>19, <1>20 DEF NafInv

LEMMA DivBySize ==
  ASSUME NEW n \in Nat, n >= Bits, NEW y \in Scalars
  PROVE  y \div Pow2[n] = 0
<1>1. y \in Nat /\ y < Pow2[Bits] /\ Bits \in Nat
  BY BitsFacts
<1>2. Pow2[Bits] <= Pow2[n] /\ Pow2[n] \in Nat /\ Pow2[Bits] \in Nat
  BY <1>1, Pow2Monotone, Pow2Def
<1> DEFINE p == Pow2[n]
<1>3. y \in 0 .. p - 1 /\ p \in Nat /\ p > 0 /\ y \in Int
  BY <1>1, <1>2
<1> HIDE DEF p
<1>4. y = p * 0 + y
  BY <1>3
<1>5. y \div p = 0
  BY <1>3, <1>4, DivUnique
<1>6. QED BY <1>5 DEF p

LEMMA NafStarts ==
  ASSUME NafInit
  PROVE  NafInv
<1>1. /\ x \in Scalars /\ w \in Widths /\ at = 0 /\ carry = 0
      /\ digits = [i \in 0 .. Bits - 1 |-> 0]
  BY DEF NafInit
<1>2. w \in 2 .. 8 /\ w \in Nat /\ w >= 1 /\ x \in Nat /\ x \in Int /\ Bits \in Nat
  <2>1. Widths \subseteq 2 .. 8
    BY RecodingAssumption
  <2>2. QED BY <1>1, <2>1, BitsFacts
<1>3. NafK(x, w)[0] = x /\ Pow2[0] = 1
  BY <1>2, NafKExists, Pow2Def DEF IsNafK
<1>4. NafScan
  <2>1. 0 + (x \div 1) = x
    BY <1>2
  <2>2. QED BY <1>1, <1>3, <2>1 DEF NafScan
<1>5. NafWritten
  <2>1. \A i \in 0 .. Bits - 1 : ~ (i < 0)
    OBVIOUS
  <2>2. QED BY <1>1, <2>1 DEF NafWritten
<1>6. NafSpread
  BY <1>1 DEF NafSpread
<1>7. NafSum
  <2>1. DigitSum(digits, 1, Bits) = 0
    <3>1. \A i \in 0 .. Bits - 1 : digits[i] = 0
      BY <1>1
    <3>2. 1 \in Nat
      OBVIOUS
    <3>3. QED BY <1>2, <3>1, <3>2, DigitSumZero
  <2>2. x = 0 + x * 1
    BY <1>2
  <2>3. QED BY <1>1, <1>3, <2>1, <2>2 DEF NafSum
<1>8. NafTypeOK
  <2>1. at \in 0 .. Bits + w - 1
    BY <1>1, <1>2
  <2>2. digits \in [0 .. Bits - 1 -> -128 .. 127]
    BY <1>1
  <2>3. QED BY <1>1, <2>1, <2>2 DEF NafTypeOK
<1>9. QED BY <1>1, <1>4, <1>5, <1>6, <1>7, <1>8 DEF NafInv

(* What the properties say of a non-adjacent form follows. *)
LEMMA NafConcludes ==
  ASSUME NafInv
  PROVE  NafTypeOK /\ NafExpansion /\ NafMatches /\ NafFits
<1>1. /\ x \in Scalars /\ carry \in {0, 1} /\ w \in 2 .. 8 /\ at \in 0 .. Bits + w - 1
      /\ digits \in [0 .. Bits - 1 -> -128 .. 127]
  <2>1. Widths \subseteq 2 .. 8
    BY RecodingAssumption
  <2>2. QED BY <2>1 DEF NafInv, NafTypeOK
<1>2. /\ x \in Nat /\ x \in Int /\ w \in Nat /\ w >= 1 /\ at \in Nat /\ Bits \in Nat
      /\ Bits - 1 \in Nat /\ x < Pow2[Bits - 1]
  BY <1>1, BitsFacts
<1>3. NafExpansion
  <2>1. x = DigitSum(digits, 1, Bits) + (carry + x \div Pow2[at]) * Pow2[at]
    BY DEF NafInv, NafScan, NafSum
  <2>2. ASSUME at >= Bits PROVE carry = 0 /\ x \div Pow2[at] = 0
    <3>1. ASSUME carry = 1 PROVE FALSE
      <4>1. at - 1 \in Nat /\ Bits - 1 <= at - 1
        BY <1>2, <2>2
      <4>2. Pow2[at - 1] <= x
        BY <3>1 DEF NafInv, NafScan
      <4>3. Pow2[Bits - 1] <= Pow2[at - 1] /\ Pow2[at - 1] \in Nat /\ Pow2[Bits - 1] \in Nat
        BY <1>2, <4>1, Pow2Monotone, Pow2Def
      <4>4. QED BY <1>2, <4>2, <4>3
    <3>2. QED BY <1>1, <1>2, <2>2, <3>1, DivBySize
  <2>3. CASE at >= Bits
    <3>1. (0 + 0) * Pow2[at] = 0
      BY <1>2, Pow2Def
    <3>2. QED BY <2>1, <2>2, <2>3, <3>1 DEF NafExpansion
  <2>4. CASE ~ (at >= Bits)
    BY <2>1, <2>4 DEF NafExpansion
  <2>5. QED BY <2>3, <2>4
<1>4. NafMatches
  <2>1. SUFFICES ASSUME at >= Bits PROVE digits = Naf(x, w, Bits)
    BY DEF NafMatches
  <2>2. Naf(x, w, Bits) = [i \in 0 .. Bits - 1 |-> NafDigit(NafK(x, w)[i], w)]
    BY <1>2, NafIsNafK
  <2>3. ASSUME NEW i \in 0 .. Bits - 1 PROVE digits[i] = NafDigit(NafK(x, w)[i], w)
    <3>1. i < at
      BY <1>2, <2>1
    <3>2. QED BY <3>1 DEF NafInv, NafWritten
  <2>4. digits = [i \in 0 .. Bits - 1 |-> digits[i]]
    BY <1>1
  <2>5. QED BY <2>2, <2>3, <2>4
<1>5. NafFits
  BY DEF NafInv, NafSpread, NafFits
<1>6. QED BY <1>3, <1>4, <1>5 DEF NafInv
-----------------------------------------------------------------------------
-----------------------------------------------------------------------------
LEMMA SizeFacts ==
  ASSUME w \in 4 .. 8
  PROVE  /\ Size \in Nat /\ Size >= 4 /\ 4 * Size = Bits
         /\ digits_count \in Nat /\ digits_count >= 1 /\ digits_count <= Size
         /\ SizeHint \in Nat /\ SizeHint <= Size
         /\ SizeHint = IF w = 8 THEN digits_count + 1 ELSE digits_count
         /\ w * digits_count >= Bits
         /\ w * (digits_count - 1) \in 0 .. Bits - 1
         /\ Bits - w * (digits_count - 1) <= w
         /\ w = 4 => digits_count = Size
         /\ w = 7 => Bits - w * (digits_count - 1) <= 6
<1> DEFINE B == Bits
           d == digits_count
<1>1. B \in Nat /\ B >= 16 /\ B % 8 = 0 /\ B % 7 # 0
  BY BitsFacts, RecodingAssumption
<1>2. Size = B \div 4 /\ d = (B + w - 1) \div w
      /\ SizeHint = IF w = 8 THEN d + 1 ELSE d
  BY DEF Size, digits_count, SizeHint
<1> HIDE DEF B, d
<1>3. /\ B \div 4 \in Nat /\ B \div 4 >= 4 /\ 4 * (B \div 4) = B
      /\ d \in Nat /\ d >= 2 /\ d <= B \div 4 /\ w * d >= B
      /\ w * (d - 1) \in 0 .. B - 1 /\ B - w * (d - 1) <= w
      /\ w = 4 => d = B \div 4
      /\ w = 7 => B - w * (d - 1) <= 6
      /\ w = 8 => d + 1 <= B \div 4
  BY <1>1, <1>2, CountFacts
<1>4. QED BY <1>2, <1>3 DEF B, d

LEMMA TopQuotient ==
  ASSUME x \in Scalars, w \in 4 .. 8
  PROVE  /\ RadixQ(x, w)[digits_count - 1] \in 0 .. Pow2[w - 1]
         /\ w = 7 => RadixQ(x, w)[digits_count - 1] \in 0 .. 32
         /\ RadixQ(x, w)[digits_count] \in {0, 1}
<1>1. /\ x \in Nat /\ x < Pow2[Bits - 1] /\ Bits \in Nat /\ Bits >= 16
      /\ Bits % 8 = 0 /\ Bits % 7 # 0
  BY BitsFacts, RecodingAssumption
<1>2. QED BY <1>1, LastQuotient DEF digits_count
-----------------------------------------------------------------------------
(* as_radix_16 and as_radix_2w have returned: the digits are Radix's.      *)
RadixDone ==
  /\ \A k \in 0 .. Size - 1 :
       digits[k] = IF k < SizeHint - 1 THEN SignedMod(RadixQ(x, w)[k], w)
                   ELSE IF k = SizeHint - 1 THEN RadixQ(x, w)[k] ELSE 0
  /\ x = DigitSum(digits, w, SizeHint)

(* as_radix_2w has written the digits below at, and Radix's q for the rest *)
(* is the rest of the scalar and the carry into it.                        *)
WideWritten ==
  \A k \in 0 .. Size - 1 :
    digits[k] = IF k < at THEN SignedMod(RadixQ(x, w)[k], w) ELSE 0

WideScan ==
  /\ carry + (x \div Pow2[w * at]) = RadixQ(x, w)[at]
  /\ WideWritten
  /\ x = DigitSum(digits, w, SizeHint) + RadixQ(x, w)[at] * Pow2[w * at]

WideInv ==
  /\ at <= digits_count
  /\ done => at = digits_count /\ RadixDone
  /\ ~ done => WideScan

(* as_radix_16 has recentered the nibbles below at, and the one at at has  *)
(* been raised by the carry.                                               *)
NarrowWritten ==
  \A k \in 0 .. Size - 1 :
    digits[k] = IF k < at THEN SignedMod(RadixQ(x, 4)[k], 4)
                ELSE IF k = at THEN RadixQ(x, 4)[k] - 16 * (x \div Pow2[4 * (k + 1)])
                ELSE (x \div Pow2[4 * k]) % 16

NarrowInv ==
  /\ at < Size /\ carry = 0 /\ (done <=> at = Size - 1)
  /\ NarrowWritten
  /\ x = DigitSum(digits, 4, Size)

RadixInv ==
  /\ x \in Scalars /\ carry \in {0, 1} /\ RadixTypeOK
  /\ w = 4 => NarrowInv
  /\ w > 4 => WideInv

LEMMA WideStarts ==
  ASSUME RadixInit, w > 4
  PROVE  RadixInv
<1>1. /\ x \in Scalars /\ w \in 4 .. 8 /\ w # 4 /\ at = 0 /\ carry = 0 /\ done = FALSE
      /\ digits = [k \in 0 .. Size - 1 |-> 0]
  BY DEF RadixInit
<1>2. x \in Nat /\ x \in Int /\ w \in Nat /\ w >= 1
  BY <1>1, BitsFacts
<1>3. Size \in Nat /\ digits_count \in Nat /\ SizeHint \in Nat /\ SizeHint <= Size
  BY <1>1, SizeFacts
<1>4. RadixQ(x, w)[0] = x /\ Pow2[0] = 1 /\ w * 0 = 0
  BY <1>2, RadixQExists, Pow2Def DEF IsRadixQ
<1>5. DigitSum(digits, w, SizeHint) = 0
  <2>1. \A k \in 0 .. SizeHint - 1 : digits[k] = 0
    BY <1>1, <1>3
  <2>2. QED BY <1>2, <1>3, <2>1, DigitSumZero
<1>6. WideWritten
  <2>1. \A k \in 0 .. Size - 1 : ~ (k < 0)
    OBVIOUS
  <2>2. QED BY <1>1, <2>1 DEF WideWritten
<1>7. WideScan
  <2>1. 0 + (x \div 1) = x /\ x = 0 + x * 1
    BY <1>2
  <2>2. QED BY <1>1, <1>4, <1>5, <1>6, <2>1 DEF WideScan
<1>8. RadixTypeOK
  <2>1. at \in 0 .. Size /\ digits \in [0 .. Size - 1 -> -128 .. 127]
    BY <1>1, <1>3
  <2>2. QED BY <1>1, <2>1 DEF RadixTypeOK
<1>9. QED BY <1>1, <1>3, <1>7, <1>8 DEF RadixInv, WideInv

LEMMA WindowStep ==
  ASSUME RadixInv, Window
  PROVE  RadixInv'
<1> DEFINE Q == RadixQ(x, w)
           X == x \div Pow2[w * at]
           Y == x \div Pow2[w * (at + 1)]
           p == Pow2[w]
           r == X % p
           coef == carry + r
           c == RadixLeft(coef, w)
           s == SignedMod(Q[at], w)
<1>1. /\ x \in Scalars /\ carry \in {0, 1} /\ w \in 4 .. 8 /\ w > 4
      /\ at \in 0 .. Size /\ at < digits_count /\ done \in BOOLEAN
      /\ digits \in [0 .. Size - 1 -> -128 .. 127]
  BY DEF RadixInv, RadixTypeOK, Window
<1>2. ~ done /\ WideScan
  <2>1. Size \in Nat /\ digits_count \in Nat
    BY <1>1, SizeFacts
  <2>2. at # digits_count
    BY <1>1, <2>1
  <2>3. QED BY <1>1, <2>2 DEF RadixInv, WideInv
<1>3. /\ x \in Nat /\ x \in Int /\ x < Pow2[Bits] /\ w \in Nat /\ w >= 1 /\ at \in Nat
      /\ w \in 2 .. 8
  <2>1. Size \in Nat
    BY <1>1, SizeFacts
  <2>2. QED BY <1>1, <2>1, BitsFacts
<1>4. w * at \in Nat /\ w * (at + 1) = w * at + w /\ at * w = w * at
  BY <1>3
<1>5. Q \in [Nat -> Int] /\ Q[at + 1] = RadixLeft(Q[at], w) /\ Q[at] \in Int
  BY <1>3, RadixQExists DEF IsRadixQ
<1>6. carry + X = Q[at]
  BY <1>2 DEF WideScan
<1>7. X \in Int /\ r \in 0 .. p - 1 /\ X = p * Y + r /\ Y \in Int /\ p \in Nat
  <2>1. X \in Int /\ Y \in Int /\ p \in Nat
    <3>1. w * (at + 1) \in Nat
      BY <1>3, <1>4
    <3>2. X \in Int
      BY <1>3, <1>4, DivFacts
    <3>3. Y \in Int
      BY <1>3, <3>1, DivFacts
    <3>4. QED BY <1>3, <3>2, <3>3, Pow2Def
  <2>2. X \div p = Y
    BY <1>3, <1>4, DivTwice
  <2> HIDE DEF X, Y
  <2>3. X % p \in 0 .. p - 1 /\ X = p * (X \div p) + (X % p)
    BY <1>3, <2>1, DivFacts
  <2>4. QED BY <2>1, <2>2, <2>3
<1>8. RadixBits % p = r
  <2>1. RadixBits = BitBuf(at * w, (at * w) \div LimbBits = Limbs - 1)
    BY DEF RadixBits
  <2> DEFINE pos == at * w
             one == pos \div LimbBits = Limbs - 1
  <2>2. pos \in Nat /\ one \in BOOLEAN /\ pos = w * at
    BY <1>4
  <2>3. one => pos \div LimbBits = Limbs - 1
    OBVIOUS
  <2> HIDE DEF pos, one
  <2>4. BitBuf(pos, one) % Pow2[w] = (x \div Pow2[pos]) % Pow2[w]
    BY <1>3, <2>2, <2>3, BitBufIsWindow
  <2>5. QED BY <2>1, <2>2, <2>4 DEF pos, one
<1>9. /\ x' = x /\ w' = w /\ at' = at + 1 /\ done' = done
      /\ carry' = c /\ digits' = [digits EXCEPT ![at] = ToI8(coef - c * p)]
  BY <1>8 DEF Window, RadixLeft
<1>10. c \in {0, 1} /\ RadixLeft(Q[at], w) = c + Y
  <2>1. X \div p = Y
    BY <1>3, <1>4, DivTwice
  <2> HIDE DEF X, Y, Q
  <2>2. Windowed(X, w, carry, Q[at], coef)
    BY <1>1, <1>6 DEF Windowed
  <2> HIDE DEF coef
  <2>3. RadixLeft(coef, w) \in {0, 1} /\ RadixLeft(Q[at], w) = RadixLeft(coef, w) + (X \div Pow2[w])
    BY <1>3, <1>7, <2>2, Recentered
  <2>4. QED BY <2>1, <2>3
<1> HIDE DEF Q, X, Y, r, c
<1>11. s = Q[at] - p * Q[at + 1] /\ s \in -128 .. 127
  <2>1. /\ SignedMod(Q[at], w) \in -Pow2[w - 1] .. Pow2[w - 1] - 1
        /\ SignedMod(Q[at], w) = Q[at] - Pow2[w] * RadixLeft(Q[at], w)
    BY <1>3, <1>5, SignedModFacts DEF RadixLeft
  <2>2. Pow2[w - 1] \in 2 .. 128
    BY <1>3, WidthFacts
  <2>3. QED BY <1>5, <2>1, <2>2
<1>12. coef - c * p = s
  <2>1. p * (c + Y) = p * c + p * Y /\ p * c = c * p /\ p * c \in Int /\ p * Y \in Int
    <3>1. p \in Int /\ c \in Int /\ Y \in Int
      BY <1>7, <1>10
    <3> HIDE DEF p
    <3>2. QED BY <3>1
  <2>2. Q[at + 1] = c + Y
    BY <1>5, <1>10
  <2>3. s = Q[at] - p * (c + Y)
    BY <1>11, <2>2
  <2> HIDE DEF p, s
  <2>4. QED BY <1>1, <1>6, <1>7, <2>1, <2>3
<1>13. digits' = [digits EXCEPT ![at] = s]
  <2> HIDE DEF s, coef, p
  <2>1. QED BY <1>9, <1>11, <1>12, ToI8Small
<1>14. /\ Size \in Nat /\ digits_count \in Nat /\ digits_count <= Size /\ SizeHint \in Nat
       /\ digits_count <= SizeHint /\ SizeHint <= Size
       /\ Size' = Size /\ digits_count' = digits_count /\ SizeHint' = SizeHint
  <2>1. /\ Size' = Size /\ digits_count' = digits_count /\ SizeHint' = SizeHint
    BY <1>9 DEF Size, digits_count, SizeHint
  <2>2. /\ Size \in Nat /\ digits_count \in Nat /\ digits_count <= Size /\ SizeHint \in Nat
        /\ SizeHint <= Size /\ SizeHint = IF w = 8 THEN digits_count + 1 ELSE digits_count
    BY <1>1, SizeFacts
  <2>3. digits_count <= SizeHint
    BY <2>2
  <2>4. QED BY <2>1, <2>2, <2>3
<1>15. at \in 0 .. Size - 1 /\ at \in 0 .. SizeHint - 1
  BY <1>1, <1>3, <1>14
<1>16. \A k \in 0 .. Size - 1 : digits'[k] = IF k = at THEN s ELSE digits[k]
  BY <1>1, <1>13
<1>17. \A k \in 0 .. Size - 1 :
         digits[k] = IF k < at THEN SignedMod(Q[k], w) ELSE 0
  BY <1>2 DEF WideScan, WideWritten, Q
<1>18. WideWritten'
  <2>1. ASSUME NEW k \in 0 .. Size - 1
        PROVE  digits'[k] = IF k < at + 1 THEN SignedMod(Q[k], w) ELSE 0
    <3>1. k < at + 1 <=> k < at \/ k = at
      BY <1>3
    <3>2. ~ (at < at)
      BY <1>3
    <3>3. QED BY <1>16, <1>17, <3>1, <3>2
  <2>2. QED BY <1>9, <1>14, <2>1 DEF WideWritten, Q
<1>19. (x = DigitSum(digits, w, SizeHint) + RadixQ(x, w)[at] * Pow2[w * at])'
  <2> DEFINE S == DigitSum(digits, w, SizeHint)
             b == Pow2[w * at]
             m == Q[at + 1]
  <2>1. ASSUME NEW k \in 0 .. SizeHint - 1
        PROVE  digits[k] \in Int /\ k \in 0 .. Size - 1
    <3>1. k \in 0 .. Size - 1
      BY <1>14
    <3>2. digits[k] \in -128 .. 127
      BY <1>1, <3>1
    <3>3. QED BY <3>1, <3>2
  <2>2. S \in Int
    BY <1>3, <1>14, <2>1, DigitSumType
  <2>3. OneChanged(digits', digits, SizeHint, at, s)
    BY <1>16, <2>1 DEF OneChanged
  <2>4. DigitSum(digits', w, SizeHint) = S + (s - digits[at]) * b
    <3>1. w \in Nat /\ SizeHint \in Nat /\ at \in 0 .. SizeHint - 1 /\ s \in Int
      BY <1>3, <1>11, <1>14, <1>15
    <3> HIDE DEF s
    <3>2. QED BY <2>3, <3>1, DigitSumUpdate
  <2>5. s - digits[at] = s
    BY <1>3, <1>11, <1>15, <1>17
  <2>6. Pow2[w * (at + 1)] = b * p /\ b \in Int
    <3> DEFINE n == w * at
    <3>1. n \in Nat /\ w \in Nat /\ w * (at + 1) = n + w
      BY <1>3, <1>4
    <3> HIDE DEF n
    <3>2. Pow2[n + w] = Pow2[n] * Pow2[w]
      BY <3>1, Pow2Sum
    <3>3. Pow2[n] \in Int
      BY <3>1, Pow2Def
    <3>4. QED BY <3>1, <3>2, <3>3 DEF n
  <2>7. x = S + Q[at] * b
    BY <1>2 DEF WideScan, Q
  <2>8. Q[at] = s + p * m /\ m \in Int /\ s \in Int
    <3>1. m \in Int
      BY <1>3, <1>5
    <3>2. p * m \in Int
      <4> HIDE DEF m, p
      <4>1. QED BY <1>7, <3>1
    <3> HIDE DEF s
    <3>3. QED BY <1>5, <1>11, <3>1, <3>2
  <2> HIDE DEF S, b, m, s, p
  <2>9. x = (S + s * b) + m * (b * p)
    <3>1. (s + p * m) * b = s * b + m * (b * p) /\ s * b \in Int /\ m * (b * p) \in Int
      BY <1>7, <2>6, <2>8
    <3>2. QED BY <2>2, <2>7, <2>8, <3>1
  <2>10. x = DigitSum(digits', w, SizeHint) + Q[at + 1] * Pow2[w * (at + 1)]
    BY <2>4, <2>5, <2>6, <2>9 DEF m
  <2>11. QED BY <1>9, <1>14, <2>10 DEF Q
<1>20. WideScan'
  <2>1. c + Y = Q[at + 1]
    BY <1>5, <1>10
  <2>2. (carry + (x \div Pow2[w * at]) = RadixQ(x, w)[at])'
    BY <1>9, <2>1 DEF Q, Y
  <2>3. QED BY <1>18, <1>19, <2>2 DEF WideScan
<1>21. WideInv'
  <2>1. at + 1 <= digits_count
    BY <1>1, <1>3, <1>14
  <2>2. QED BY <1>2, <1>9, <1>14, <1>20, <2>1 DEF WideInv
<1>22. RadixTypeOK'
  <2>1. at + 1 \in 0 .. Size
    BY <1>3, <1>15, <1>14
  <2>2. digits' \in [0 .. Size - 1 -> -128 .. 127]
    BY <1>1, <1>11, <1>13
  <2>3. QED BY <1>1, <1>9, <1>14, <2>1, <2>2 DEF RadixTypeOK
<1>23. QED BY <1>1, <1>9, <1>10, <1>21, <1>22 DEF RadixInv

LEMMA FoldStep ==
  ASSUME RadixInv, FoldCarry
  PROVE  RadixInv'
<1> DEFINE Q == RadixQ(x, w)
           d == digits_count
           p == Pow2[w]
           S == DigitSum(digits, w, SizeHint)
<1>1. /\ x \in Scalars /\ carry \in {0, 1} /\ w \in 4 .. 8 /\ w > 4
      /\ at = d /\ ~ done
      /\ digits \in [0 .. Size - 1 -> -128 .. 127]
      /\ x' = x /\ w' = w /\ at' = at /\ carry' = carry /\ done' = TRUE
  BY DEF RadixInv, RadixTypeOK, FoldCarry
<1>2. /\ x \in Nat /\ x \in Int /\ w \in Nat /\ w >= 1 /\ w \in 2 .. 8
  BY <1>1, BitsFacts
<1>3. /\ Size \in Nat /\ d \in Nat /\ d >= 1 /\ d <= Size /\ SizeHint \in Nat /\ SizeHint <= Size
      /\ SizeHint = IF w = 8 THEN d + 1 ELSE d
      /\ w * d >= Bits /\ w * d \in Nat
  <2>1. /\ Size \in Nat /\ d \in Nat /\ d >= 1 /\ d <= Size /\ SizeHint \in Nat /\ SizeHint <= Size
        /\ SizeHint = IF w = 8 THEN d + 1 ELSE d
        /\ w * d >= Bits
    BY <1>1, SizeFacts
  <2> HIDE DEF d
  <2>2. w * d \in Nat
    BY <1>2, <2>1
  <2>3. QED BY <2>1, <2>2
<1>4. WideScan
  BY <1>1 DEF RadixInv, WideInv
<1>5. Q \in [Nat -> Int] /\ Q[d] = carry
  <2>1. x \div Pow2[w * d] = 0
    BY <1>1, <1>3, DivBySize
  <2>2. carry + (x \div Pow2[w * d]) = Q[d]
    BY <1>1, <1>4 DEF WideScan
  <2>3. Q \in [Nat -> Int]
    BY <1>2, RadixQExists DEF IsRadixQ
  <2>4. carry + 0 = carry
    BY <1>1
  <2> HIDE DEF Q, d
  <2>5. QED BY <2>1, <2>2, <2>3, <2>4
<1>6. \A k \in 0 .. Size - 1 : digits[k] = IF k < d THEN SignedMod(Q[k], w) ELSE 0
  BY <1>1, <1>4 DEF WideScan, WideWritten
<1>7. x = S + carry * Pow2[w * d]
  BY <1>1, <1>4, <1>5 DEF WideScan
<1>8. p \in 4 .. 256 /\ Pow2[w - 1] \in 2 .. 128
  BY <1>2, WidthFacts
<1>9. /\ Size' = Size /\ digits_count' = digits_count /\ SizeHint' = SizeHint
  BY <1>1 DEF Size, digits_count, SizeHint
<1>10. ASSUME NEW k \in 0 .. SizeHint - 1
       PROVE  digits[k] \in Int /\ k \in 0 .. Size - 1
  <2>1. k \in 0 .. Size - 1
    BY <1>3
  <2>2. digits[k] \in -128 .. 127
    BY <1>1, <2>1
  <2>3. QED BY <2>1, <2>2
<1>11. S \in Int
  BY <1>2, <1>3, <1>10, DigitSumType
<1> HIDE DEF d, p, Q
<1>12. CASE w = 8
  <2>1. digits' = [digits EXCEPT ![d] = digits[d] + carry] /\ SizeHint = d + 1
    BY <1>1, <1>3, <1>12 DEF FoldCarry
  <2>2. d \in 0 .. Size - 1 /\ d \in 0 .. SizeHint - 1 /\ digits[d] = 0
    BY <1>3, <1>6, <2>1
  <2>3. \A k \in 0 .. Size - 1 : digits'[k] = IF k = d THEN carry ELSE digits[k]
    BY <1>1, <2>1, <2>2
  <2>4. \A k \in 0 .. Size - 1 :
          digits'[k] = IF k < SizeHint - 1 THEN SignedMod(Q[k], w)
                       ELSE IF k = SizeHint - 1 THEN Q[k] ELSE 0
    BY <1>3, <1>5, <1>6, <2>1, <2>3
  <2>5. OneChanged(digits', digits, SizeHint, d, carry)
    BY <1>10, <2>3 DEF OneChanged
  <2>6. DigitSum(digits', w, SizeHint) = S + (carry - digits[d]) * Pow2[w * d]
    BY <1>1, <1>2, <1>3, <2>2, <2>5, DigitSumUpdate
  <2>7. carry - digits[d] = carry
    BY <1>1, <2>2
  <2>8. RadixDone'
    BY <1>1, <1>7, <1>9, <2>4, <2>6, <2>7 DEF RadixDone, Q
  <2>9. digits' \in [0 .. Size - 1 -> -128 .. 127]
    <3>1. digits[d] + carry \in -128 .. 127
      BY <1>1, <2>2
    <3>2. QED BY <1>1, <2>1, <3>1
  <2>10. RadixTypeOK'
    BY <1>1, <1>3, <1>9, <2>9 DEF RadixTypeOK
  <2>11. QED BY <1>1, <1>3, <1>9, <2>8, <2>10 DEF RadixInv, WideInv, d
<1>13. CASE w # 8
  <2> DEFINE l == d - 1
             v == Q[l]
  <2>1. digits' = [digits EXCEPT ![l] = digits[l] + ToI8(carry * p)] /\ SizeHint = d
    BY <1>1, <1>3, <1>13 DEF FoldCarry, p
  <2>2. l \in 0 .. Size - 1 /\ l \in 0 .. SizeHint - 1 /\ l \in Nat /\ l + 1 = d
    BY <1>3, <2>1
  <2>3. Q[d] = RadixLeft(v, w) /\ v \in Int
    <3>1. IsRadixQ(Q, x, w)
      BY <1>2, RadixQExists DEF Q
    <3> HIDE DEF l
    <3>2. QED BY <1>5, <2>2, <3>1 DEF IsRadixQ
  <2>4. v \in 0 .. Pow2[w - 1] /\ (w = 7 => v \in 0 .. 32)
    BY <1>1, TopQuotient DEF d, Q
  <2>5. w = 7 => carry = 0
    <3>1. ASSUME w = 7 PROVE carry = 0
      <4>1. Pow2[7] = 128 /\ Pow2[7 - 1] = 64
        BY SmallPowers
      <4>2. carry = (v + 64) \div 128 /\ v \in 0 .. 32
        BY <1>5, <2>3, <2>4, <3>1, <4>1 DEF RadixLeft
      <4> HIDE DEF v
      <4>3. QED BY <4>2
    <3>2. QED BY <3>1
  <2>6. w <= 7 /\ w - 1 <= 6 /\ Pow2[w - 1] <= 64
    <3>1. w = 5 \/ w = 6 \/ w = 7
      BY <1>1, <1>13
    <3>2. QED BY <3>1, SmallPowers
  <2>7. ToI8(carry * p) = carry * p /\ carry * p \in Int
    <3>1. w # 7 => p <= 64
      <4>1. w = 5 \/ w = 6 \/ w = 7
        BY <1>1, <1>13
      <4>2. QED BY <4>1, SmallPowers DEF p
    <3>2. 0 * p = 0 /\ 1 * p = p
      BY <1>8
    <3>3. carry * p \in -128 .. 127
      BY <1>1, <1>8, <2>5, <3>1, <3>2
    <3>4. QED BY <3>3, ToI8Small
  <2>8. digits[l] = v - p * carry
    <3>1. digits[l] = SignedMod(v, w)
      BY <1>3, <1>6, <2>2
    <3>2. SignedMod(v, w) = v - Pow2[w] * RadixLeft(v, w)
      BY <1>2, <2>3, SignedModFacts DEF RadixLeft
    <3>3. QED BY <1>5, <2>3, <3>1, <3>2 DEF p
  <2>9. digits[l] + carry * p = v /\ p * carry \in Int /\ v - digits[l] = carry * p
    <3>1. p * carry \in Int /\ p * carry = carry * p
      BY <1>1, <1>8
    <3> HIDE DEF v, l
    <3>2. QED BY <2>3, <2>8, <3>1
  <2>10. digits' = [digits EXCEPT ![l] = v]
    BY <2>1, <2>7, <2>9
  <2>11. \A k \in 0 .. Size - 1 : digits'[k] = IF k = l THEN v ELSE digits[k]
    BY <1>1, <2>10
  <2>12. \A k \in 0 .. Size - 1 :
           digits'[k] = IF k < SizeHint - 1 THEN SignedMod(Q[k], w)
                        ELSE IF k = SizeHint - 1 THEN Q[k] ELSE 0
    <3>1. ASSUME NEW k \in 0 .. Size - 1
          PROVE  digits'[k] = IF k < SizeHint - 1 THEN SignedMod(Q[k], w)
                              ELSE IF k = SizeHint - 1 THEN Q[k] ELSE 0
      <4>1. SizeHint - 1 = l /\ (k < d <=> k < l \/ k = l)
        BY <1>3, <2>1
      <4>2. l \in Int
        BY <2>2
      <4> HIDE DEF l
      <4>3. QED BY <1>6, <2>11, <4>1, <4>2 DEF v
    <3>2. QED BY <3>1
  <2>13. OneChanged(digits', digits, SizeHint, l, v)
    BY <1>10, <2>11 DEF OneChanged
  <2>14. DigitSum(digits', w, SizeHint) = S + (v - digits[l]) * Pow2[w * l]
    <3>1. w \in Nat /\ SizeHint \in Nat /\ l \in 0 .. SizeHint - 1 /\ v \in Int
      BY <1>2, <1>3, <2>2, <2>3
    <3> HIDE DEF l, v
    <3>2. QED BY <2>13, <3>1, DigitSumUpdate
  <2>15. (v - digits[l]) * Pow2[w * l] = carry * Pow2[w * d]
    <3> DEFINE n == w * l
    <3>1. n \in Nat /\ w * d = n + w
      <4>1. w * (l + 1) = w * l + w /\ w * l \in Nat
        BY <1>2, <2>2
      <4>2. QED BY <2>2, <4>1
    <3> HIDE DEF n
    <3>2. Pow2[w * d] = Pow2[n] * p
      BY <1>2, <3>1, Pow2Sum DEF p
    <3>3. Pow2[n] \in Int /\ p \in Int /\ carry \in Int
      BY <1>1, <1>8, <3>1, Pow2Def
    <3>4. (carry * p) * Pow2[n] = carry * (Pow2[n] * p)
      BY <3>3
    <3>5. QED BY <2>9, <3>2, <3>4 DEF n
  <2>16. RadixDone'
    <3>1. x = DigitSum(digits', w, SizeHint)
      BY <1>7, <2>14, <2>15
    <3>2. QED BY <1>1, <1>9, <2>12, <3>1 DEF RadixDone, Q
  <2>17. digits' \in [0 .. Size - 1 -> -128 .. 127]
    <3>1. v \in -128 .. 127
      BY <1>8, <2>4, <2>6
    <3>2. QED BY <1>1, <2>10, <3>1
  <2>18. RadixTypeOK'
    BY <1>1, <1>3, <1>9, <2>17 DEF RadixTypeOK
  <2>19. QED BY <1>1, <1>3, <1>9, <2>16, <2>18 DEF RadixInv, WideInv, d
<1>14. QED BY <1>12, <1>13
-----------------------------------------------------------------------------
LEMMA NarrowStarts ==
  ASSUME RadixInit, w = 4
  PROVE  RadixInv
<1>1. /\ x \in Scalars /\ w \in 4 .. 8 /\ at = 0 /\ carry = 0 /\ done = FALSE
      /\ digits = [k \in 0 .. Size - 1 |-> (x \div Pow2[4 * k]) % 16]
  BY DEF RadixInit
<1>2. x \in Nat /\ x \in Int
  BY <1>1, BitsFacts
<1>3. Size \in Nat /\ Size >= 4 /\ 4 * Size = Bits
  BY <1>1, SizeFacts
<1>4. RadixQ(x, 4)[0] = x /\ Pow2[0] = 1 /\ Pow2[4] = 16
  BY <1>2, RadixQExists, SmallPowers DEF IsRadixQ
<1>5. \A k \in 0 .. Size - 1 : 4 * k \in Nat /\ (x \div Pow2[4 * k]) % 16 \in 0 .. 15
  <2>1. ASSUME NEW k \in 0 .. Size - 1
        PROVE  4 * k \in Nat /\ (x \div Pow2[4 * k]) % 16 \in 0 .. 15
    <3>1. 4 * k \in Nat
      OBVIOUS
    <3> DEFINE y == x \div Pow2[4 * k]
    <3>2. y \in Int
      BY <1>2, <3>1, DivFacts
    <3> HIDE DEF y
    <3>3. y % 16 \in 0 .. 15
      BY <3>2
    <3>4. QED BY <3>1, <3>3 DEF y
  <2>2. QED BY <2>1
<1>6. NarrowWritten
  <2>1. ASSUME NEW k \in 0 .. Size - 1
        PROVE  digits[k] = IF k < 0 THEN SignedMod(RadixQ(x, 4)[k], 4)
                ELSE IF k = 0 THEN RadixQ(x, 4)[k] - 16 * (x \div Pow2[4 * (k + 1)])
                ELSE (x \div Pow2[4 * k]) % 16
    <3>1. CASE k = 0
      <4>1. digits[0] = (x \div 1) % 16
        BY <1>1, <1>3, <1>4
      <4>2. (x \div 1) % 16 = x - 16 * (x \div 16)
        BY <1>2
      <4>3. QED BY <1>4, <3>1, <4>1, <4>2
    <3>2. CASE k # 0
      BY <1>1, <3>2
    <3>3. QED BY <3>1, <3>2
  <2>2. QED BY <1>1, <2>1 DEF NarrowWritten
<1>7. x = DigitSum(digits, 4, Size)
  <2>1. \A k \in 0 .. Size - 1 : digits[k] = (x \div Pow2[4 * k]) % Pow2[4]
    BY <1>1, <1>4
  <2>2. x = DigitSum(digits, 4, Size) + (x \div Pow2[4 * Size]) * Pow2[4 * Size]
    <3> DEFINE v == 4
    <3>1. v \in Nat /\ \A k \in 0 .. Size - 1 : digits[k] = (x \div Pow2[v * k]) % Pow2[v]
      BY <2>1
    <3> HIDE DEF v
    <3>2. x = DigitSum(digits, v, Size) + (x \div Pow2[v * Size]) * Pow2[v * Size]
      BY <1>2, <1>3, <3>1, DigitSumOfDigits
    <3>3. QED BY <3>2 DEF v
  <2>3. x \div Pow2[4 * Size] = 0 /\ Pow2[4 * Size] \in Int
    <3>1. 4 * Size \in Nat /\ 4 * Size >= Bits
      BY <1>3, BitsFacts
    <3> DEFINE n == 4 * Size
    <3>2. n \in Nat /\ n >= Bits
      BY <3>1
    <3> HIDE DEF n
    <3>3. x \div Pow2[n] = 0
      BY <1>1, <3>2, DivBySize
    <3>4. Pow2[n] \in Int
      BY <3>2, Pow2Def
    <3>5. QED BY <3>3, <3>4 DEF n
  <2>4. DigitSum(digits, 4, Size) \in Int
    <3>1. \A k \in 0 .. Size - 1 : digits[k] \in Int
      BY <1>1, <1>5
    <3>2. 4 \in Nat
      OBVIOUS
    <3>3. QED BY <1>3, <3>1, <3>2, DigitSumType
  <2>5. QED BY <2>2, <2>3, <2>4
<1>8. RadixTypeOK
  <2>1. at \in 0 .. Size /\ digits \in [0 .. Size - 1 -> -128 .. 127]
    BY <1>1, <1>3, <1>5
  <2>2. QED BY <1>1, <2>1 DEF RadixTypeOK
<1>9. NarrowInv
  <2>1. at < Size /\ ~ done /\ at # Size - 1
    BY <1>1, <1>3
  <2>2. QED BY <1>1, <1>6, <1>7, <2>1 DEF NarrowInv
<1>10. QED BY <1>1, <1>8, <1>9 DEF RadixInv

LEMMA RecenterStep ==
  ASSUME RadixInv, Recenter
  PROVE  RadixInv'
<1> DEFINE Q == RadixQ(x, 4)
           Z(k) == x \div Pow2[4 * k]
           u == digits[at]
           c == (u + 8) \div 16
           e == [digits EXCEPT ![at] = u - 16 * c]
           b == Pow2[4 * at]
<1>1. /\ x \in Scalars /\ carry \in {0, 1} /\ w \in 4 .. 8 /\ w = 4
      /\ at \in 0 .. Size /\ done \in BOOLEAN /\ ~ done
      /\ digits \in [0 .. Size - 1 -> -128 .. 127]
      /\ x' = x /\ w' = w /\ at' = at + 1 /\ carry' = carry
      /\ done' = (at' = Size - 1)
  BY DEF RadixInv, RadixTypeOK, Recenter
<1>2. /\ at < Size /\ carry = 0 /\ at # Size - 1
      /\ NarrowWritten /\ x = DigitSum(digits, 4, Size)
  BY <1>1 DEF RadixInv, NarrowInv
<1>3. /\ x \in Nat /\ x \in Int /\ at \in Nat /\ Size \in Nat
      /\ at \in 0 .. Size - 1 /\ at + 1 \in 0 .. Size - 1 /\ at + 1 \in Nat
  <2>1. Size \in Nat
    BY <1>1, SizeFacts
  <2>2. QED BY <1>1, <1>2, <2>1, BitsFacts
<1>4. Size' = Size
  BY DEF Size
<1>5. Pow2[4] = 16 /\ Pow2[4 - 1] = 8
  BY SmallPowers
<1>6. Q \in [Nat -> Int] /\ Q[at + 1] = RadixLeft(Q[at], 4) /\ Q[at] \in Int
  <2>1. IsRadixQ(Q, x, 4)
    BY <1>3, RadixQExists
  <2> HIDE DEF Q
  <2>2. QED BY <1>3, <2>1 DEF IsRadixQ
<1>7. \A k \in Nat : Z(k) \in Int /\ Z(k) = 16 * Z(k + 1) + (Z(k) % 16) /\ Z(k) % 16 \in 0 .. 15
  <2>1. ASSUME NEW k \in Nat
        PROVE  Z(k) \in Int /\ Z(k) \div Pow2[4] = Z(k + 1)
    <3>1. 4 * k \in Nat /\ 4 * (k + 1) = 4 * k + 4
      OBVIOUS
    <3> DEFINE n == 4 * k
    <3> HIDE DEF n
    <3>2. n \in Nat
      BY <3>1 DEF n
    <3>3. (x \div Pow2[n]) \in Int
      BY <1>3, <3>2, DivFacts
    <3>4. (x \div Pow2[n]) \div Pow2[4] = x \div Pow2[n + 4]
      BY <1>3, <3>2, DivTwice
    <3>5. QED BY <3>1, <3>3, <3>4 DEF n
  <2>2. ASSUME NEW k \in Nat
        PROVE  Z(k) \in Int /\ Z(k) = 16 * Z(k + 1) + (Z(k) % 16) /\ Z(k) % 16 \in 0 .. 15
    <3> DEFINE y == Z(k)
    <3>1. y \in Int /\ y \div 16 = Z(k + 1)
      BY <1>5, <2>1
    <3> HIDE DEF y
    <3>2. y = 16 * (y \div 16) + (y % 16) /\ y % 16 \in 0 .. 15
      BY <3>1
    <3> HIDE DEF Z
    <3>3. QED BY <3>1, <3>2 DEF y
  <2> HIDE DEF Z
  <2>3. QED BY <2>2
<1> HIDE DEF Q, Z, b
<1>8. \A k \in 0 .. Size - 1 :
        digits[k] = IF k < at THEN SignedMod(Q[k], 4)
                    ELSE IF k = at THEN Q[k] - 16 * Z(k + 1)
                    ELSE Z(k) % 16
  BY <1>2 DEF NarrowWritten, Q, Z
<1>9. u = Q[at] - 16 * Z(at + 1) /\ u \in Int /\ u \in -128 .. 127
  <2>1. ~ (at < at)
    BY <1>3
  <2>2. digits[at] \in -128 .. 127
    BY <1>1, <1>3
  <2>3. digits[at] = Q[at] - 16 * Z(at + 1)
    BY <1>3, <1>8, <2>1
  <2>4. QED BY <2>2, <2>3
<1>10. digits[at + 1] = Z(at + 1) % 16
  <2>1. ~ (at + 1 < at) /\ at + 1 # at
    BY <1>3
  <2>2. QED BY <1>3, <1>8, <2>1
<1>11. Q[at + 1] = c + Z(at + 1) /\ c \in Int
  <2>1. Q[at + 1] = (Q[at] + 8) \div 16
    BY <1>5, <1>6 DEF RadixLeft
  <2>2. Z(at + 1) \in Int
    BY <1>3, <1>7
  <2> HIDE DEF u
  <2>3. QED BY <1>6, <1>9, <2>1, <2>2
<1>12. c \in -8 .. 8
  <2> HIDE DEF u
  <2>1. QED BY <1>9
<1>13. u - 16 * c = SignedMod(Q[at], 4) /\ u - 16 * c \in -8 .. 7
  <2>1. /\ SignedMod(Q[at], 4) \in -8 .. 7
        /\ SignedMod(Q[at], 4) = Q[at] - 16 * Q[at + 1]
    <3> DEFINE v == 4
    <3>1. v \in Nat /\ v >= 1 /\ Pow2[v] = 16 /\ Pow2[v - 1] = 8
      BY <1>5
    <3>2. Q[at + 1] = RadixLeft(Q[at], v)
      BY <1>6
    <3> HIDE DEF v
    <3>3. /\ SignedMod(Q[at], v) \in -Pow2[v - 1] .. Pow2[v - 1] - 1
          /\ SignedMod(Q[at], v) = Q[at] - Pow2[v] * RadixLeft(Q[at], v)
      BY <1>6, <3>1, SignedModFacts DEF RadixLeft
    <3>4. SignedMod(Q[at], v) \in -8 .. 7 /\ SignedMod(Q[at], v) = Q[at] - 16 * Q[at + 1]
      BY <3>1, <3>2, <3>3
    <3>5. QED BY <3>4 DEF v
  <2>2. Z(at + 1) \in Int
    BY <1>3, <1>7
  <2> HIDE DEF u, c
  <2>3. QED BY <1>6, <1>9, <1>11, <2>1, <2>2
<1> DEFINE g == u - 16 * c
           f == digits[at + 1] + c
<1>14. digits' = [digits EXCEPT ![at] = g, ![at + 1] = f]
  BY DEF Recenter
<1>15. f = Q[at + 1] - 16 * Z(at + 2) /\ f \in -8 .. 23 /\ f \in -128 .. 127
  <2>1. (at + 1) + 1 = at + 2
    BY <1>3
  <2>2. Z(at + 1) = 16 * Z(at + 2) + (Z(at + 1) % 16) /\ Z(at + 1) % 16 \in 0 .. 15 /\ Z(at + 2) \in Int
    <3>1. at + 2 \in Nat
      BY <1>3
    <3>2. QED BY <1>3, <1>7, <2>1, <3>1
  <2> HIDE DEF c
  <2>3. QED BY <1>10, <1>11, <1>12, <2>2
<1> HIDE DEF u, c, g, f
<1>16. /\ \A k \in 0 .. Size - 1 : e[k] = IF k = at THEN g ELSE digits[k]
       /\ \A k \in 0 .. Size - 1 : digits'[k] = IF k = at + 1 THEN f ELSE e[k]
       /\ g \in Int /\ f \in Int /\ g \in -128 .. 127
  <2>1. at # at + 1
    BY <1>3
  <2>2. g \in Int /\ f \in Int /\ g \in -128 .. 127
    BY <1>13, <1>15 DEF g
  <2>3. e = [digits EXCEPT ![at] = g]
    BY DEF g
  <2> HIDE DEF e
  <2>4. \A k \in 0 .. Size - 1 : e[k] = IF k = at THEN g ELSE digits[k]
    BY <1>1, <2>3
  <2>5. \A k \in 0 .. Size - 1 :
          digits'[k] = IF k = at + 1 THEN f ELSE IF k = at THEN g ELSE digits[k]
    BY <1>1, <1>14, <2>1
  <2>6. QED BY <2>2, <2>4, <2>5
<1> HIDE DEF e
<1>17. NarrowWritten'
  <2>1. ASSUME NEW k \in 0 .. Size - 1
        PROVE  digits'[k] = IF k < at + 1 THEN SignedMod(Q[k], 4)
                            ELSE IF k = at + 1 THEN Q[k] - 16 * Z(k + 1)
                            ELSE Z(k) % 16
    <3>1. CASE k < at
      <4>1. k < at + 1 /\ k # at + 1 /\ k # at
        BY <1>3, <3>1
      <4>2. QED BY <1>8, <1>16, <3>1, <4>1
    <3>2. CASE k = at
      <4>1. k < at + 1 /\ k # at + 1
        BY <1>3, <3>2
      <4>2. digits'[k] = g
        BY <1>16, <3>2, <4>1
      <4>3. QED BY <1>13, <3>2, <4>1, <4>2 DEF g
    <3>3. CASE k = at + 1
      <4>1. ~ (k < at + 1) /\ (at + 1) + 1 = at + 2
        BY <1>3, <3>3
      <4>2. QED BY <1>15, <1>16, <3>3, <4>1
    <3>4. CASE k > at + 1
      <4>1. ~ (k < at + 1) /\ k # at + 1 /\ k # at /\ ~ (k < at)
        BY <1>3, <3>4
      <4>2. QED BY <1>8, <1>16, <4>1
    <3>5. k < at \/ k = at \/ k = at + 1 \/ k > at + 1
      BY <1>3
    <3>6. QED BY <3>1, <3>2, <3>3, <3>4, <3>5
  <2>2. QED BY <1>1, <1>4, <2>1 DEF NarrowWritten, Q, Z
<1>18. x = DigitSum(digits', 4, Size)
  <2> DEFINE v == 4
             S == DigitSum(digits, v, Size)
             T == DigitSum(e, v, Size)
  <2>1. v \in Nat /\ v * at = 4 * at /\ v * (at + 1) = 4 * at + 4 /\ 4 * at \in Nat
    BY <1>3
  <2>2. ASSUME NEW k \in 0 .. Size - 1
        PROVE  digits[k] \in Int /\ e[k] \in Int
    <3>1. digits[k] \in -128 .. 127
      BY <1>1
    <3>2. QED BY <1>16, <3>1
  <2>3. OneChanged(e, digits, Size, at, g) /\ OneChanged(digits', e, Size, at + 1, f)
    BY <1>16, <2>2 DEF OneChanged
  <2> HIDE DEF v
  <2> HIDE DEF S, T
  <2>4. DigitSum(e, v, Size) = DigitSum(digits, v, Size) + (g - digits[at]) * Pow2[v * at]
    <3>1. v \in Nat /\ Size \in Nat /\ at \in 0 .. Size - 1 /\ g \in Int
      BY <1>3, <1>16, <2>1
    <3>2. OneChanged(e, digits, Size, at, g)
      BY <2>3
    <3>3. QED BY <3>1, <3>2, DigitSumUpdate
  <2>5. DigitSum(digits', v, Size)
          = DigitSum(e, v, Size) + (f - e[at + 1]) * Pow2[v * (at + 1)]
    <3> DEFINE l == at + 1
    <3>1. /\ l \in 0 .. Size - 1 /\ OneChanged(digits', e, Size, l, f)
          /\ v \in Nat /\ Size \in Nat /\ f \in Int
      BY <1>3, <1>16, <2>1, <2>3
    <3> HIDE DEF l
    <3>2. DigitSum(digits', v, Size) = DigitSum(e, v, Size) + (f - e[l]) * Pow2[v * l]
      BY <3>1, DigitSumUpdate
    <3>3. QED BY <3>2 DEF l
  <2>6. Pow2[4 * at + 4] = b * 16 /\ b \in Int
    <3> DEFINE n == 4 * at
               four == 4
    <3>1. n \in Nat /\ four \in Nat
      BY <2>1
    <3> HIDE DEF n, four
    <3>2. Pow2[n] \in Int
      BY <3>1, Pow2Def
    <3>3. Pow2[n + four] = Pow2[n] * Pow2[four]
      BY <3>1, Pow2Sum
    <3>4. Pow2[n + 4] = Pow2[n] * 16
      BY <1>5, <3>3 DEF four
    <3>5. QED BY <3>2, <3>4 DEF n, b
  <2>7. g - digits[at] = -(16 * c) /\ f - e[at + 1] = c
    <3>1. digits[at] \in Int /\ digits[at + 1] \in Int
      BY <1>3, <2>2
    <3>2. at + 1 # at
      BY <1>3
    <3>3. e[at + 1] = digits[at + 1]
      BY <1>3, <1>16, <3>2
    <3>4. g = digits[at] - 16 * c /\ f = digits[at + 1] + c
      BY DEF g, f, u
    <3>5. QED BY <1>12, <3>1, <3>3, <3>4
  <2>8. S \in Int
    <3>1. \A k \in 0 .. Size - 1 : digits[k] \in Int
      BY <2>2
    <3>2. QED BY <1>3, <2>1, <3>1, DigitSumType DEF S
  <2>9. T = S + (-(16 * c)) * b
    BY <2>1, <2>4, <2>7 DEF b, S, T
  <2>10. DigitSum(digits', v, Size) = T + c * (b * 16)
    BY <2>1, <2>5, <2>6, <2>7 DEF T
  <2>11. (-(16 * c)) * b + c * (b * 16) = 0 /\ (-(16 * c)) * b \in Int /\ c * (b * 16) \in Int
    <3>1. c \in Int
      BY <1>12
    <3>2. QED BY <2>6, <3>1
  <2>12. DigitSum(digits', v, Size) = S
    <3> DEFINE A == (-(16 * c)) * b
               B == c * (b * 16)
    <3> HIDE DEF A, B
    <3>1. T = S + A /\ DigitSum(digits', v, Size) = T + B
      BY <2>9, <2>10 DEF A, B
    <3>2. A + B = 0 /\ A \in Int /\ B \in Int
      BY <2>11 DEF A, B
    <3>3. QED BY <2>8, <3>1, <3>2
  <2>13. QED BY <1>2, <2>12 DEF S, v
<1>19. NarrowInv'
  <2>1. at + 1 < Size
    BY <1>3
  <2>2. QED BY <1>1, <1>2, <1>4, <1>17, <1>18, <2>1 DEF NarrowInv
<1>20. RadixTypeOK'
  <2>1. at + 1 \in 0 .. Size
    BY <1>3
  <2>2. digits' \in [0 .. Size - 1 -> -128 .. 127]
    BY <1>1, <1>14, <1>15, <1>16
  <2>3. done' \in BOOLEAN
    BY <1>1
  <2>4. QED BY <1>1, <1>4, <2>1, <2>2, <2>3 DEF RadixTypeOK
<1>21. QED BY <1>1, <1>19, <1>20 DEF RadixInv

LEMMA RadixReturned ==
  ASSUME RadixInv, done
  PROVE  RadixDone
<1>1. x \in Scalars /\ w \in 4 .. 8
  BY DEF RadixInv, RadixTypeOK
<1>2. CASE w > 4
  BY <1>2 DEF RadixInv, WideInv
<1>3. CASE w = 4
  <2> DEFINE Q == RadixQ(x, 4)
             m == 4 * Size
             Z(k) == x \div Pow2[4 * (k + 1)]
             Y(k) == (x \div Pow2[4 * k]) % 16
  <2>1. at = Size - 1 /\ NarrowWritten /\ x = DigitSum(digits, 4, Size)
    BY <1>3 DEF RadixInv, NarrowInv
  <2>2. Size \in Nat /\ Size >= 4 /\ 4 * Size = Bits /\ SizeHint = Size
    BY <1>1, <1>3, SizeFacts
  <2>3. m \in Nat /\ m >= Bits /\ (Size - 1) + 1 = Size
    BY <2>2
  <2>4. Z(Size - 1) = 0
    <3> HIDE DEF m
    <3>1. x \div Pow2[m] = 0
      BY <1>1, <2>3, DivBySize
    <3>2. QED BY <2>3, <3>1 DEF m
  <2>5. Q[Size - 1] \in Int
    <3>1. IsRadixQ(Q, x, 4)
      <4> DEFINE v == 4
      <4>1. v \in Nat /\ v >= 1 /\ x \in Int
        BY <1>1, BitsFacts
      <4> HIDE DEF v
      <4>2. IsRadixQ(RadixQ(x, v), x, v)
        BY <4>1, RadixQExists
      <4>3. QED BY <4>2 DEF v
    <3> HIDE DEF Q
    <3>2. Size - 1 \in Nat
      BY <2>2
    <3>3. QED BY <3>1, <3>2 DEF IsRadixQ
  <2> HIDE DEF Q, Z, Y
  <2>6. \A k \in 0 .. Size - 1 :
          digits[k] = IF k < Size - 1 THEN SignedMod(Q[k], 4)
                      ELSE IF k = Size - 1 THEN Q[k] - 16 * Z(k) ELSE Y(k)
    BY <2>1 DEF NarrowWritten, Q, Z, Y
  <2>7. \A k \in 0 .. Size - 1 :
          digits[k] = IF k < Size - 1 THEN SignedMod(Q[k], 4)
                      ELSE IF k = Size - 1 THEN Q[k] ELSE 0
    <3>1. ASSUME NEW k \in 0 .. Size - 1
          PROVE  digits[k] = IF k < Size - 1 THEN SignedMod(Q[k], 4)
                             ELSE IF k = Size - 1 THEN Q[k] ELSE 0
      <4>1. CASE k < Size - 1
        BY <2>6, <4>1
      <4>2. CASE k = Size - 1
        <5>1. digits[k] = Q[Size - 1] - 16 * 0
          BY <2>4, <2>6, <4>2
        <5>2. QED BY <2>5, <4>2, <5>1
      <4>3. k < Size - 1 \/ k = Size - 1
        BY <2>2
      <4>4. QED BY <4>1, <4>2, <4>3
    <3>2. QED BY <3>1
  <2>8. QED BY <1>3, <2>1, <2>2, <2>7 DEF RadixDone, Q
<1>4. w = 4 \/ w > 4
  BY <1>1
<1>5. QED BY <1>2, <1>3, <1>4

LEMMA RadixExpands ==
  ASSUME RadixInv
  PROVE  RadixExpansion
<1>1. x \in Scalars /\ w \in 4 .. 8
  BY DEF RadixInv, RadixTypeOK
<1>2. x \in Int /\ Size \in Nat
  BY <1>1, BitsFacts, SizeFacts
<1>3. CASE w = 4
  <2>1. x = DigitSum(digits, 4, Size)
    BY <1>3 DEF RadixInv, NarrowInv
  <2> DEFINE S == DigitSum(digits, w, Size)
  <2>2. x = S
    BY <1>3, <2>1
  <2> HIDE DEF S
  <2>3. x = S + 0
    BY <1>2, <2>2
  <2>4. QED BY <1>3, <2>3 DEF RadixExpansion, S
<1>4. CASE w > 4
  <2>1. w # 4
    BY <1>4
  <2> DEFINE S == DigitSum(digits, w, SizeHint)
  <2>2. CASE done
    <3>1. x = S
      BY <2>2, RadixReturned DEF RadixDone
    <3> HIDE DEF S
    <3>2. x = S + 0
      BY <1>2, <3>1
    <3>3. QED BY <2>1, <2>2, <3>2 DEF RadixExpansion, S
  <2>3. CASE ~ done
    <3>1. WideScan
      BY <1>4, <2>3 DEF RadixInv, WideInv
    <3>2. x = S + (carry + (x \div Pow2[w * at])) * Pow2[w * at]
      BY <3>1 DEF WideScan
    <3>3. QED BY <2>1, <2>3, <3>2 DEF RadixExpansion
  <2>4. QED BY <2>2, <2>3
<1>5. w = 4 \/ w > 4
  BY <1>1
<1>6. QED BY <1>3, <1>4, <1>5

(* What the properties say of the centered digits follows. *)
LEMMA RadixConcludes ==
  ASSUME RadixInv
  PROVE  RadixTypeOK /\ RadixExpansion /\ RadixMatches /\ RadixFits
<1> DEFINE Q == RadixQ(x, w)
           s == SizeHint
<1>1. /\ x \in Scalars /\ w \in 4 .. 8 /\ w \in Nat /\ w >= 1 /\ x \in Int
      /\ s \in Nat /\ Size \in Nat
  <2>1. x \in Scalars /\ w \in 4 .. 8
    BY DEF RadixInv, RadixTypeOK
  <2>2. QED BY <2>1, BitsFacts, SizeFacts
<1>2. done => \A k \in 0 .. Size - 1 :
        digits[k] = IF k < s - 1 THEN SignedMod(Q[k], w)
                    ELSE IF k = s - 1 THEN Q[k] ELSE 0
  BY RadixReturned DEF RadixDone
<1> HIDE DEF Q, s
<1>3. RadixMatches
  <2>1. ASSUME done, NEW k \in 0 .. Size - 1
        PROVE  digits[k] = IF k < s THEN Radix(x, w, s)[k] ELSE 0
    <3>1. CASE k < s
      <4>1. k \in 0 .. s - 1 /\ (k < s - 1 \/ k = s - 1) /\ (k = s - 1 => ~ (k < s - 1))
        BY <1>1, <3>1
      <4>2. Radix(x, w, s)[k] = IF k < s - 1 THEN SignedMod(Q[k], w) ELSE Q[k]
        BY <1>1, <4>1, RadixIsRadixQ DEF Q
      <4>3. QED BY <1>2, <2>1, <3>1, <4>1, <4>2
    <3>2. CASE ~ (k < s)
      <4>1. ~ (k < s - 1) /\ k # s - 1
        BY <1>1, <3>2
      <4>2. QED BY <1>2, <2>1, <3>2, <4>1
    <3>3. QED BY <3>1, <3>2
  <2>2. QED BY <2>1 DEF RadixMatches, s
<1>4. RadixFits
  <2> DEFINE h == Pow2[w - 1]
  <2>1. h \in Nat /\ h >= 1 /\ h - 1 \in Nat
    <3>1. Pow2[w - 1] \in Nat /\ Pow2[w - 1] >= 1
      BY <1>1, HalfPower
    <3>2. QED BY <3>1
  <2>2. \A k \in Nat : Q[k] \in Int
    <3>1. IsRadixQ(Q, x, w)
      BY <1>1, RadixQExists DEF Q
    <3>2. QED BY <3>1 DEF IsRadixQ
  <2>3. Q[s - 1] \in 0 .. h /\ s - 1 \in Nat
    <3> DEFINE d == digits_count
    <3>1. /\ Q[d - 1] \in 0 .. h /\ Q[d] \in {0, 1}
          /\ d \in Nat /\ d >= 1 /\ s = IF w = 8 THEN d + 1 ELSE d
      BY <1>1, TopQuotient, SizeFacts DEF Q, s
    <3> HIDE DEF d
    <3>2. CASE w = 8
      <4>1. s - 1 = d
        BY <3>1, <3>2
      <4> HIDE DEF h
      <4>2. QED BY <2>1, <3>1, <4>1
    <3>3. CASE w # 8
      <4>1. s - 1 = d - 1 /\ d - 1 \in Nat
        BY <3>1, <3>3
      <4>2. QED BY <3>1, <4>1
    <3>4. QED BY <3>2, <3>3
  <2>4. \A n \in Int : SignedMod(n, w) \in -h .. h - 1
    BY <1>1, SignedModFacts
  <2> HIDE DEF h
  <2>5. ASSUME done, NEW k \in 0 .. Size - 1
        PROVE  -digits[k] <= h /\ (digits[k] < h \/ (digits[k] = h /\ k = s - 1))
    <3>1. CASE k < s - 1
      <4>1. digits[k] = SignedMod(Q[k], w) /\ Q[k] \in Int
        BY <1>2, <2>2, <2>5, <3>1
      <4>2. digits[k] \in -h .. h - 1
        BY <2>4, <4>1
      <4> DEFINE g == digits[k]
      <4> HIDE DEF g
      <4>3. g \in -h .. h - 1
        BY <4>2 DEF g
      <4>4. -g <= h /\ g < h
        BY <2>1, <4>3
      <4>5. QED BY <4>4 DEF g
    <3>2. CASE k = s - 1
      <4>1. ~ (k < s - 1)
        BY <2>3, <3>2
      <4>2. digits[k] = Q[s - 1]
        BY <1>2, <2>5, <3>2, <4>1
      <4> DEFINE g == digits[k]
      <4> HIDE DEF g
      <4>3. g \in 0 .. h
        BY <2>3, <4>2 DEF g
      <4>4. -g <= h /\ (g < h \/ g = h)
        BY <2>1, <4>3
      <4>5. QED BY <3>2, <4>4 DEF g
    <3>3. CASE ~ (k < s - 1) /\ k # s - 1
      <4>1. digits[k] = 0
        BY <1>2, <2>5, <3>3
      <4>2. -0 <= h /\ 0 < h
        BY <2>1
      <4>3. QED BY <4>1, <4>2
    <3>4. QED BY <3>1, <3>2, <3>3
  <2>6. QED BY <2>5 DEF RadixFits, h, s
<1>5. QED BY <1>3, <1>4, RadixExpands DEF RadixInv
-----------------------------------------------------------------------------
(* The inductive invariant: each recoding has its own. *)
RecodingInv ==
  /\ method \in {"none", "naf", "radix"}
  /\ method = "naf" => NafInv
  /\ method = "radix" => RadixInv

LEMMA RecodingStarts ==
  ASSUME NumbersInit
  PROVE  RecodingInv
<1>1. CASE NafInit
  BY <1>1, NafStarts DEF NafInit, RecodingInv
<1>2. CASE RadixInit
  <2>1. w = 4 \/ w > 4
    BY <1>2 DEF RadixInit
  <2>2. RadixInv
    BY <1>2, <2>1, WideStarts, NarrowStarts
  <2>3. method = "radix"
    BY <1>2 DEF RadixInit
  <2>4. QED BY <2>2, <2>3 DEF RecodingInv
<1>3. CASE NoRecoding
  BY <1>3 DEF NoRecoding, RecodingInv
<1>4. QED BY <1>1, <1>2, <1>3 DEF NumbersInit, Init

LEMMA RecodingStep ==
  ASSUME RecodingInv, [NumbersNext]_NumberVars
  PROVE  RecodingInv'
<1>1. CASE NafStep
  <2>1. method = "naf" /\ method' = "naf" /\ NafInv
    BY <1>1 DEF NafStep, Even, Positive, Negative, RecodingInv
  <2>2. NafInv'
    <3>1. CASE Even
      BY <2>1, <3>1, NafEvenStep
    <3>2. CASE Positive \/ Negative
      BY <2>1, <3>2, OddSteps, NafOddStep
    <3>3. QED BY <1>1, <3>1, <3>2 DEF NafStep
  <2>3. QED BY <2>1, <2>2 DEF RecodingInv
<1>2. CASE RadixStep
  <2>1. method = "radix" /\ method' = "radix" /\ RadixInv
    BY <1>2 DEF RadixStep, Recenter, Window, FoldCarry, RecodingInv
  <2>2. RadixInv'
    BY <1>2, <2>1, RecenterStep, WindowStep, FoldStep DEF RadixStep
  <2>3. QED BY <2>1, <2>2 DEF RecodingInv
<1>3. CASE UNCHANGED vars
  <2>1. /\ method' = method /\ x' = x /\ w' = w /\ at' = at /\ carry' = carry
        /\ digits' = digits /\ done' = done
    BY <1>3 DEF vars
  <2>2. NafInv => NafInv'
    BY <2>1 DEF NafInv, NafTypeOK, NafScan, NafWritten, NafSpread, NafSum
  <2>3. RadixInv => RadixInv'
    BY <2>1 DEF RadixInv, RadixTypeOK, NarrowInv, NarrowWritten, WideInv, WideScan,
         WideWritten, RadixDone, SizeHint, digits_count, Size
  <2>4. QED BY <2>1, <2>2, <2>3 DEF RecodingInv
<1>4. QED BY <1>1, <1>2, <1>3 DEF NumbersNext, Recode, Call, Next, NumberVars

LEMMA RecodingConcludes ==
  ASSUME RecodingInv
  PROVE  RecodingMatchesReference /\ DigitsFitTables
<1>1. CASE method = "naf"
  <2>1. NafInv /\ x \in Scalars /\ carry \in {0, 1}
    BY <1>1 DEF RecodingInv, NafInv
  <2>2. QED BY <1>1, <2>1, NafConcludes
          DEF RecodingMatchesReference, DigitsFitTables, TypeOK, Expansion,
              MatchesReference, FitsTables
<1>2. CASE method = "radix"
  <2>1. RadixInv /\ x \in Scalars /\ carry \in {0, 1}
    BY <1>2 DEF RecodingInv, RadixInv
  <2>2. QED BY <1>2, <2>1, RadixConcludes
          DEF RecodingMatchesReference, DigitsFitTables, TypeOK, Expansion,
              MatchesReference, FitsTables
<1>3. CASE method = "none"
  BY <1>3 DEF RecodingMatchesReference, DigitsFitTables, Recodes
<1>4. QED BY <1>1, <1>2, <1>3 DEF RecodingInv

(* At every step of non_adjacent_form, as_radix_16 and as_radix_2w the     *)
(* place reached, the carry, what is left to read and the digits already   *)
(* written are those of the reference definition, and add up to the scalar.*)
THEOREM RecodingInvariant == NumbersSpec => []RecodingInv
<1>1. NumbersInit => RecodingInv
  BY RecodingStarts
<1>2. RecodingInv /\ [NumbersNext]_NumberVars => RecodingInv'
  BY RecodingStep
<1>3. QED BY <1>1, <1>2, PTL DEF NumbersSpec

(* For limbs of any number of bits, any number of limbs and every scalar   *)
(* that satisfies invariant #1: the windows that non_adjacent_form and     *)
(* as_radix_2w cut out of the limbs with a carry, and the nibbles that     *)
(* as_radix_16 recenters in place, add up to the scalar at every step and  *)
(* become the digits of Algorithm 3.35 and of repeated centered division.  *)
THEOREM RecodingsAreExact == NumbersSpec => []RecodingMatchesReference
<1>1. RecodingInv => RecodingMatchesReference
  BY RecodingConcludes
<1>2. QED BY <1>1, RecodingInvariant, PTL

(* The digits of every such scalar fit what is indexed by them: the odd    *)
(* multiples of NafLookupTable, the eight entries of LookupTable and the   *)
(* buckets of Pippenger's algorithm; and a scalar of n bits has no digit   *)
(* beyond place n, where mul_128_128_256 starts.                           *)
THEOREM DigitsFit == NumbersSpec => []DigitsFitTables
<1>1. RecodingInv => DigitsFitTables
  BY RecodingConcludes
<1>2. QED BY <1>1, RecodingInvariant, PTL
=============================================================================

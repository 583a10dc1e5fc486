---------------------------- MODULE PokosProofs ----------------------------
(***************************************************************************)
(* Proofs about Pokos, for every size and every constant of the hash: any  *)
(* trace the constraints accept for a seed holds that seed's private key   *)
(* and public values, the trace an honest owner builds is accepted, and an *)
(* envelope is accepted exactly when an honest owner sends it.             *)
(***************************************************************************)
EXTENDS Pokos, PowersProofs, SequenceTheorems

(* ------------------------------ sizes ------------------------------- *)

(* The powers of two the sizes stand for. *)
LEMMA Sizes ==
  /\ LIMB_BITS \in Nat /\ LIMB_BITS >= 1 /\ WORD_BITS \in Nat /\ WORD_BITS = 4 * LIMB_BITS
  /\ LIMB_VALUES \in Nat /\ LIMB_VALUES >= 2 /\ WORDS \in Nat /\ WORDS >= 2
  /\ P \in Nat /\ P > 9 * LIMB_VALUES
<1>1. LIMB_BITS \in Nat /\ LIMB_BITS >= 1 /\ P \in Nat /\ P > 9 * LIMB_VALUES
  BY SizesAssumption
<1>2. WORD_BITS \in Nat /\ WORD_BITS = 4 * LIMB_BITS
  BY <1>1 DEF WORD_BITS, LIMBS_PER_WORD
<1>3. Pow2[LIMB_BITS] \in Nat /\ LIMB_BITS < Pow2[LIMB_BITS]
  BY <1>1, Pow2Positive
<1>4. Pow2[WORD_BITS] \in Nat /\ WORD_BITS < Pow2[WORD_BITS]
  BY <1>2, Pow2Positive
<1>5. QED BY <1>1, <1>2, <1>3, <1>4 DEF LIMB_VALUES, WORDS

(* The powers of a limb's size, as products. *)
LEMMA LimbPowers ==
  /\ Pow2[LIMB_BITS * 0] = 1 /\ Pow2[LIMB_BITS * 1] = LIMB_VALUES
  /\ Pow2[LIMB_BITS * 2] = LIMB_VALUES * LIMB_VALUES
  /\ Pow2[LIMB_BITS * 3] = LIMB_VALUES * (LIMB_VALUES * LIMB_VALUES)
  /\ WORDS = LIMB_VALUES * (LIMB_VALUES * (LIMB_VALUES * LIMB_VALUES))
<1> DEFINE b == LIMB_BITS
<1>1. b \in Nat
  BY Sizes
<1>2. /\ b * 0 = 0 /\ b * 1 = b /\ b * 2 = b + b /\ b * 3 = b + (b + b)
      /\ WORD_BITS = b + (b + (b + b))
  BY <1>1, Sizes
<1>3. b + b \in Nat /\ b + (b + b) \in Nat
  BY <1>1
<1> HIDE DEF b
<1>4. Pow2[b + b] = Pow2[b] * Pow2[b]
  BY <1>1, Pow2Sum
<1>5. Pow2[b + (b + b)] = Pow2[b] * Pow2[b + b]
  BY <1>1, <1>3, Pow2Sum
<1>6. Pow2[b + (b + (b + b))] = Pow2[b] * Pow2[b + (b + b)]
  BY <1>1, <1>3, Pow2Sum
<1>7. Pow2[0] = 1
  BY SmallPowers
<1>8. QED BY <1>2, <1>4, <1>5, <1>6, <1>7 DEF LIMB_VALUES, WORDS, b

(* ------------------------------- limbs ------------------------------ *)

(* The value of four limbs, digit by digit. *)
LEMMA LimbsHorner ==
  ASSUME NEW v, \A l \in 1..4 : v[l] \in Int
  PROVE  /\ limbs_to_u64(v) \in Int
         /\ limbs_to_u64(v) =
              v[1] + LIMB_VALUES * (v[2] + LIMB_VALUES * (v[3] + LIMB_VALUES * v[4]))
<1> DEFINE V == LIMB_VALUES
<1>1. V \in Nat /\ v[1] \in Int /\ v[2] \in Int /\ v[3] \in Int /\ v[4] \in Int
  BY Sizes
<1>2. limbs_to_u64(v) = v[1] + V * v[2] + (V * V) * v[3] + (V * (V * V)) * v[4]
  BY LimbPowers DEF limbs_to_u64, LIMB_VALUES
<1> HIDE DEF V
<1>3. V * (v[2] + V * (v[3] + V * v[4])) = V * v[2] + (V * V) * v[3] + (V * (V * V)) * v[4]
  BY <1>1
<1>4. QED BY <1>1, <1>2, <1>3 DEF V

(* x is a number of four digits to the base V.                             *)
FourDigits(V, v, x) ==
  /\ V \in Nat /\ V >= 1 /\ v \in [1..4 -> 0..V - 1]
  /\ x = v[1] + V * (v[2] + V * (v[3] + V * v[4]))

(* Quotients and remainders of a number written in digits. *)
LEMMA DigitsUnique ==
  ASSUME NEW V, NEW v, NEW x, FourDigits(V, v, x)
  PROVE  /\ x \in 0..V * (V * (V * V)) - 1
         /\ x % V = v[1] /\ (x \div V) % V = v[2]
         /\ ((x \div V) \div V) % V = v[3] /\ (((x \div V) \div V) \div V) % V = v[4]
<1> DEFINE a == v[1]
           b == v[2]
           c == v[3]
           d == v[4]
<1>0. /\ V \in Nat /\ V >= 1 /\ a \in 0..V - 1 /\ b \in 0..V - 1
      /\ c \in 0..V - 1 /\ d \in 0..V - 1
      /\ x = a + V * (b + V * (c + V * d))
  BY DEF FourDigits
<1> HIDE DEF a, b, c, d
<1> DEFINE y1 == b + V * (c + V * d)
           y2 == c + V * d
<1>1. y2 \in Nat /\ y2 \div V = d /\ y2 % V = c
  BY <1>0, DivUnique
<1>2. y1 \in Nat /\ y1 = b + V * y2
  BY <1>0, <1>1
<1>3. x \in Nat /\ x = a + V * y1 /\ x = V * y1 + a
  BY <1>0, <1>2
<1>a. y2 <= V * V - 1
  <2>1. V * d <= V * (V - 1)
    BY <1>0, MulMonotone
  <2>2. V * (V - 1) = V * V - V /\ V * V \in Nat /\ V * d \in Nat
    BY <1>0
  <2>3. QED BY <1>0, <2>1, <2>2
<1>b. V * V \in Nat /\ V * (V * V) \in Nat /\ V * (V * (V * V)) \in Nat
  BY <1>0
<1> HIDE DEF y1, y2
<1>4. y1 \div V = y2 /\ y1 % V = b
  BY <1>0, <1>1, <1>2, DivUnique
<1>5. x \div V = y1 /\ x % V = a
  <2>1. V \in Nat /\ V > 0 /\ a \in 0..V - 1 /\ y1 \in Int /\ x \in Int
    BY <1>0, <1>2, <1>3
  <2>2. QED BY <1>3, <2>1, DivUnique
<1>6. d % V = d
  BY <1>0, DivUnique
<1>7. y1 <= V * (V * V) - 1
  <2>1. V * y2 <= V * (V * V - 1)
    BY <1>0, <1>1, <1>a, <1>b, MulMonotone
  <2>2. V * (V * V - 1) = V * (V * V) - V /\ V * y2 \in Nat
    BY <1>0, <1>1
  <2>3. QED BY <1>0, <2>1, <2>2, <1>2, <1>b
<1>8. x <= V * (V * (V * V)) - 1
  <2> DEFINE W == V * (V * V)
  <2>1. W \in Nat /\ y1 <= W - 1
    BY <1>0, <1>7, <1>b
  <2> HIDE DEF W
  <2>2. V * y1 <= V * (W - 1)
    BY <1>0, <2>1, <1>2, MulMonotone
  <2>3. V * (W - 1) = V * W - V /\ V * y1 \in Nat
    BY <1>0, <2>1, <1>2
  <2>4. V * W \in Nat
    BY <1>0, <2>1
  <2>5. x <= V * W - 1
    BY <1>0, <2>2, <2>3, <2>4, <1>3
  <2>6. QED BY <2>5 DEF W
<1>9. QED BY <1>0, <1>1, <1>3, <1>4, <1>5, <1>6, <1>8, <1>b DEF a, b, c, d

(* The quotients u64_to_limbs takes are repeated ones. *)
LEMMA LimbQuotients ==
  ASSUME NEW x \in Nat
  PROVE  /\ u64_to_limbs(x) \in [1..4 -> Limbs]
         /\ u64_to_limbs(x)[1] = x % LIMB_VALUES
         /\ u64_to_limbs(x)[2] = (x \div LIMB_VALUES) % LIMB_VALUES
         /\ u64_to_limbs(x)[3] = ((x \div LIMB_VALUES) \div LIMB_VALUES) % LIMB_VALUES
         /\ u64_to_limbs(x)[4] =
              (((x \div LIMB_VALUES) \div LIMB_VALUES) \div LIMB_VALUES) % LIMB_VALUES
<1> DEFINE b == LIMB_BITS
           v(l) == (x \div Pow2[b * (l - 1)]) % LIMB_VALUES
<1>1. b \in Nat /\ LIMB_VALUES = Pow2[b]
  BY Sizes DEF LIMB_VALUES
<1>2. u64_to_limbs(x) = [l \in 1..4 |-> v(l)]
  BY DEF u64_to_limbs, LIMBS_PER_WORD
<1>3. ASSUME NEW l \in 1..4 PROVE v(l) \in Limbs
  <2> DEFINE n == b * (l - 1)
  <2>1. n \in Nat
    BY <1>1
  <2> HIDE DEF n, b
  <2>2. x \div Pow2[n] \in Int
    BY <2>1, DivFacts
  <2>3. (x \div Pow2[n]) % Pow2[b] \in 0..Pow2[b] - 1
    BY <1>1, <2>2, DivFacts
  <2>4. QED BY <1>1, <2>3 DEF Limbs, n
<1>4. x \div Pow2[0] = x
  BY DivUnique, SmallPowers
<1>5. x \div Pow2[b + b] = (x \div Pow2[b]) \div Pow2[b]
  BY <1>1, DivTwice
<1>6. x \div Pow2[b + (b + b)] = ((x \div Pow2[b]) \div Pow2[b]) \div Pow2[b]
  <2>1. b + b \in Nat /\ x \div Pow2[b] \in Int
    BY <1>1, DivFacts
  <2>2. x \div Pow2[b + (b + b)] = (x \div Pow2[b]) \div Pow2[b + b]
    BY <1>1, <2>1, DivTwice
  <2>3. QED BY <1>1, <2>1, <2>2, DivTwice
<1>7. b * (1 - 1) = 0 /\ b * (2 - 1) = b /\ b * (3 - 1) = b + b /\ b * (4 - 1) = b + (b + b)
  BY <1>1
<1> HIDE DEF b
<1>8. QED BY <1>1, <1>2, <1>3, <1>4, <1>5, <1>6, <1>7

(* Limbs in range are a word's, and that word's limbs are they. *)
LEMMA LimbsAreWords ==
  ASSUME NEW v \in [1..4 -> Limbs]
  PROVE  limbs_to_u64(v) \in Word /\ u64_to_limbs(limbs_to_u64(v)) = v
<1> DEFINE V == LIMB_VALUES
           x == limbs_to_u64(v)
<1>1. V \in Nat /\ V >= 1 /\ \A l \in 1..4 : v[l] \in 0..V - 1
  BY Sizes DEF Limbs
<1>2. x = v[1] + V * (v[2] + V * (v[3] + V * v[4]))
  <2>1. \A l \in 1..4 : v[l] \in Int
    BY <1>1
  <2>2. QED BY <2>1, LimbsHorner
<1>a. FourDigits(V, v, x)
  BY <1>1, <1>2 DEF FourDigits, Limbs
<1> HIDE DEF x, V
<1>3. /\ x \in 0..V * (V * (V * V)) - 1
      /\ x % V = v[1] /\ (x \div V) % V = v[2]
      /\ ((x \div V) \div V) % V = v[3] /\ (((x \div V) \div V) \div V) % V = v[4]
  BY <1>a, DigitsUnique
<1>4. x \in Word /\ x \in Nat
  BY <1>1, <1>3, LimbPowers, Sizes DEF Word, V
<1>5. \A l \in 1..4 : u64_to_limbs(x)[l] = v[l]
  BY <1>3, <1>4, LimbQuotients DEF V
<1>6. u64_to_limbs(x) \in [1..4 -> Limbs]
  BY <1>4, LimbQuotients
<1>7. QED BY <1>4, <1>5, <1>6 DEF x

(* Taking the lowest limb off a number. *)
LEMMA LowestLimb ==
  ASSUME NEW y \in Nat
  PROVE  /\ y \div LIMB_VALUES \in Nat /\ y % LIMB_VALUES \in Limbs
         /\ y = LIMB_VALUES * (y \div LIMB_VALUES) + (y % LIMB_VALUES)
<1>1. LIMB_BITS \in Nat /\ LIMB_VALUES = Pow2[LIMB_BITS] /\ y \in Int
  BY Sizes DEF LIMB_VALUES
<1>2. /\ y \div Pow2[LIMB_BITS] \in Int /\ y % Pow2[LIMB_BITS] \in 0..Pow2[LIMB_BITS] - 1
      /\ y = Pow2[LIMB_BITS] * (y \div Pow2[LIMB_BITS]) + (y % Pow2[LIMB_BITS])
      /\ y >= 0 => y \div Pow2[LIMB_BITS] >= 0
  BY <1>1, DivFacts
<1> DEFINE q == y \div Pow2[LIMB_BITS]
           r == y % Pow2[LIMB_BITS]
<1>3. q \in Nat /\ r \in 0..Pow2[LIMB_BITS] - 1 /\ y = Pow2[LIMB_BITS] * q + r
  BY <1>2
<1>4. y \div LIMB_VALUES = q /\ y % LIMB_VALUES = r
  BY <1>1
<1> HIDE DEF q, r
<1>5. QED BY <1>1, <1>3, <1>4 DEF Limbs

(* A word's limbs are in range and give it back. *)
LEMMA WordsAreLimbs ==
  ASSUME NEW x \in Word
  PROVE  /\ u64_to_limbs(x) \in [1..4 -> Limbs] /\ HasBits(u64_to_limbs(x))
         /\ limbs_to_u64(u64_to_limbs(x)) = x
<1> DEFINE V == LIMB_VALUES
           v == u64_to_limbs(x)
           q1 == x \div V
           q2 == q1 \div V
           q3 == q2 \div V
           q4 == q3 \div V
<1>1. x \in Nat /\ V \in Nat /\ V >= 1 /\ V = Pow2[LIMB_BITS] /\ LIMB_BITS \in Nat
  BY Sizes DEF Word, LIMB_VALUES
<1>2. q1 \in Nat /\ x = V * q1 + (x % V)
  BY <1>1, LowestLimb
<1>3. q2 \in Nat /\ q1 = V * q2 + (q1 % V)
  BY <1>1, <1>2, LowestLimb
<1>4. q3 \in Nat /\ q2 = V * q3 + (q2 % V)
  BY <1>1, <1>3, LowestLimb
<1>5. q4 \in Nat /\ q3 = V * q4 + (q3 % V)
  BY <1>1, <1>4, LowestLimb
<1>6. q4 = 0
  <2> DEFINE b == LIMB_BITS
  <2>1. q2 = x \div Pow2[b + b]
    BY <1>1, DivTwice
  <2>2. b + b \in Nat /\ b + (b + b) \in Nat
    BY <1>1
  <2>3. q3 = x \div Pow2[(b + b) + b]
    BY <1>1, <2>1, <2>2, DivTwice
  <2>4. (b + b) + b \in Nat
    BY <1>1
  <2>5. q4 = x \div Pow2[((b + b) + b) + b]
    BY <1>1, <2>3, <2>4, DivTwice
  <2>6. ((b + b) + b) + b = WORD_BITS /\ x < Pow2[WORD_BITS] /\ WORD_BITS \in Nat
    BY <1>1, Sizes DEF Word, WORDS
  <2>7. QED BY <1>1, <2>5, <2>6, DivOfSmall
<1>7. /\ v \in [1..4 -> Limbs]
      /\ v[1] = x % V /\ v[2] = q1 % V /\ v[3] = q2 % V /\ v[4] = q3 % V
  BY <1>1, LimbQuotients
<1>8. \A l \in 1..4 : v[l] \in Int
  BY <1>7, Sizes DEF Limbs
<1>9. limbs_to_u64(v) = v[1] + V * (v[2] + V * (v[3] + V * v[4]))
  BY <1>8, LimbsHorner
<1> HIDE DEF v, V, q1, q2, q3, q4
<1>10. V * q4 = 0
  BY <1>1, <1>6
<1>11. /\ q3 = v[4] /\ q2 = V * q3 + v[3]
       /\ q1 = V * q2 + v[2] /\ x = V * q1 + v[1]
  BY <1>2, <1>3, <1>4, <1>5, <1>7, <1>8, <1>10
<1>12. limbs_to_u64(v) = x
  <2>1. v[3] + V * v[4] = q2
    BY <1>1, <1>3, <1>4, <1>8, <1>11
  <2>2. v[2] + V * q2 = q1
    BY <1>1, <1>3, <1>2, <1>8, <1>11
  <2>3. v[1] + V * q1 = x
    BY <1>1, <1>2, <1>8, <1>11
  <2>4. QED BY <1>9, <2>1, <2>2, <2>3
<1>13. QED BY <1>7, <1>12 DEF v, HasBits, LIMBS_PER_WORD

(* ---------------------------- additions ----------------------------- *)

(* The sum of one limb of two, four and five words. *)
LEMMA SumOfTwo ==
  ASSUME NEW a, NEW b, NEW l, a[l] \in Int, b[l] \in Int
  PROVE  ColumnSum(<<a, b>>, l) = a[l] + b[l]
<1> DEFINE ops == <<a, b>>
           f == [o \in Nat |-> IF o < 2 THEN ops[o + 1][l] ELSE 0]
<1>1. ColumnSum(ops, l) = Sum(f)[2]
  BY DEF ColumnSum
<1>2. f \in [Nat -> Int] /\ f[0] = a[l] /\ f[1] = b[l]
  OBVIOUS
<1> HIDE DEF f
<1>3. /\ Sum(f)[0] = 0 /\ Sum(f)[0 + 1] = Sum(f)[0] + f[0]
      /\ Sum(f)[1 + 1] = Sum(f)[1] + f[1]
  BY <1>2, SumDef
<1>4. QED BY <1>1, <1>2, <1>3

(* The sum of a column of four operands.                                   *)
LEMMA SumOfFour ==
  ASSUME NEW a, NEW b, NEW c, NEW d, NEW l,
         a[l] \in Int, b[l] \in Int, c[l] \in Int, d[l] \in Int
  PROVE  ColumnSum(<<a, b, c, d>>, l) = a[l] + b[l] + c[l] + d[l]
<1> DEFINE ops == <<a, b, c, d>>
           f == [o \in Nat |-> IF o < 4 THEN ops[o + 1][l] ELSE 0]
<1>1. ColumnSum(ops, l) = Sum(f)[4]
  BY DEF ColumnSum
<1>2. f \in [Nat -> Int] /\ f[0] = a[l] /\ f[1] = b[l] /\ f[2] = c[l] /\ f[3] = d[l]
  OBVIOUS
<1> HIDE DEF f
<1>3. /\ Sum(f)[0] = 0 /\ Sum(f)[0 + 1] = Sum(f)[0] + f[0]
      /\ Sum(f)[1 + 1] = Sum(f)[1] + f[1] /\ Sum(f)[2 + 1] = Sum(f)[2] + f[2]
      /\ Sum(f)[3 + 1] = Sum(f)[3] + f[3]
  BY <1>2, SumDef
<1>4. QED BY <1>1, <1>2, <1>3

(* The sum of a column of five operands.                                   *)
LEMMA SumOfFive ==
  ASSUME NEW a, NEW b, NEW c, NEW d, NEW e, NEW l,
         a[l] \in Int, b[l] \in Int, c[l] \in Int, d[l] \in Int, e[l] \in Int
  PROVE  ColumnSum(<<a, b, c, d, e>>, l) = a[l] + b[l] + c[l] + d[l] + e[l]
<1> DEFINE ops == <<a, b, c, d, e>>
           f == [o \in Nat |-> IF o < 5 THEN ops[o + 1][l] ELSE 0]
<1>1. ColumnSum(ops, l) = Sum(f)[5]
  BY DEF ColumnSum
<1>2. /\ f \in [Nat -> Int] /\ f[0] = a[l] /\ f[1] = b[l] /\ f[2] = c[l]
      /\ f[3] = d[l] /\ f[4] = e[l]
  OBVIOUS
<1> HIDE DEF f
<1>3. /\ Sum(f)[0] = 0 /\ Sum(f)[0 + 1] = Sum(f)[0] + f[0]
      /\ Sum(f)[1 + 1] = Sum(f)[1] + f[1] /\ Sum(f)[2 + 1] = Sum(f)[2] + f[2]
      /\ Sum(f)[3 + 1] = Sum(f)[3] + f[3] /\ Sum(f)[4 + 1] = Sum(f)[4] + f[4]
  BY <1>2, SumDef
<1>4. QED BY <1>1, <1>2, <1>3

(* A residue that is zero, with a number smaller than the modulus. *)
LEMMA SmallResidue ==
  ASSUME NEW y \in Int, -P < y, y < P, y % P = 0
  PROVE  y = 0
<1>1. P \in Nat /\ P > 0
  BY Sizes
<1>2. PICK q \in Int : y = q * P
  BY <1>1, Divisible
<1>3. q = 0
  BY <1>1, <1>2, SmallMultiple
<1>4. QED BY <1>1, <1>2, <1>3

(* s is the sum of a word's limbs with carries c, limb by limb.            *)
Carried(s, out, c) ==
  /\ \A l \in 1..4 : s[l] \in Int /\ out[l] \in Int /\ c[l] \in Int
  /\ \A l \in 1..4 : s[l] + CarryIn(c, l) - out[l] - c[l] * LIMB_VALUES = 0

(* Adding with carries is adding numbers, up to the last carry.            *)
LEMMA CarriedSum ==
  ASSUME NEW s, NEW out, NEW c, Carried(s, out, c)
  PROVE  limbs_to_u64(s) = limbs_to_u64(out) + WORDS * c[4]
<1> DEFINE V == LIMB_VALUES
<1>1. /\ V \in Nat
      /\ s[1] \in Int /\ s[2] \in Int /\ s[3] \in Int /\ s[4] \in Int
      /\ out[1] \in Int /\ out[2] \in Int /\ out[3] \in Int /\ out[4] \in Int
      /\ c[1] \in Int /\ c[2] \in Int /\ c[3] \in Int /\ c[4] \in Int
  BY Sizes DEF Carried
<1>2. /\ s[1] = out[1] + V * c[1] /\ s[2] = out[2] + V * c[2] - c[1]
      /\ s[3] = out[3] + V * c[3] - c[2] /\ s[4] = out[4] + V * c[4] - c[3]
  <2>1. /\ CarryIn(c, 1) = 0 /\ CarryIn(c, 2) = c[1] /\ CarryIn(c, 3) = c[2]
        /\ CarryIn(c, 4) = c[3]
    BY DEF CarryIn
  <2>2. ASSUME NEW l \in 1..4, CarryIn(c, l) \in Int
        PROVE  s[l] = out[l] + V * c[l] - CarryIn(c, l)
    <3>1. s[l] + CarryIn(c, l) - out[l] - c[l] * V = 0
      BY DEF Carried
    <3>2. s[l] \in Int /\ out[l] \in Int /\ c[l] \in Int
      BY DEF Carried
    <3>3. c[l] * V = V * c[l] /\ V * c[l] \in Int
      BY <1>1, <3>2
    <3> HIDE DEF V
    <3>4. QED BY <2>2, <3>1, <3>2, <3>3
  <2>3. s[1] = out[1] + V * c[1] - CarryIn(c, 1)
    BY <2>1, <2>2
  <2>4. s[2] = out[2] + V * c[2] - CarryIn(c, 2)
    BY <1>1, <2>1, <2>2
  <2>5. s[3] = out[3] + V * c[3] - CarryIn(c, 3)
    BY <1>1, <2>1, <2>2
  <2>6. s[4] = out[4] + V * c[4] - CarryIn(c, 4)
    BY <1>1, <2>1, <2>2
  <2> HIDE DEF V
  <2>7. s[1] = out[1] + V * c[1]
    <3> DEFINE y == out[1] + V * c[1]
    <3>1. y \in Int /\ CarryIn(c, 1) = 0 /\ s[1] = y - CarryIn(c, 1)
      BY <1>1, <2>1, <2>3
    <3> HIDE DEF y
    <3>2. s[1] = y
      BY <3>1
    <3>3. QED BY <3>2 DEF y
  <2>8. QED BY <2>1, <2>4, <2>5, <2>6, <2>7
<1>3. /\ limbs_to_u64(s) = s[1] + V * (s[2] + V * (s[3] + V * s[4]))
      /\ limbs_to_u64(out) = out[1] + V * (out[2] + V * (out[3] + V * out[4]))
  BY LimbsHorner DEF Carried
<1>4. WORDS = V * (V * (V * V))
  BY LimbPowers
<1> HIDE DEF V
<1>5. s[3] + V * s[4] = (out[3] + V * out[4]) + V * (V * c[4]) - c[2]
  BY <1>1, <1>2
<1> DEFINE y3 == out[3] + V * out[4]
           z3 == V * (V * c[4])
<1>6. y3 \in Int /\ z3 \in Int
  BY <1>1
<1>a. s[3] + V * s[4] = y3 + z3 - c[2]
  BY <1>5
<1> HIDE DEF y3, z3
<1>7. s[2] + V * (s[3] + V * s[4]) = (out[2] + V * y3) + V * z3 - c[1]
  BY <1>1, <1>2, <1>6, <1>a
<1> DEFINE y2 == out[2] + V * y3
           z2 == V * z3
<1>8. y2 \in Int /\ z2 \in Int
  BY <1>1, <1>6
<1>b. s[2] + V * (s[3] + V * s[4]) = y2 + z2 - c[1]
  BY <1>7
<1> HIDE DEF y2, z2
<1>9. s[1] + V * (s[2] + V * (s[3] + V * s[4])) = (out[1] + V * y2) + V * z2
  BY <1>1, <1>2, <1>8, <1>b
<1>10. V * z2 = WORDS * c[4]
  BY <1>1, <1>4 DEF z2, z3
<1>11. QED BY <1>3, <1>9, <1>10 DEF y2, y3

(* With limbs in range the sum is a word's limbs. *)
LEMMA CarriedWord ==
  ASSUME NEW s, NEW out \in [1..4 -> Limbs], NEW c, Carried(s, out, c)
  PROVE  out = u64_to_limbs(limbs_to_u64(s) % WORDS)
<1>1. limbs_to_u64(s) = WORDS * c[4] + limbs_to_u64(out) /\ c[4] \in Int
  <2>1. \A l \in 1..4 : out[l] \in Int /\ s[l] \in Int
    BY DEF Carried
  <2>2. limbs_to_u64(out) \in Int /\ WORDS * c[4] \in Int /\ c[4] \in Int
    BY <2>1, LimbsHorner, Sizes DEF Carried
  <2>3. QED BY <2>2, CarriedSum
<1>2. limbs_to_u64(out) \in 0..WORDS - 1 /\ u64_to_limbs(limbs_to_u64(out)) = out
  BY LimbsAreWords DEF Word
<1>3. limbs_to_u64(s) \in Int
  BY LimbsHorner DEF Carried
<1>4. limbs_to_u64(s) % WORDS = limbs_to_u64(out)
  <2> DEFINE x == limbs_to_u64(s)
             r == limbs_to_u64(out)
  <2>1. x \in Int /\ r \in 0..WORDS - 1 /\ x = WORDS * c[4] + r /\ c[4] \in Int
    BY <1>1, <1>2, <1>3
  <2>2. WORDS \in Nat /\ WORDS > 0
    BY Sizes
  <2> HIDE DEF x, r
  <2>3. x % WORDS = r
    BY <2>1, <2>2, DivUnique
  <2>4. QED BY <2>3 DEF x, r
<1>5. QED BY <1>2, <1>4

(* The columns of the operands' sums, and how many operands there are.     *)
Columns(operands, s, k) ==
  /\ k \in 1..5
  /\ \A l \in 1..4 : ColumnSum(operands, l) = s[l] /\ s[l] \in 0..k * (LIMB_VALUES - 1)

(* A sum constrained in the field is a sum: nothing wraps.                 *)
LEMMA AddExact ==
  ASSUME NEW operands, NEW s, NEW k, Columns(operands, s, k),
         NEW out \in [1..4 -> Limbs], NEW c, \A l \in 1..4 : c[l] \in 0..4,
         constrain_add(operands, out, c)
  PROVE  out = u64_to_limbs(limbs_to_u64(s) % WORDS)
<1>1. LIMB_VALUES \in Nat /\ LIMB_VALUES >= 2 /\ P \in Nat /\ P > 9 * LIMB_VALUES
  BY Sizes
<1>2. ASSUME NEW l \in 1..4
      PROVE  s[l] + CarryIn(c, l) - out[l] - c[l] * LIMB_VALUES = 0
  <2> DEFINE V == LIMB_VALUES
             y == s[l] + CarryIn(c, l) - out[l] - c[l] * V
  <2>1. s[l] \in 0..5 * (V - 1) /\ ColumnSum(operands, l) = s[l]
    BY <1>1 DEF Columns
  <2>2. CarryIn(c, l) \in 0..4 /\ c[l] \in 0..4 /\ out[l] \in 0..V - 1
    BY <1>1 DEF CarryIn, Limbs
  <2>3. y % P = 0
    BY <2>1 DEF constrain_add, LIMBS_PER_WORD
  <2>4. c[l] * V \in Nat /\ c[l] * V <= 4 * V
    <3>1. V * c[l] <= V * 4
      BY <1>1, <2>2, MulMonotone
    <3>2. QED BY <1>1, <2>2, <3>1
  <2>5. y \in Int /\ -P < y /\ y < P
    <3> HIDE DEF V
    <3>1. V \in Nat /\ P \in Nat /\ P > 9 * V
      BY <1>1 DEF V
    <3> DEFINE z == c[l] * V
    <3>2. z \in Nat /\ z <= 4 * V
      BY <2>4
    <3> HIDE DEF z
    <3>3. QED BY <2>1, <2>2, <3>1, <3>2 DEF z
  <2>6. QED BY <2>3, <2>5, SmallResidue
<1>3. Carried(s, out, c)
  BY <1>2, Sizes DEF Carried, Columns, Limbs
<1>4. QED BY <1>3, CarriedWord

(* The carries the prover writes satisfy the constraint, and are fewer     *)
(* than the operands.                                                      *)
LEMMA AddComplete ==
  ASSUME NEW operands, NEW s, NEW k, Columns(operands, s, k)
  PROVE  /\ constrain_add(operands, u64_to_limbs(limbs_to_u64(s) % WORDS),
                          add_with_carries(operands))
         /\ \A l \in 1..4 : add_with_carries(operands)[l] \in 0..k - 1
<1> DEFINE V == LIMB_VALUES
           c == add_with_carries(operands)
<1>1. V \in Nat /\ V >= 2 /\ LIMB_BITS \in Nat /\ V = Pow2[LIMB_BITS]
  BY Sizes DEF LIMB_VALUES
<1>2. ASSUME NEW x \in Int, NEW d \in 0..k - 1, 0 <= x, x <= k * (V - 1)
      PROVE  /\ (x + d) \div V \in 0..k - 1
             /\ (x + d) % V \in Limbs
             /\ x + d = V * ((x + d) \div V) + ((x + d) % V)
  <2> DEFINE q == (x + d) \div V
             r == (x + d) % V
  <2>0. k \in 1..5
    BY DEF Columns
  <2>1. x + d \in Nat /\ k \in 1..5 /\ d \in Nat /\ d <= k - 1
    BY <1>2, <2>0
  <2>2. q \in Nat /\ r \in Limbs /\ x + d = V * q + r
    BY <2>1, LowestLimb
  <2>3. q <= k - 1
    <3>1. SUFFICES ASSUME q >= k PROVE FALSE
      BY <2>1, <2>2
    <3>a. r \in Int /\ r >= 0
      BY <1>1, <2>2 DEF Limbs
    <3>b. q \in Nat /\ x + d = V * q + r /\ V \in Nat /\ k \in 1..5 /\ x <= k * (V - 1)
      BY <1>1, <1>2, <2>1, <2>2
    <3> HIDE DEF q, r, V
    <3>2. V * k <= V * q
      BY <3>b, <3>1, MulMonotone
    <3>3. V * q \in Int /\ V * k \in Int
      BY <3>b
    <3>4. V * k = k * (V - 1) + k
      BY <3>b
    <3>5. QED BY <1>2, <2>1, <3>a, <3>b, <3>2, <3>3, <3>4
  <2>4. QED BY <2>1, <2>2, <2>3
<1>3. /\ c[1] = s[1] \div V /\ c[2] = (s[2] + c[1]) \div V
      /\ c[3] = (s[3] + c[2]) \div V /\ c[4] = (s[4] + c[3]) \div V
  BY DEF add_with_carries, Columns
<1> DEFINE out == [l \in 1..4 |-> (s[l] + CarryIn(c, l)) % V]
<1>4. ASSUME NEW l \in 1..4, CarryIn(c, l) \in 0..k - 1, c[l] = (s[l] + CarryIn(c, l)) \div V
      PROVE  /\ c[l] \in 0..k - 1 /\ out[l] \in Limbs
             /\ s[l] + CarryIn(c, l) - out[l] - c[l] * V = 0
  <2>1. s[l] \in Int /\ 0 <= s[l] /\ s[l] <= k * (V - 1) /\ k \in 1..5
    BY <1>1 DEF Columns
  <2>2. /\ c[l] \in 0..k - 1 /\ out[l] \in Limbs
        /\ s[l] + CarryIn(c, l) = V * c[l] + out[l]
    BY <1>2, <1>4, <2>1
  <2> HIDE DEF c, out
  <2>3. V * c[l] = c[l] * V /\ V * c[l] \in Int /\ out[l] \in Int
    BY <1>1, <2>1, <2>2 DEF Limbs
  <2>4. QED BY <2>1, <2>2, <2>3, <1>4
<1> HIDE DEF c
<1>5. k \in 1..5 /\ \A l \in 1..4 : s[l] \in Int
  BY DEF Columns
<1>6. CarryIn(c, 1) = 0 /\ CarryIn(c, 2) = c[1] /\ CarryIn(c, 3) = c[2] /\ CarryIn(c, 4) = c[3]
  BY DEF CarryIn
<1>7. c[1] \in 0..k - 1
  <2>1. s[1] + 0 = s[1]
    BY <1>5
  <2>2. CarryIn(c, 1) \in 0..k - 1
    BY <1>5, <1>6
  <2>3. QED BY <1>3, <1>4, <1>6, <2>1, <2>2
<1>8. c[2] \in 0..k - 1
  BY <1>3, <1>4, <1>6, <1>7
<1>9. c[3] \in 0..k - 1
  BY <1>3, <1>4, <1>6, <1>8
<1>10. c[4] \in 0..k - 1
  BY <1>3, <1>4, <1>6, <1>9
<1>11. \A l \in 1..4 : CarryIn(c, l) \in 0..k - 1 /\ c[l] = (s[l] + CarryIn(c, l)) \div V
  <2>1. s[1] + 0 = s[1]
    BY <1>5
  <2>2. QED BY <1>3, <1>5, <1>6, <1>7, <1>8, <1>9, <2>1
<1>12. \A l \in 1..4 : /\ out[l] \in Limbs /\ c[l] \in 0..k - 1
                       /\ s[l] + CarryIn(c, l) - out[l] - c[l] * V = 0
  BY <1>4, <1>11
<1>13. out \in [1..4 -> Limbs]
  BY <1>12
<1> HIDE DEF out
<1>14. Carried(s, out, c)
  BY <1>5, <1>12, Sizes DEF Carried, Limbs
<1>15. out = u64_to_limbs(limbs_to_u64(s) % WORDS)
  BY <1>13, <1>14, CarriedWord
<1>16. constrain_add(operands, out, c)
  <2>1. 0 % P = 0
    <3>1. 0 = P * 0 + 0 /\ P \in Nat /\ P > 0
      BY Sizes
    <3>2. QED BY <3>1, DivUnique
  <2>2. QED BY <1>12, <2>1 DEF constrain_add, Columns, LIMBS_PER_WORD
<1>17. QED BY <1>12, <1>15, <1>16 DEF c

(* k words in limbs whose values add up to total.                          *)
SumsTo(operands, k, total) ==
  \E s : Columns(operands, s, k) /\ limbs_to_u64(s) = total

(* Limbs in range with carries of at most four that satisfy a limb-wise    *)
(* addition are those of the sum modulo a word: no addition wraps in the   *)
(* field.                                                                  *)
LEMMA SumExact ==
  ASSUME NEW operands, NEW k, NEW total, SumsTo(operands, k, total),
         NEW out \in [1..4 -> Limbs], NEW c, \A l \in 1..4 : c[l] \in 0..4,
         constrain_add(operands, out, c)
  PROVE  out = u64_to_limbs(total % WORDS)
<1>1. PICK s : Columns(operands, s, k) /\ limbs_to_u64(s) = total
  BY DEF SumsTo
<1>2. out = u64_to_limbs(limbs_to_u64(s) % WORDS)
  BY <1>1, AddExact
<1>3. QED BY <1>1, <1>2

(* The limbs of the sum modulo a word satisfy the addition with the        *)
(* carries the trace builder computes, which are smaller than the number   *)
(* of operands.                                                            *)
LEMMA SumComplete ==
  ASSUME NEW operands, NEW k, NEW total, SumsTo(operands, k, total)
  PROVE  /\ constrain_add(operands, u64_to_limbs(total % WORDS), add_with_carries(operands))
         /\ \A l \in 1..4 : add_with_carries(operands)[l] \in 0..k - 1
<1>1. PICK s : Columns(operands, s, k) /\ limbs_to_u64(s) = total
  BY DEF SumsTo
<1>2. /\ constrain_add(operands, u64_to_limbs(limbs_to_u64(s) % WORDS),
                       add_with_carries(operands))
      /\ \A l \in 1..4 : add_with_carries(operands)[l] \in 0..k - 1
  BY <1>1, AddComplete
<1>3. QED BY <1>1, <1>2

(* The limbs of a word are numbers below a limb's size.                    *)
LEMMA LimbRange ==
  ASSUME NEW x \in Word, NEW l \in 1..4
  PROVE  u64_to_limbs(x)[l] \in 0..LIMB_VALUES - 1
BY WordsAreLimbs DEF Limbs

(* The value of limbs added one by one. *)
LEMMA LimbsAdd ==
  ASSUME NEW x, NEW y, NEW s,
         \A l \in 1..4 : x[l] \in Int /\ y[l] \in Int /\ s[l] = x[l] + y[l]
  PROVE  limbs_to_u64(s) = limbs_to_u64(x) + limbs_to_u64(y)
<1>1. /\ s[1] = x[1] + y[1] /\ s[2] = x[2] + y[2] /\ s[3] = x[3] + y[3] /\ s[4] = x[4] + y[4]
      /\ x[1] \in Int /\ y[1] \in Int /\ x[2] \in Int /\ y[2] \in Int
      /\ x[3] \in Int /\ y[3] \in Int /\ x[4] \in Int /\ y[4] \in Int
  OBVIOUS
<1> DEFINE B == Pow2[LIMB_BITS]
           C == Pow2[LIMB_BITS * 2]
           D == Pow2[LIMB_BITS * 3]
<1>2. B \in Int /\ C \in Int /\ D \in Int
  BY LimbPowers, Sizes DEF LIMB_VALUES
<1>3. /\ limbs_to_u64(s) = s[1] + B * s[2] + C * s[3] + D * s[4]
      /\ limbs_to_u64(x) = x[1] + B * x[2] + C * x[3] + D * x[4]
      /\ limbs_to_u64(y) = y[1] + B * y[2] + C * y[3] + D * y[4]
  BY DEF limbs_to_u64
<1> HIDE DEF B, C, D
<1>4. ASSUME NEW M \in Int, NEW a \in Int, NEW b \in Int
      PROVE  M * (a + b) = M * a + M * b /\ M * a \in Int /\ M * b \in Int
  OBVIOUS
<1> DEFINE bx == B * x[2]
           by == B * y[2]
           cx == C * x[3]
           cy == C * y[3]
           dx == D * x[4]
           dy == D * y[4]
<1>5. /\ B * s[2] = bx + by /\ C * s[3] = cx + cy /\ D * s[4] = dx + dy
      /\ bx \in Int /\ by \in Int /\ cx \in Int /\ cy \in Int /\ dx \in Int /\ dy \in Int
  BY <1>1, <1>2, <1>4
<1>6. /\ limbs_to_u64(s) = x[1] + y[1] + (bx + by) + (cx + cy) + (dx + dy)
      /\ limbs_to_u64(x) = x[1] + bx + cx + dx
      /\ limbs_to_u64(y) = y[1] + by + cy + dy
  BY <1>1, <1>3, <1>5
<1> HIDE DEF bx, by, cx, cy, dx, dy
<1>7. QED BY <1>1, <1>5, <1>6

(* The limbs of two words sum to their sum.                                *)
LEMMA TwoWords ==
  ASSUME NEW a \in Word, NEW b \in Word
  PROVE  SumsTo(<<u64_to_limbs(a), u64_to_limbs(b)>>, 2, a + b)
<1> DEFINE V == LIMB_VALUES
           x == u64_to_limbs(a)
           y == u64_to_limbs(b)
           s == [l \in 1..4 |-> x[l] + y[l]]
           t == <<x, y>>
<1>1. V \in Nat /\ \A l \in 1..4 : x[l] \in 0..V - 1 /\ y[l] \in 0..V - 1
  BY LimbRange, Sizes
<1>2. limbs_to_u64(x) = a /\ limbs_to_u64(y) = b
  BY WordsAreLimbs
<1>3. \A l \in 1..4 : ColumnSum(t, l) = x[l] + y[l]
  BY <1>1, SumOfTwo
<1> HIDE DEF x, y, V, t
<1>4. Columns(t, s, 2)
  <2>1. \A l \in 1..4 : s[l] \in 0..2 * (V - 1)
    BY <1>1
  <2>2. QED BY <1>3, <2>1 DEF Columns, V
<1>5. limbs_to_u64(s) = limbs_to_u64(x) + limbs_to_u64(y)
  BY <1>1, LimbsAdd
<1>6. QED BY <1>2, <1>4, <1>5 DEF SumsTo, x, y, t

(* The limbs of four words sum to their sum.                               *)
LEMMA FourWords ==
  ASSUME NEW a \in Word, NEW b \in Word, NEW c \in Word, NEW d \in Word
  PROVE  SumsTo(<<u64_to_limbs(a), u64_to_limbs(b), u64_to_limbs(c), u64_to_limbs(d)>>, 4,
                a + b + c + d)
<1> DEFINE V == LIMB_VALUES
           x == u64_to_limbs(a)
           y == u64_to_limbs(b)
           z == u64_to_limbs(c)
           w == u64_to_limbs(d)
           s == [l \in 1..4 |-> x[l] + y[l] + z[l] + w[l]]
           t == <<x, y, z, w>>
<1>1. V \in Nat /\ \A l \in 1..4 : /\ x[l] \in 0..V - 1 /\ y[l] \in 0..V - 1
                                   /\ z[l] \in 0..V - 1 /\ w[l] \in 0..V - 1
  BY LimbRange, Sizes
<1>2. /\ limbs_to_u64(x) = a /\ limbs_to_u64(y) = b
      /\ limbs_to_u64(z) = c /\ limbs_to_u64(w) = d
  BY WordsAreLimbs
<1>3. \A l \in 1..4 : ColumnSum(t, l) = x[l] + y[l] + z[l] + w[l]
  BY <1>1, SumOfFour
<1> HIDE DEF x, y, z, w, V, t
<1>4. Columns(t, s, 4)
  <2>1. \A l \in 1..4 : s[l] \in 0..4 * (V - 1)
    BY <1>1
  <2>2. QED BY <1>3, <2>1 DEF Columns, V
<1>5. limbs_to_u64(s) = (limbs_to_u64(x) + limbs_to_u64(y)) + (limbs_to_u64(z) + limbs_to_u64(w))
  <2> DEFINE p == [l \in 1..4 |-> x[l] + y[l]]
             q == [l \in 1..4 |-> z[l] + w[l]]
  <2>1. \A l \in 1..4 : x[l] \in Int /\ y[l] \in Int /\ z[l] \in Int /\ w[l] \in Int
    BY <1>1
  <2>2. limbs_to_u64(p) = limbs_to_u64(x) + limbs_to_u64(y)
    BY <2>1, LimbsAdd
  <2>3. limbs_to_u64(q) = limbs_to_u64(z) + limbs_to_u64(w)
    BY <2>1, LimbsAdd
  <2>4. \A l \in 1..4 : p[l] \in Int /\ q[l] \in Int /\ s[l] = p[l] + q[l]
    BY <2>1
  <2> HIDE DEF p, q, s
  <2>5. limbs_to_u64(s) = limbs_to_u64(p) + limbs_to_u64(q)
    BY <2>4, LimbsAdd
  <2>6. QED BY <2>2, <2>3, <2>5
<1>7. a \in Int /\ b \in Int /\ c \in Int /\ d \in Int
  BY Sizes DEF Word
<1>8. limbs_to_u64(s) = a + b + c + d
  BY <1>2, <1>5, <1>7
<1>9. QED BY <1>4, <1>8 DEF SumsTo, x, y, z, w, t

(* The limbs of five words sum to their sum.                               *)
LEMMA FiveWords ==
  ASSUME NEW a \in Word, NEW b \in Word, NEW c \in Word, NEW d \in Word, NEW e \in Word
  PROVE  SumsTo(<<u64_to_limbs(a), u64_to_limbs(b), u64_to_limbs(c), u64_to_limbs(d),
                  u64_to_limbs(e)>>, 5, a + b + c + d + e)
<1> DEFINE V == LIMB_VALUES
           x == u64_to_limbs(a)
           y == u64_to_limbs(b)
           z == u64_to_limbs(c)
           w == u64_to_limbs(d)
           u == u64_to_limbs(e)
           s == [l \in 1..4 |-> x[l] + y[l] + z[l] + w[l] + u[l]]
           t == <<x, y, z, w, u>>
<1>1. V \in Nat /\ \A l \in 1..4 : /\ x[l] \in 0..V - 1 /\ y[l] \in 0..V - 1
                                   /\ z[l] \in 0..V - 1 /\ w[l] \in 0..V - 1
                                   /\ u[l] \in 0..V - 1
  BY LimbRange, Sizes
<1>2. /\ limbs_to_u64(x) = a /\ limbs_to_u64(y) = b
      /\ limbs_to_u64(z) = c /\ limbs_to_u64(w) = d /\ limbs_to_u64(u) = e
  BY WordsAreLimbs
<1>3. \A l \in 1..4 : ColumnSum(t, l) = x[l] + y[l] + z[l] + w[l] + u[l]
  BY <1>1, SumOfFive
<1> HIDE DEF x, y, z, w, u, V, t
<1>4. Columns(t, s, 5)
  <2>1. \A l \in 1..4 : s[l] \in 0..5 * (V - 1)
    BY <1>1
  <2>2. QED BY <1>3, <2>1 DEF Columns, V
<1>5. limbs_to_u64(s) = ((limbs_to_u64(x) + limbs_to_u64(y)) + (limbs_to_u64(z) + limbs_to_u64(w)))
                          + limbs_to_u64(u)
  <2> DEFINE p == [l \in 1..4 |-> x[l] + y[l]]
             q == [l \in 1..4 |-> z[l] + w[l]]
             r == [l \in 1..4 |-> p[l] + q[l]]
  <2>1. \A l \in 1..4 : /\ x[l] \in Int /\ y[l] \in Int /\ z[l] \in Int /\ w[l] \in Int
                          /\ u[l] \in Int
    BY <1>1
  <2>2. limbs_to_u64(p) = limbs_to_u64(x) + limbs_to_u64(y)
    BY <2>1, LimbsAdd
  <2>3. limbs_to_u64(q) = limbs_to_u64(z) + limbs_to_u64(w)
    BY <2>1, LimbsAdd
  <2>4. \A l \in 1..4 : /\ p[l] \in Int /\ q[l] \in Int /\ p[l] = x[l] + y[l]
                          /\ q[l] = z[l] + w[l]
    BY <2>1
  <2> HIDE DEF p, q
  <2>5. limbs_to_u64(r) = limbs_to_u64(p) + limbs_to_u64(q)
    BY <2>4, LimbsAdd
  <2>6. ASSUME NEW l \in 1..4
        PROVE  r[l] \in Int /\ u[l] \in Int /\ s[l] = r[l] + u[l]
    <3>1. r[l] = p[l] + q[l] /\ s[l] = x[l] + y[l] + z[l] + w[l] + u[l]
      OBVIOUS
    <3>2. QED BY <2>1, <2>4, <3>1
  <2> HIDE DEF r, s
  <2>7. limbs_to_u64(s) = limbs_to_u64(r) + limbs_to_u64(u)
    BY <2>6, LimbsAdd
  <2>8. QED BY <2>2, <2>3, <2>5, <2>7
<1>7. a \in Int /\ b \in Int /\ c \in Int /\ d \in Int /\ e \in Int
  BY Sizes DEF Word
<1>8. limbs_to_u64(s) = a + b + c + d + e
  BY <1>2, <1>5, <1>7
<1>9. QED BY <1>4, <1>8 DEF SumsTo, x, y, z, w, u, t

(* ------------------------------- bits ------------------------------- *)

IsBits(f) == \A i \in BitPlaces : f[i] \in {0, 1}

(* The word made of bits has those bits. *)
LEMMA BitsOfWord ==
  ASSUME NEW bits, IsBits(bits)
  PROVE  FromBits(bits) \in Word /\ \A i \in BitPlaces : Bit(FromBits(bits), i) = bits[i]
<1> DEFINE n == WORD_BITS
           f == [i \in Nat |-> IF i < n THEN bits[i] * Pow2[1 * i] ELSE 0]
           S == Sum(f)
<1>1. n \in Nat /\ WORDS = Pow2[n] /\ FromBits(bits) = S[n]
  BY Sizes DEF FromBits, DigitSum, WORDS
<1>2. \A i \in Nat : i < n => bits[i] \in {0, 1}
  BY <1>1 DEF IsBits, BitPlaces
<1>3. \A i \in Nat : Pow2[i] \in Nat /\ Pow2[i] >= 1 /\ Pow2[i + 1] = 2 * Pow2[i] /\ 1 * i = i
  BY Pow2Positive, Pow2Def
<1> HIDE DEF n
<1>4. f \in [Nat -> Int] /\ \A i \in Nat : i < n => f[i] = bits[i] * Pow2[i]
  BY <1>1, <1>2, <1>3
<1>5. S[0] = 0 /\ \A i \in Nat : S[i + 1] = S[i] + f[i]
  BY <1>4, SumDef
<1> HIDE DEF f, S
<1>6. ASSUME NEW i \in Nat, i < n
      PROVE  S[i + 1] = S[i] + bits[i] * Pow2[i]
  BY <1>4, <1>5, <1>6
<1>7. \A i \in Nat : i <= n => S[i] \in 0..Pow2[i] - 1
  <2> DEFINE T == {i \in Nat : i <= n => S[i] \in 0..Pow2[i] - 1}
  <2>1. 0 \in T
    BY <1>3, <1>5
  <2>2. ASSUME NEW i \in Nat, i \in T PROVE i + 1 \in T
    <3>1. SUFFICES ASSUME i + 1 <= n PROVE S[i + 1] \in 0..Pow2[i + 1] - 1
      OBVIOUS
    <3>2. S[i] \in 0..Pow2[i] - 1 /\ i < n
      BY <1>1, <2>2, <3>1
    <3>3. S[i + 1] = S[i] + bits[i] * Pow2[i] /\ bits[i] \in {0, 1}
      BY <1>2, <1>6, <3>2
    <3>4. 0 * Pow2[i] = 0 /\ 1 * Pow2[i] = Pow2[i]
      BY <1>3
    <3>5. S[i + 1] \in {S[i] + 0, S[i] + Pow2[i]}
      BY <3>3, <3>4
    <3>6. Pow2[i] \in Nat /\ Pow2[i + 1] = 2 * Pow2[i]
      BY <1>3
    <3>7. QED BY <3>2, <3>5, <3>6
  <2>3. Nat \subseteq T
    BY <2>1, <2>2, SetInduction
  <2>4. QED BY <2>3
<1>8. ASSUME NEW i \in Nat, i < n
      PROVE  \A m \in Nat : i < m /\ m <= n => (S[m] \div Pow2[i]) % 2 = bits[i]
  <2> DEFINE T == {m \in Nat : i < m /\ m <= n => (S[m] \div Pow2[i]) % 2 = bits[i]}
  <2>1. 0 \in T
    OBVIOUS
  <2>2. ASSUME NEW m \in Nat, m \in T PROVE m + 1 \in T
    <3>1. SUFFICES ASSUME i < m + 1, m + 1 <= n
                   PROVE  (S[m + 1] \div Pow2[i]) % 2 = bits[i]
      OBVIOUS
    <3>2. m < n /\ i <= m /\ m <= n /\ S[m] \in Int /\ bits[m] \in {0, 1}
      BY <1>1, <1>2, <1>7, <3>1
    <3>3. S[m + 1] = S[m] + bits[m] * Pow2[m]
      BY <1>6, <3>2
    <3>4. CASE i = m
      <4>1. S[m] \in 0..Pow2[i] - 1 /\ Pow2[i] \in Nat /\ Pow2[i] > 0
        BY <1>3, <1>7, <3>2, <3>4
      <4>2. S[m + 1] = Pow2[i] * bits[i] + S[m] /\ S[m + 1] \in Int /\ bits[i] \in Int
        <5>1. bits[m] * Pow2[m] = Pow2[i] * bits[i] /\ Pow2[i] * bits[i] \in Int
          BY <3>2, <3>4, <4>1
        <5>2. QED BY <3>2, <3>3, <3>4, <5>1
      <4>3. S[m + 1] \div Pow2[i] = bits[i]
        BY <4>1, <4>2, DivUnique
      <4>4. bits[i] % 2 = bits[i]
        BY <3>2, <3>4
      <4>5. QED BY <4>3, <4>4
    <3>5. CASE i < m
      <4>1. (S[m] \div Pow2[i]) % 2 = bits[i]
        BY <2>2, <3>2, <3>5
      <4> DEFINE j == m - i - 1
                 k == bits[m] * Pow2[j]
      <4>2. j \in Nat /\ m = i + (1 + j)
        BY <3>5
      <4>3. Pow2[m] = Pow2[i] * (2 * Pow2[j])
        <5>1. Pow2[i + (1 + j)] = Pow2[i] * Pow2[1 + j] /\ Pow2[1 + j] = Pow2[1] * Pow2[j]
          <6>1. 1 + j \in Nat
            BY <4>2
          <6> HIDE DEF j
          <6>2. QED BY <4>2, <6>1, Pow2Sum
        <5>2. QED BY <4>2, <5>1, SmallPowers
      <4>4. Pow2[j] \in Nat /\ Pow2[i] \in Nat
        BY <1>3, <4>2
      <4> HIDE DEF j
      <4>5. k \in Int /\ bits[m] * Pow2[m] = Pow2[i] * (2 * k)
        <5>1. k \in Int
          BY <3>2, <4>4
        <5>2. CASE bits[m] = 0
          <6>1. k = 0 /\ 0 * Pow2[m] = 0 /\ Pow2[i] * 0 = 0 /\ 2 * 0 = 0
            BY <1>3, <4>4, <5>2
          <6>2. QED BY <5>1, <5>2, <6>1
        <5>3. CASE bits[m] = 1
          <6>1. k = Pow2[j] /\ 1 * Pow2[m] = Pow2[m]
            BY <1>3, <4>4, <5>3
          <6>2. QED BY <4>3, <5>1, <5>3, <6>1
        <5>4. QED BY <3>2, <5>2, <5>3
      <4> HIDE DEF k
      <4>6. 2 * k \in Int /\ S[m + 1] \in Int /\ S[m + 1] = S[m] + Pow2[i] * (2 * k)
        <5>1. 2 * k \in Int /\ Pow2[i] * (2 * k) \in Int
          BY <4>4, <4>5
        <5>2. QED BY <3>2, <3>3, <4>5, <5>1
      <4>7. S[m + 1] \div Pow2[i] = (S[m] \div Pow2[i]) + 2 * k
        BY <3>2, <4>6, DivShift
      <4>8. S[m] \div Pow2[i] \in Int
        BY <3>2, DivFacts
      <4> DEFINE q == S[m] \div Pow2[i]
      <4>9. q \in Int /\ S[m + 1] \div Pow2[i] = q + 2 * k /\ q % 2 = bits[i]
        BY <4>1, <4>7, <4>8
      <4> HIDE DEF q
      <4>10. (q + 2 * k) % 2 = q % 2
        BY <4>5, <4>9
      <4>11. QED BY <4>9, <4>10
    <3>6. QED BY <3>2, <3>4, <3>5
  <2>3. Nat \subseteq T
    BY <2>1, <2>2, SetInduction
  <2>4. QED BY <2>3
<1>9. \A i \in BitPlaces : Bit(S[n], i) = bits[i]
  BY <1>1, <1>8 DEF Bit, BitPlaces, n
<1>10. S[n] \in Word
  BY <1>1, <1>7 DEF Word
<1>11. QED BY <1>1, <1>9, <1>10

(* Every bit is 0 or 1. *)
LEMMA BitIsBit ==
  ASSUME NEW x \in Nat, NEW i \in Nat
  PROVE  Bit(x, i) \in {0, 1}
<1>1. x \div Pow2[i] \in Int
  BY DivFacts
<1>2. (x \div Pow2[i]) % 2 \in {0, 1}
  BY <1>1
<1>3. QED BY <1>2 DEF Bit

(* The places of bits, and the places a rotation reads. *)
LEMMA Places ==
  /\ BitPlaces \subseteq Nat
  /\ \A i \in BitPlaces, n \in Nat : (i + n) % WORD_BITS \in BitPlaces
<1>1. WORD_BITS \in Nat /\ WORD_BITS > 0
  BY Sizes
<1>2. \A x \in Nat : x % WORD_BITS \in 0..WORD_BITS - 1
  BY <1>1
<1>3. QED BY <1>1, <1>2 DEF BitPlaces

(* A rotated word has the bits of the word. *)
LEMMA RotatedBits ==
  ASSUME NEW x \in Nat, NEW n \in Nat
  PROVE  /\ RotateRight(x, n) \in Word
         /\ \A i \in BitPlaces : /\ Bit(RotateRight(x, n), i) = RotatedBit(x, i + n)
                                 /\ RotatedBit(x, i + n) \in {0, 1}
<1> DEFINE f == [i \in BitPlaces |-> Bit(x, (i + n) % WORD_BITS)]
<1>1. ASSUME NEW i \in BitPlaces
      PROVE  f[i] \in {0, 1} /\ f[i] = RotatedBit(x, i + n)
  <2>1. (i + n) % WORD_BITS \in Nat
    BY Places
  <2>2. QED BY <2>1, BitIsBit DEF RotatedBit
<1>2. RotateRight(x, n) = FromBits(f)
  BY DEF RotateRight
<1> HIDE DEF f
<1>3. IsBits(f)
  BY <1>1 DEF IsBits
<1>4. QED BY <1>1, <1>2, <1>3, BitsOfWord

(* A shifted word has the bits above. *)
LEMMA ShiftedBits ==
  ASSUME NEW x \in Word, NEW n \in Nat
  PROVE  /\ x \div Pow2[n] \in Nat
         /\ \A i \in BitPlaces : /\ Bit(x \div Pow2[n], i) = ShiftedBit(x, i + n)
                                 /\ ShiftedBit(x, i + n) \in {0, 1}
<1>1. x \in Nat /\ x < Pow2[WORD_BITS] /\ WORD_BITS \in Nat
  BY Sizes DEF Word, WORDS
<1>2. x \div Pow2[n] \in Nat
  <2>1. x \in Int /\ x >= 0
    BY <1>1
  <2>2. x \div Pow2[n] \in Int /\ (x >= 0 => x \div Pow2[n] >= 0)
    BY <2>1, DivFacts
  <2>3. QED BY <2>1, <2>2
<1>3. ASSUME NEW i \in BitPlaces
      PROVE  Bit(x \div Pow2[n], i) = ShiftedBit(x, i + n) /\ ShiftedBit(x, i + n) \in {0, 1}
  <2>1. i \in Nat /\ n + i = i + n /\ i + n \in Nat
    BY Places
  <2>2. (x \div Pow2[n]) \div Pow2[i] = x \div Pow2[n + i]
    BY <1>1, <2>1, DivTwice
  <2>3. Bit(x \div Pow2[n], i) = Bit(x, i + n)
    BY <2>1, <2>2 DEF Bit
  <2>4. i + n >= WORD_BITS => Bit(x, i + n) = 0
    <3>1. SUFFICES ASSUME i + n >= WORD_BITS PROVE Bit(x, i + n) = 0
      OBVIOUS
    <3>2. Pow2[WORD_BITS] <= Pow2[i + n]
      BY <1>1, <2>1, <3>1, Pow2Monotone
    <3>3. Pow2[WORD_BITS] \in Nat /\ Pow2[i + n] \in Nat
      BY <1>1, <2>1, Pow2Positive
    <3>4. x \div Pow2[i + n] = 0
      BY <1>1, <2>1, <3>2, <3>3, DivOfSmall
    <3>5. QED BY <3>4 DEF Bit
  <2>5. Bit(x, i + n) \in {0, 1}
    BY <1>1, <2>1, BitIsBit
  <2>6. QED BY <1>1, <2>1, <2>3, <2>4, <2>5 DEF ShiftedBit
<1>4. QED BY <1>2, <1>3

(* The limbs of an exclusive or, from polynomials in the bits read.        *)
XorLimbs(p, q, r) == FromBits([i \in BitPlaces |-> xor3_expr(p[i], q[i], r[i])])

(* The exclusive or of three words is what the polynomials in their bits   *)
(* give.                                                                   *)
LEMMA XorOfBits ==
  ASSUME NEW x, NEW y, NEW z, NEW p, NEW q, NEW r,
         \A i \in BitPlaces : /\ Bit(x, i) = p[i] /\ Bit(y, i) = q[i] /\ Bit(z, i) = r[i]
                              /\ p[i] \in {0, 1} /\ q[i] \in {0, 1} /\ r[i] \in {0, 1}
  PROVE  XorWords(x, y, z) \in Word /\ XorWords(x, y, z) = XorLimbs(p, q, r)
<1> DEFINE f == [i \in BitPlaces |-> Xor(Bit(x, i), Bit(y, i), Bit(z, i))]
           g == [i \in BitPlaces |-> xor3_expr(p[i], q[i], r[i])]
<1>1. \A i \in BitPlaces : f[i] = g[i] /\ f[i] \in {0, 1}
  <2>1. \A a \in {0, 1}, b \in {0, 1}, c \in {0, 1} :
          Xor(a, b, c) = xor3_expr(a, b, c) /\ Xor(a, b, c) \in {0, 1}
    BY DEF Xor, xor3_expr, xor2_expr
  <2>2. QED BY <2>1
<1>2. f = g
  BY <1>1
<1>3. IsBits(f)
  BY <1>1 DEF IsBits
<1>4. XorWords(x, y, z) = FromBits(f) /\ XorLimbs(p, q, r) = FromBits(g)
  BY DEF XorWords, XorLimbs
<1>5. QED BY <1>2, <1>3, <1>4, BitsOfWord

(* The sigma functions of the rounds and of the schedule are words, and    *)
(* the constraints' polynomials are their limbs.                           *)
LEMMA BigSigma0IsWord ==
  ASSUME NEW x \in Word
  PROVE  big_sigma0(x) \in Word /\ BigSigma0Limbs(x) = u64_to_limbs(big_sigma0(x))
<1> DEFINE p == [i \in BitPlaces |-> RotatedBit(x, i + 28)]
           q == [i \in BitPlaces |-> RotatedBit(x, i + 34)]
           r == [i \in BitPlaces |-> RotatedBit(x, i + 39)]
<1>1. x \in Nat
  BY Sizes DEF Word
<1>2. \A i \in BitPlaces :
        /\ Bit(RotateRight(x, 28), i) = p[i] /\ Bit(RotateRight(x, 34), i) = q[i]
        /\ Bit(RotateRight(x, 39), i) = r[i]
        /\ p[i] \in {0, 1} /\ q[i] \in {0, 1} /\ r[i] \in {0, 1}
  BY <1>1, RotatedBits
<1>3. BigSigma0Limbs(x) = u64_to_limbs(XorLimbs(p, q, r))
  BY DEF BigSigma0Limbs, XorLimbs
<1> HIDE DEF p, q, r
<1>4. QED BY <1>2, <1>3, XorOfBits DEF big_sigma0

(* The large sigma of E as the constraints pack it.                        *)
LEMMA BigSigma1IsWord ==
  ASSUME NEW x \in Word
  PROVE  big_sigma1(x) \in Word /\ BigSigma1Limbs(x) = u64_to_limbs(big_sigma1(x))
<1> DEFINE p == [i \in BitPlaces |-> RotatedBit(x, i + 14)]
           q == [i \in BitPlaces |-> RotatedBit(x, i + 18)]
           r == [i \in BitPlaces |-> RotatedBit(x, i + 41)]
<1>1. x \in Nat
  BY Sizes DEF Word
<1>2. \A i \in BitPlaces :
        /\ Bit(RotateRight(x, 14), i) = p[i] /\ Bit(RotateRight(x, 18), i) = q[i]
        /\ Bit(RotateRight(x, 41), i) = r[i]
        /\ p[i] \in {0, 1} /\ q[i] \in {0, 1} /\ r[i] \in {0, 1}
  BY <1>1, RotatedBits
<1>3. BigSigma1Limbs(x) = u64_to_limbs(XorLimbs(p, q, r))
  BY DEF BigSigma1Limbs, XorLimbs
<1> HIDE DEF p, q, r
<1>4. QED BY <1>2, <1>3, XorOfBits DEF big_sigma1

(* The small sigma of the older lag as the constraints pack it.            *)
LEMMA SmallSigma0IsWord ==
  ASSUME NEW x \in Word
  PROVE  /\ small_sigma0(x) \in Word
         /\ pack_small_sigma0_limb(x) = u64_to_limbs(small_sigma0(x))
<1> DEFINE p == [i \in BitPlaces |-> RotatedBit(x, i + 1)]
           q == [i \in BitPlaces |-> RotatedBit(x, i + 8)]
           r == [i \in BitPlaces |-> ShiftedBit(x, i + 7)]
<1>1. x \in Nat
  BY Sizes DEF Word
<1>2. \A i \in BitPlaces :
        /\ Bit(RotateRight(x, 1), i) = p[i] /\ Bit(RotateRight(x, 8), i) = q[i]
        /\ Bit(x \div Pow2[7], i) = r[i]
        /\ p[i] \in {0, 1} /\ q[i] \in {0, 1} /\ r[i] \in {0, 1}
  BY <1>1, RotatedBits, ShiftedBits
<1>3. pack_small_sigma0_limb(x) = u64_to_limbs(XorLimbs(p, q, r))
  BY DEF pack_small_sigma0_limb, XorLimbs
<1> HIDE DEF p, q, r
<1>4. QED BY <1>2, <1>3, XorOfBits DEF small_sigma0

(* The small sigma of the newer lag as the constraints pack it.            *)
LEMMA SmallSigma1IsWord ==
  ASSUME NEW x \in Word
  PROVE  /\ small_sigma1(x) \in Word
         /\ pack_small_sigma1_limb(x) = u64_to_limbs(small_sigma1(x))
<1> DEFINE p == [i \in BitPlaces |-> RotatedBit(x, i + 19)]
           q == [i \in BitPlaces |-> RotatedBit(x, i + 61)]
           r == [i \in BitPlaces |-> ShiftedBit(x, i + 6)]
<1>1. x \in Nat
  BY Sizes DEF Word
<1>2. \A i \in BitPlaces :
        /\ Bit(RotateRight(x, 19), i) = p[i] /\ Bit(RotateRight(x, 61), i) = q[i]
        /\ Bit(x \div Pow2[6], i) = r[i]
        /\ p[i] \in {0, 1} /\ q[i] \in {0, 1} /\ r[i] \in {0, 1}
  BY <1>1, RotatedBits, ShiftedBits
<1>3. pack_small_sigma1_limb(x) = u64_to_limbs(XorLimbs(p, q, r))
  BY DEF pack_small_sigma1_limb, XorLimbs
<1> HIDE DEF p, q, r
<1>4. QED BY <1>2, <1>3, XorOfBits DEF small_sigma1

(* The same for the choice and the majority. *)
LEMMA ChIsWord ==
  ASSUME NEW x \in Word, NEW y \in Word, NEW z \in Word
  PROVE  ch(x, y, z) \in Word /\ ChLimbs(x, y, z) = u64_to_limbs(ch(x, y, z))
<1> DEFINE f == [i \in BitPlaces |-> IF Bit(x, i) = 1 THEN Bit(y, i) ELSE Bit(z, i)]
           g == [i \in BitPlaces |-> Bit(x, i) * Bit(y, i) + (1 - Bit(x, i)) * Bit(z, i)]
<1>1. \A i \in BitPlaces : Bit(x, i) \in {0, 1} /\ Bit(y, i) \in {0, 1} /\ Bit(z, i) \in {0, 1}
  BY BitIsBit, Places, Sizes DEF Word
<1>2. \A i \in BitPlaces : f[i] = g[i] /\ f[i] \in {0, 1}
  <2>1. \A a \in {0, 1}, b \in {0, 1}, c \in {0, 1} :
          (IF a = 1 THEN b ELSE c) = a * b + (1 - a) * c
    OBVIOUS
  <2>2. QED BY <1>1, <2>1
<1>3. f = g
  BY <1>2
<1>4. ch(x, y, z) = FromBits(f) /\ ChLimbs(x, y, z) = u64_to_limbs(FromBits(g))
  BY DEF ch, ChLimbs
<1>5. IsBits(f)
  BY <1>2 DEF IsBits
<1>6. QED BY <1>3, <1>4, <1>5, BitsOfWord

(* The majority of three words as the constraints pack it.                 *)
LEMMA MajIsWord ==
  ASSUME NEW x \in Word, NEW y \in Word, NEW z \in Word
  PROVE  maj(x, y, z) \in Word /\ MajLimbs(x, y, z) = u64_to_limbs(maj(x, y, z))
<1> DEFINE f == [i \in BitPlaces |->
                   IF Bit(x, i) + Bit(y, i) + Bit(z, i) >= 2 THEN 1 ELSE 0]
           g == [i \in BitPlaces |->
                   Bit(x, i) * Bit(y, i) + Bit(x, i) * Bit(z, i) + Bit(y, i) * Bit(z, i)
                     - 2 * Bit(x, i) * Bit(y, i) * Bit(z, i)]
<1>1. \A i \in BitPlaces : Bit(x, i) \in {0, 1} /\ Bit(y, i) \in {0, 1} /\ Bit(z, i) \in {0, 1}
  BY BitIsBit, Places, Sizes DEF Word
<1>2. \A i \in BitPlaces : f[i] = g[i] /\ f[i] \in {0, 1}
  <2>1. \A a \in {0, 1}, b \in {0, 1}, c \in {0, 1} :
          (IF a + b + c >= 2 THEN 1 ELSE 0) = a * b + a * c + b * c - 2 * a * b * c
    OBVIOUS
  <2>2. QED BY <1>1, <2>1
<1>3. f = g
  BY <1>2
<1>4. maj(x, y, z) = FromBits(f) /\ MajLimbs(x, y, z) = u64_to_limbs(FromBits(g))
  BY DEF maj, MajLimbs
<1>5. IsBits(f)
  BY <1>2 DEF IsBits
<1>6. QED BY <1>3, <1>4, <1>5, BitsOfWord

(* -------------------------- the compression ------------------------- *)

(* A recursion over the first numbers has a solution. *)
Runs(f, N, V, b, F) ==
  f \in [0..N -> V] /\ f[0] = b /\ \A n \in 1..N : f[n] = F[n][f[n - 1]]

(* A run of N steps from a base exists: the recursive functions of the     *)
(* compression are defined everywhere.                                     *)
LEMMA Recursion ==
  ASSUME NEW N \in Nat, NEW V, NEW b \in V, NEW F \in [1..N -> [V -> V]]
  PROVE  \E f : Runs(f, N, V, b, F)
<1> DEFINE T == {m \in Nat : m <= N =>
                   \E f \in [0..m -> V] : f[0] = b /\ \A n \in 1..m : f[n] = F[n][f[n - 1]]}
<1>1. 0 \in T
  <2> DEFINE f == [i \in 0..0 |-> b]
  <2>1. f \in [0..0 -> V] /\ f[0] = b /\ \A n \in 1..0 : f[n] = F[n][f[n - 1]]
    OBVIOUS
  <2>2. QED BY <2>1
<1>2. ASSUME NEW m \in Nat, m \in T PROVE m + 1 \in T
  <2>1. SUFFICES ASSUME m + 1 <= N
                 PROVE  \E f \in [0..m + 1 -> V] :
                          f[0] = b /\ \A n \in 1..m + 1 : f[n] = F[n][f[n - 1]]
    OBVIOUS
  <2>2. PICK g \in [0..m -> V] : g[0] = b /\ \A n \in 1..m : g[n] = F[n][g[n - 1]]
    BY <1>2, <2>1
  <2> DEFINE f == [i \in 0..m + 1 |-> IF i <= m THEN g[i] ELSE F[m + 1][g[m]]]
  <2>3. F[m + 1][g[m]] \in V
    BY <2>1, <2>2
  <2>4. f \in [0..m + 1 -> V]
    BY <2>2, <2>3
  <2>5. f[0] = b /\ \A n \in 1..m + 1 : f[n] = F[n][f[n - 1]]
    BY <2>2
  <2>6. QED BY <2>4, <2>5
<1>3. Nat \subseteq T
  BY <1>1, <1>2, SetInduction
<1>4. QED BY <1>3 DEF Runs

States == [1..8 -> Word]

(* The sizes of a block and of a segment. *)
LEMMA BlockSizes ==
  /\ BLOCK_WORDS \in Nat /\ ROUNDS \in Nat /\ TRACE_ROWS \in Nat
  /\ PAYLOAD_WORD_START \in Nat /\ PAYLOAD_WORD_COUNT \in 1..4
  /\ FIXED_MESSAGE_WORDS = PAYLOAD_WORD_START + PAYLOAD_WORD_COUNT
  /\ BLOCK_WORDS >= FIXED_MESSAGE_WORDS + 2 /\ ROUNDS > BLOCK_WORDS
  /\ TRACE_ROWS > ROUNDS + 1
  /\ LAG_COUNT = BLOCK_WORDS /\ LAG_LAST = BLOCK_WORDS - 1
  /\ LAG_SIGMA1 \in 1..BLOCK_WORDS - 1 /\ LAG_ADDED \in 1..BLOCK_WORDS - 1
  /\ LAG_SIGMA0 \in 1..BLOCK_WORDS - 1
BY SizesAssumption DEF FIXED_MESSAGE_WORDS, LAG_COUNT, LAG_LAST, LAG_SIGMA1

(* What is left of a number past a word is a word. *)
LEMMA Wrapped ==
  ASSUME NEW x \in Nat
  PROVE  x % WORDS \in Word
BY Sizes DEF Word

(* Words are natural numbers.                                              *)
LEMMA WordIsNat ==
  ASSUME NEW x \in Word
  PROVE  x \in Nat
BY Sizes DEF Word

(* The recurrence of the schedule gives words.                             *)
LEMMA ScheduleIsWord ==
  ASSUME NEW w \in [1..ROUNDS -> Word], NEW t \in BLOCK_WORDS + 1..ROUNDS
  PROVE  ScheduleWord(w, t) \in Word
<1>1. /\ t - LAG_SIGMA1 - 1 \in 1..ROUNDS /\ t - LAG_ADDED - 1 \in 1..ROUNDS
      /\ t - LAG_SIGMA0 - 1 \in 1..ROUNDS /\ t - LAG_LAST - 1 \in 1..ROUNDS
  BY BlockSizes
<1>2. /\ small_sigma1(w[t - LAG_SIGMA1 - 1]) \in Word /\ w[t - LAG_ADDED - 1] \in Word
      /\ small_sigma0(w[t - LAG_SIGMA0 - 1]) \in Word /\ w[t - LAG_LAST - 1] \in Word
  BY <1>1, SmallSigma0IsWord, SmallSigma1IsWord
<1> DEFINE a == small_sigma1(w[t - LAG_SIGMA1 - 1])
           b == w[t - LAG_ADDED - 1]
           c == small_sigma0(w[t - LAG_SIGMA0 - 1])
           d == w[t - LAG_LAST - 1]
<1>3. a \in Nat /\ b \in Nat /\ c \in Nat /\ d \in Nat
  BY <1>2, WordIsNat
<1>4. ScheduleWord(w, t) = (a + b + c + d) % WORDS
  BY DEF ScheduleWord
<1> HIDE DEF a, b, c, d
<1>5. a + b + c + d \in Nat
  BY <1>3
<1>6. QED BY <1>4, <1>5, Wrapped

(* The words that satisfy the schedule of a block.                         *)
Scheduled(w, block) ==
  /\ w \in [1..ROUNDS -> Word]
  /\ \A t \in 1..BLOCK_WORDS : w[t] = block[t]
  /\ \A t \in BLOCK_WORDS + 1..ROUNDS : w[t] = ScheduleWord(w, t)

(* The states that follow from words, round by round.                      *)
NextState(s, k, w) == Shifted(s, Temp1(s, k, w), Temp2(s))
RoundsFrom(r, state, w) ==
  /\ r \in [0..ROUNDS -> States] /\ r[0] = state
  /\ \A n \in 1..ROUNDS : r[n] = NextState(r[n - 1], K[n], w[n])

(* A round takes a state to a state. *)
LEMMA TempsAreWords ==
  ASSUME NEW s \in States, NEW k \in Word, NEW w \in Word
  PROVE  /\ Temp1(s, k, w) \in Word /\ Temp2(s) \in Word
         /\ big_sigma0(s[1]) \in Word /\ big_sigma1(s[5]) \in Word
         /\ ch(s[5], s[6], s[7]) \in Word /\ maj(s[1], s[2], s[3]) \in Word
<1>1. /\ s[1] \in Word /\ s[2] \in Word /\ s[3] \in Word /\ s[5] \in Word /\ s[6] \in Word
      /\ s[7] \in Word /\ s[8] \in Word
  BY DEF States
<1>2. /\ big_sigma0(s[1]) \in Word /\ big_sigma1(s[5]) \in Word
      /\ ch(s[5], s[6], s[7]) \in Word /\ maj(s[1], s[2], s[3]) \in Word
  BY <1>1, BigSigma0IsWord, BigSigma1IsWord, ChIsWord, MajIsWord
<1> DEFINE a == big_sigma0(s[1])
           b == maj(s[1], s[2], s[3])
           c == big_sigma1(s[5])
           d == ch(s[5], s[6], s[7])
           e == s[8]
<1>3. a \in Nat /\ b \in Nat /\ c \in Nat /\ d \in Nat /\ e \in Nat /\ k \in Nat /\ w \in Nat
  BY <1>1, <1>2, WordIsNat
<1>4. Temp1(s, k, w) = (e + c + d + k + w) % WORDS /\ Temp2(s) = (a + b) % WORDS
  BY DEF Temp1, Temp2, WrappingAdd
<1> HIDE DEF a, b, c, d, e
<1>5. e + c + d + k + w \in Nat /\ a + b \in Nat
  BY <1>3
<1>6. QED BY <1>2, <1>4, <1>5, Wrapped

(* Shifting the registers of a state by two words gives a state.           *)
LEMMA ShiftedIsState ==
  ASSUME NEW s \in States, NEW x \in Word, NEW y \in Word
  PROVE  Shifted(s, x, y) \in States
<1>1. x \in Nat /\ y \in Nat /\ s[4] \in Nat
  BY WordIsNat DEF States
<1>2. x + y \in Nat /\ s[4] + x \in Nat
  BY <1>1
<1>3. WrappingAdd(x, y) \in Word /\ WrappingAdd(s[4], x) \in Word
  BY <1>2, Wrapped DEF WrappingAdd
<1> DEFINE a == WrappingAdd(x, y)
           e == WrappingAdd(s[4], x)
<1>4. Shifted(s, x, y) = <<a, s[1], s[2], s[3], e, s[5], s[6], s[7]>>
  BY DEF Shifted
<1>5. a \in Word /\ e \in Word
  BY <1>3
<1> HIDE DEF a, e
<1>6. QED BY <1>4, <1>5 DEF States

(* A round takes states to states.                                         *)
LEMMA NextIsState ==
  ASSUME NEW s \in States, NEW k \in Word, NEW w \in Word
  PROVE  NextState(s, k, w) \in States
BY TempsAreWords, ShiftedIsState DEF NextState

(* The recursion that fills in the words of a schedule. *)
FirstWords(block) == [t \in 1..ROUNDS |-> IF t <= BLOCK_WORDS THEN block[t] ELSE 0]
Fill(w, t) == [w EXCEPT ![t] = ScheduleWord(w, t)]
Filled(f, block) ==
  f = [i \in 0..ROUNDS - BLOCK_WORDS |->
         IF i = 0 THEN FirstWords(block) ELSE Fill(f[i - 1], BLOCK_WORDS + i)]

(* Filling a place of the schedule changes that place only.                *)
LEMMA FillFacts ==
  ASSUME NEW w \in [1..ROUNDS -> Word], NEW k \in BLOCK_WORDS + 1..ROUNDS
  PROVE  /\ Fill(w, k) \in [1..ROUNDS -> Word] /\ Fill(w, k)[k] = ScheduleWord(w, k)
         /\ \A t \in 1..ROUNDS : t # k => Fill(w, k)[t] = w[t]
<1>1. k \in 1..ROUNDS
  BY BlockSizes
<1>2. ScheduleWord(w, k) \in Word
  BY ScheduleIsWord
<1>3. QED BY <1>1, <1>2 DEF Fill

(* The schedule starts with the words of the block.                        *)
LEMMA FirstWordsFacts ==
  ASSUME NEW block \in [1..BLOCK_WORDS -> Word]
  PROVE  /\ FirstWords(block) \in [1..ROUNDS -> Word]
         /\ \A t \in 1..BLOCK_WORDS : FirstWords(block)[t] = block[t]
BY BlockSizes, Sizes DEF FirstWords, Word

(* The function that fills the schedule exists.                            *)
LEMMA FilledExists ==
  ASSUME NEW block \in [1..BLOCK_WORDS -> Word]
  PROVE  \E f : Filled(f, block)
<1> DEFINE N == ROUNDS - BLOCK_WORDS
           V == [1..ROUNDS -> Word]
           F == [i \in 1..N |-> [w \in V |-> Fill(w, BLOCK_WORDS + i)]]
           b == FirstWords(block)
<1>1. N \in Nat /\ \A i \in 1..N : BLOCK_WORDS + i \in BLOCK_WORDS + 1..ROUNDS
  BY BlockSizes
<1>2. \A i \in 1..N, w \in V : Fill(w, BLOCK_WORDS + i) \in V
  BY <1>1, FillFacts
<1>3. b \in V
  BY FirstWordsFacts
<1> HIDE DEF b, V, N
<1>4. F \in [1..N -> [V -> V]]
  BY <1>2
<1>5. \A i \in 1..N, w \in V : F[i][w] = Fill(w, BLOCK_WORDS + i)
  OBVIOUS
<1> HIDE DEF F
<1>6. PICK f : Runs(f, N, V, b, F)
  BY <1>1, <1>3, <1>4, Recursion
<1>7. f \in [0..N -> V] /\ f[0] = b /\ \A n \in 1..N : f[n] = F[n][f[n - 1]]
  BY <1>6 DEF Runs
<1>8. \A n \in 1..N : f[n - 1] \in V
  BY <1>1, <1>7
<1>9. \A n \in 1..N : f[n] = Fill(f[n - 1], BLOCK_WORDS + n)
  BY <1>5, <1>7, <1>8
<1>10. f = [i \in 0..N |-> IF i = 0 THEN b ELSE Fill(f[i - 1], BLOCK_WORDS + i)]
  BY <1>1, <1>7, <1>9
<1>11. QED BY <1>10 DEF Filled, b, N

(* The filled schedule starts with the block and satisfies the recurrence  *)
(* after it.                                                               *)
LEMMA FilledIsScheduled ==
  ASSUME NEW block \in [1..BLOCK_WORDS -> Word], NEW f, Filled(f, block)
  PROVE  Scheduled(f[ROUNDS - BLOCK_WORDS], block)
<1> DEFINE N == ROUNDS - BLOCK_WORDS
           V == [1..ROUNDS -> Word]
           Good(w, i) ==
             /\ w \in V /\ \A t \in 1..BLOCK_WORDS : w[t] = block[t]
             /\ \A t \in BLOCK_WORDS + 1..BLOCK_WORDS + i : w[t] = ScheduleWord(w, t)
           T == {i \in Nat : i <= N => Good(f[i], i)}
<1>1. N \in Nat /\ BLOCK_WORDS \in Nat /\ ROUNDS = BLOCK_WORDS + N
  BY BlockSizes
<1>2. f = [i \in 0..N |-> IF i = 0 THEN FirstWords(block) ELSE Fill(f[i - 1], BLOCK_WORDS + i)]
  BY DEF Filled
<1> HIDE DEF N
<1>3. f[0] = FirstWords(block)
  <2>1. 0 \in 0..N
    BY <1>1
  <2>2. QED BY <1>2, <2>1
<1>4. ASSUME NEW i \in Nat, i + 1 <= N
      PROVE  f[i + 1] = Fill(f[i], BLOCK_WORDS + (i + 1))
  <2>1. i + 1 \in 0..N /\ i + 1 # 0 /\ (i + 1) - 1 = i
    BY <1>1, <1>4
  <2>2. QED BY <1>2, <2>1
<1>5. 0 \in T
  BY <1>1, <1>3, FirstWordsFacts
<1>6. ASSUME NEW i \in Nat, i \in T PROVE i + 1 \in T
  <2>1. SUFFICES ASSUME i + 1 <= N PROVE Good(f[i + 1], i + 1)
    OBVIOUS
  <2> DEFINE w == f[i]
             u == f[i + 1]
             k == BLOCK_WORDS + (i + 1)
  <2>2. Good(w, i)
    BY <1>1, <1>6, <2>1
  <2>3. k \in BLOCK_WORDS + 1..ROUNDS /\ k \in 1..ROUNDS /\ k > BLOCK_WORDS
    BY <1>1, <2>1
  <2>4. u = Fill(w, k)
    BY <1>4, <2>1
  <2>5. w \in V
    BY <2>2
  <2> HIDE DEF u, w, k
  <2>6. u \in V /\ u[k] = ScheduleWord(w, k) /\ \A t \in 1..ROUNDS : t # k => u[t] = w[t]
    BY <2>3, <2>4, <2>5, FillFacts
  <2>7. ASSUME NEW t \in BLOCK_WORDS + 1..k
        PROVE  ScheduleWord(u, t) = ScheduleWord(w, t)
    <3>1. \A lag \in 1..BLOCK_WORDS - 1 : t - lag - 1 \in 1..ROUNDS /\ t - lag - 1 # k
      BY <1>1, <2>3
    <3>2. \A lag \in 1..BLOCK_WORDS - 1 : u[t - lag - 1] = w[t - lag - 1]
      BY <2>6, <3>1
    <3>3. LAG_LAST \in 1..BLOCK_WORDS - 1
      BY BlockSizes
    <3>4. QED BY <3>2, <3>3, BlockSizes DEF ScheduleWord
  <2>8. \A t \in 1..BLOCK_WORDS : u[t] = block[t]
    BY <1>1, <2>2, <2>3, <2>6
  <2>9. ASSUME NEW t \in BLOCK_WORDS + 1..k PROVE u[t] = ScheduleWord(u, t)
    <3>1. CASE t = k
      BY <2>3, <2>6, <2>7, <3>1
    <3>2. CASE t # k
      <4>1. t \in BLOCK_WORDS + 1..BLOCK_WORDS + i /\ t \in 1..ROUNDS
        BY <1>1, <2>3, <3>2 DEF k
      <4>2. u[t] = w[t] /\ w[t] = ScheduleWord(w, t)
        BY <2>2, <2>6, <3>2, <4>1
      <4>3. QED BY <2>7, <4>2
    <3>3. QED BY <3>1, <3>2
  <2>10. QED BY <2>6, <2>8, <2>9 DEF u, k
<1>7. Nat \subseteq T
  BY <1>5, <1>6, SetInduction
<1>8. Good(f[N], N)
  BY <1>1, <1>7
<1>9. QED BY <1>1, <1>8 DEF Scheduled, N

(* The recursion that applies the rounds. *)
After(f, state, w) ==
  f = [n \in 0..ROUNDS |-> IF n = 0 THEN state ELSE NextState(f[n - 1], K[n], w[n])]

(* The function of the states after each round exists.                     *)
LEMMA AfterExists ==
  ASSUME NEW state \in States, NEW w \in [1..ROUNDS -> Word]
  PROVE  \E f : After(f, state, w)
<1> DEFINE F == [n \in 1..ROUNDS |-> [s \in States |-> NextState(s, K[n], w[n])]]
<1>1. \A n \in 1..ROUNDS : K[n] \in Word /\ w[n] \in Word
  BY ConstantsAssumption
<1>2. F \in [1..ROUNDS -> [States -> States]]
  BY <1>1, NextIsState
<1>3. \A n \in 1..ROUNDS, s \in States : F[n][s] = NextState(s, K[n], w[n])
  OBVIOUS
<1>4. ROUNDS \in Nat
  BY BlockSizes
<1> HIDE DEF F
<1>5. PICK f : Runs(f, ROUNDS, States, state, F)
  BY <1>2, <1>4, Recursion
<1>6. /\ f \in [0..ROUNDS -> States] /\ f[0] = state
      /\ \A n \in 1..ROUNDS : f[n] = F[n][f[n - 1]]
  BY <1>5 DEF Runs
<1>7. \A n \in 1..ROUNDS : f[n - 1] \in States
  BY <1>4, <1>6
<1>8. \A n \in 1..ROUNDS : f[n] = NextState(f[n - 1], K[n], w[n])
  BY <1>3, <1>6, <1>7
<1>9. f = [n \in 0..ROUNDS |-> IF n = 0 THEN state ELSE NextState(f[n - 1], K[n], w[n])]
  BY <1>4, <1>6, <1>8
<1>10. QED BY <1>9 DEF After

(* The states after the rounds follow one another by rounds.               *)
LEMMA AfterFacts ==
  ASSUME NEW state \in States, NEW w \in [1..ROUNDS -> Word], NEW f, After(f, state, w)
  PROVE  RoundsFrom(f, state, w)
<1> DEFINE T == {n \in Nat : n <= ROUNDS => f[n] \in States}
<1>1. ROUNDS \in Nat /\ \A n \in 1..ROUNDS : K[n] \in Word /\ w[n] \in Word
  BY ConstantsAssumption, BlockSizes
<1>2. f = [n \in 0..ROUNDS |-> IF n = 0 THEN state ELSE NextState(f[n - 1], K[n], w[n])]
  BY DEF After
<1>3. f[0] = state
  <2>1. 0 \in 0..ROUNDS
    BY <1>1
  <2>2. QED BY <1>2, <2>1
<1>4. ASSUME NEW n \in 1..ROUNDS
      PROVE  f[n] = NextState(f[n - 1], K[n], w[n])
  <2>1. n \in 0..ROUNDS /\ n # 0
    BY <1>1
  <2>2. QED BY <1>2, <2>1
<1>5. 0 \in T
  BY <1>3
<1>6. ASSUME NEW n \in Nat, n \in T PROVE n + 1 \in T
  <2>1. SUFFICES ASSUME n + 1 <= ROUNDS PROVE f[n + 1] \in States
    OBVIOUS
  <2>2. f[n] \in States /\ n + 1 \in 1..ROUNDS /\ (n + 1) - 1 = n
    BY <1>1, <1>6, <2>1
  <2>3. f[n + 1] = NextState(f[n], K[n + 1], w[n + 1])
    BY <1>4, <2>2
  <2>4. QED BY <1>1, <2>2, <2>3, NextIsState
<1>7. Nat \subseteq T
  BY <1>5, <1>6, SetInduction
<1>8. \A n \in 0..ROUNDS : f[n] \in States
  BY <1>1, <1>7
<1>9. f = [n \in 0..ROUNDS |-> f[n]]
  BY <1>2
<1>10. f \in [0..ROUNDS -> States]
  BY <1>8, <1>9
<1>11. QED BY <1>3, <1>4, <1>10 DEF RoundsFrom

(* What a compression computes. *)
LEMMA CompressFacts ==
  ASSUME NEW state \in States, NEW block \in [1..BLOCK_WORDS -> Word]
  PROVE  /\ Scheduled(compress_block(state, block).words, block)
         /\ RoundsFrom(compress_block(state, block).round_states, state,
                       compress_block(state, block).words)
<1> DEFINE filled == CHOOSE f : Filled(f, block)
           words == filled[ROUNDS - BLOCK_WORDS]
           after == CHOOSE f : After(f, state, words)
<1>1. compress_block(state, block) =
        [words |-> words, round_states |-> [n \in 0..ROUNDS |-> after[n]]]
  BY DEF compress_block, NextState, Filled, After, Fill, FirstWords
<1>2. Filled(filled, block)
  BY FilledExists
<1> HIDE DEF filled
<1>3. Scheduled(words, block)
  BY <1>2, FilledIsScheduled
<1>4. words \in [1..ROUNDS -> Word]
  BY <1>3 DEF Scheduled
<1> HIDE DEF words
<1>5. After(after, state, words)
  BY <1>4, AfterExists
<1> HIDE DEF after
<1>6. RoundsFrom(after, state, words)
  BY <1>4, <1>5, AfterFacts
<1>7. after = [n \in 0..ROUNDS |-> after[n]]
  BY <1>6 DEF RoundsFrom
<1> DEFINE tr == compress_block(state, block)
<1>8. tr.words = words /\ tr.round_states = after
  BY <1>1, <1>7
<1>9. QED BY <1>3, <1>6, <1>8

(* ------------------------------ blocks ------------------------------ *)

Payloads == [1..PAYLOAD_WORD_COUNT -> Word]
Blocks == [1..BLOCK_WORDS -> Word]

(* The payload of a seed is a payload of words.                            *)
LEMMA PayloadWords ==
  ASSUME NEW s \in Nat
  PROVE  payload_words(s) \in Payloads
<1>1. ASSUME NEW i \in 1..PAYLOAD_WORD_COUNT
      PROVE  (s \div Pow2[WORD_BITS * (PAYLOAD_WORD_COUNT - i)]) % WORDS \in Word
  <2> DEFINE n == WORD_BITS * (PAYLOAD_WORD_COUNT - i)
  <2>1. PAYLOAD_WORD_COUNT - i \in Nat /\ WORD_BITS \in Nat
    BY BlockSizes, Sizes
  <2>2. n \in Nat
    BY <2>1
  <2> HIDE DEF n
  <2>3. s \in Int /\ s >= 0
    OBVIOUS
  <2>4. s \div Pow2[n] \in Int /\ (s >= 0 => s \div Pow2[n] >= 0)
    BY <2>2, <2>3, DivFacts
  <2>5. s \div Pow2[n] \in Nat
    BY <2>3, <2>4
  <2>6. (s \div Pow2[n]) % WORDS \in Word
    BY <2>5, Wrapped
  <2>7. QED BY <2>6 DEF n
<1>2. QED BY <1>1 DEF payload_words, Payloads

Domains == [1..PAYLOAD_WORD_START -> Word]

(* A block holds its domain, its payload and the padding. *)
LEMMA BlockFacts ==
  ASSUME NEW domain \in Domains, NEW payload \in Payloads
  PROVE  /\ fixed_single_block(domain, payload) \in Blocks
         /\ \A i \in 1..PAYLOAD_WORD_COUNT :
              fixed_single_block(domain, payload)[PAYLOAD_WORD_START + i] = payload[i]
<1> DEFINE b == fixed_single_block(domain, payload)
           c == PAYLOAD_WORD_START
           d == PAYLOAD_WORD_COUNT
           n == BLOCK_WORDS
           h == WORDS \div 2
           z == FIXED_MESSAGE_WORDS * WORD_BITS
<1>1. /\ c \in Nat /\ d \in 1..4 /\ n \in Nat /\ FIXED_MESSAGE_WORDS = c + d /\ n >= c + d + 2
  BY BlockSizes
<1>2. WORDS \in Nat /\ WORDS >= 2 /\ 0 \in Word
  BY Sizes DEF Word
<1>3. h \in Word /\ z \in Word
  <2>1. h \in Nat /\ h <= WORDS - 1
    BY <1>2
  <2>2. z \in Nat /\ z < WORDS
    BY SizesAssumption, Sizes, BlockSizes
  <2>3. QED BY <1>2, <2>1, <2>2 DEF Word
<1>4. b = [i \in 1..n |->
             CASE i <= c -> domain[i]
               [] i \in c + 1..c + d -> payload[i - c]
               [] i = c + d + 1 -> h
               [] i \in c + d + 2..n - 1 -> 0
               [] i = n -> z]
  BY <1>1 DEF fixed_single_block
<1> HIDE DEF c, d, n, h, z, b
<1>5. ASSUME NEW i \in 1..n PROVE b[i] \in Word
  <2>1. CASE i <= c
    BY <1>1, <1>4, <2>1 DEF Domains, c
  <2>2. CASE i \in c + 1..c + d
    <3>1. i - c \in 1..d
      BY <1>1, <2>2
    <3>2. payload[i - c] \in Word
      BY <3>1 DEF Payloads, d
    <3>3. ~(i <= c) /\ ~(i = c + d + 1) /\ ~(i \in c + d + 2..n - 1) /\ ~(i = n)
      BY <1>1, <2>2
    <3>4. b[i] = payload[i - c]
      BY <1>4, <2>2, <3>3
    <3>5. QED BY <3>2, <3>4
  <2>3. CASE i = c + d + 1
    <3>1. ~(i <= c) /\ ~(i \in c + 1..c + d) /\ ~(i \in c + d + 2..n - 1) /\ ~(i = n)
      BY <1>1, <2>3
    <3>2. QED BY <1>3, <1>4, <2>3, <3>1
  <2>4. CASE i \in c + d + 2..n - 1
    <3>1. ~(i <= c) /\ ~(i \in c + 1..c + d) /\ ~(i = c + d + 1) /\ ~(i = n)
      BY <1>1, <2>4
    <3>2. QED BY <1>2, <1>4, <2>4, <3>1
  <2>5. CASE i = n
    <3>1. ~(i <= c) /\ ~(i \in c + 1..c + d) /\ ~(i = c + d + 1) /\ ~(i \in c + d + 2..n - 1)
      BY <1>1, <2>5
    <3>2. QED BY <1>3, <1>4, <2>5, <3>1
  <2>6. QED BY <1>1, <2>1, <2>2, <2>3, <2>4, <2>5
<1>6. ASSUME NEW i \in 1..d PROVE b[c + i] = payload[i]
  <2> DEFINE k == c + i
  <2>1. k \in 1..n /\ k \in c + 1..c + d /\ k - c = i
    BY <1>1
  <2>2. ~(k <= c) /\ ~(k = c + d + 1) /\ ~(k \in c + d + 2..n - 1) /\ ~(k = n)
    BY <1>1
  <2> HIDE DEF k
  <2>3. b[k] = payload[k - c]
    BY <1>4, <2>1, <2>2
  <2>4. QED BY <2>1, <2>3 DEF k
<1>7. b \in [1..n -> Word]
  <2>1. b = [i \in 1..n |-> b[i]]
    BY <1>4
  <2>2. QED BY <1>5, <2>1
<1>8. QED BY <1>6, <1>7 DEF Blocks, b, c, d, n

(* Blocks of one domain differ only in their payload. *)
LEMMA SameOutsidePayload ==
  ASSUME NEW domain \in Domains, NEW x \in Payloads, NEW y \in Payloads,
         NEW i \in 1..BLOCK_WORDS,
         i - PAYLOAD_WORD_START \notin 1..PAYLOAD_WORD_COUNT
  PROVE  fixed_single_block(domain, x)[i] = fixed_single_block(domain, y)[i]
<1>1. /\ PAYLOAD_WORD_START \in Nat /\ PAYLOAD_WORD_COUNT \in 1..4 /\ BLOCK_WORDS \in Nat
      /\ FIXED_MESSAGE_WORDS = PAYLOAD_WORD_START + PAYLOAD_WORD_COUNT
  BY BlockSizes
<1>2. i \notin PAYLOAD_WORD_START + 1..FIXED_MESSAGE_WORDS
  BY <1>1
<1>3. QED BY <1>2 DEF fixed_single_block

Kind(seg) == <<"Commit", "Derive", "HashSk">>[seg]
DomainOf(seg) == segment_domain[Kind(seg)]

(* The domain of each segment is one of the three.                         *)
LEMMA DomainFacts ==
  ASSUME NEW seg \in 1..3
  PROVE  DomainOf(seg) \in Domains
<1>1. /\ DomainOf(1) = COMMIT_OF_SEED_DOMAIN /\ DomainOf(2) = DERIVE_SK_DOMAIN
      /\ DomainOf(3) = HASH_OF_SK_DOMAIN
  BY DEF DomainOf, Kind, segment_domain
<1>2. QED BY <1>1, ConstantsAssumption DEF Domains

(* The private key a seed derives, and the payload, the block and the      *)
(* compression of each of its segments.                                    *)
DerivedKey(s) == derive_secret_key_material(s).sk_seed
PayloadOf(s, seg) == IF seg = 3 THEN DerivedKey(s) ELSE payload_words(s)
BlockOf(s, seg) == fixed_single_block(DomainOf(seg), PayloadOf(s, seg))
TraceOf(s, seg) == compress_block(INITIAL_STATE, BlockOf(s, seg))
WordsOf(s, seg) == TraceOf(s, seg).words
RoundsOf(s, seg) == TraceOf(s, seg).round_states

(* The initial state is a state.                                           *)
LEMMA InitialState == INITIAL_STATE \in States
BY ConstantsAssumption DEF States

(* The block of the second segment is the one the derivation hashes.       *)
LEMMA DerivedBlock ==
  ASSUME NEW s \in Nat
  PROVE  /\ BlockOf(s, 2) = segment_block("Derive", payload_words(s))
         /\ BlockOf(s, 2) \in Blocks
<1>1. /\ DomainOf(2) = segment_domain["Derive"] /\ PayloadOf(s, 2) = payload_words(s)
  BY DEF DomainOf, Kind, PayloadOf
<1>2. QED BY <1>1, BlockFacts, DomainFacts, PayloadWords DEF BlockOf, segment_block

(* The private key a seed derives is the leading words of the second       *)
(* segment's digest.                                                       *)
LEMMA DerivedKeyFacts ==
  ASSUME NEW s \in Nat
  PROVE  /\ DerivedKey(s) \in Payloads
         /\ \A i \in 1..PAYLOAD_WORD_COUNT :
              /\ i \in 1..8
              /\ DerivedKey(s)[i] = WrappingAdd(INITIAL_STATE[i], RoundsOf(s, 2)[ROUNDS][i])
<1> DEFINE tr == compress_block(INITIAL_STATE, segment_block("Derive", payload_words(s)))
           digest == [i \in 1..8 |-> WrappingAdd(INITIAL_STATE[i], tr.round_states[ROUNDS][i])]
<1>1. sha512("Derive", payload_words(s)) = digest
  BY DEF sha512
<1>2. DerivedKey(s) = [i \in 1..PAYLOAD_WORD_COUNT |-> digest[i]]
  <2> HIDE DEF digest
  <2>1. QED BY <1>1 DEF DerivedKey, derive_secret_key_material
<1>3. tr = TraceOf(s, 2)
  BY DerivedBlock DEF TraceOf
<1> HIDE DEF tr
<1>4. \A i \in 1..PAYLOAD_WORD_COUNT : i \in 1..8
  BY BlockSizes
<1>5. RoundsOf(s, 2)[ROUNDS] \in States
  <2>1. RoundsFrom(RoundsOf(s, 2), INITIAL_STATE, WordsOf(s, 2))
    BY DerivedBlock, CompressFacts, InitialState DEF RoundsOf, WordsOf, TraceOf, Blocks
  <2>2. QED BY <2>1, BlockSizes DEF RoundsFrom
<1>6. \A i \in 1..8 : WrappingAdd(INITIAL_STATE[i], RoundsOf(s, 2)[ROUNDS][i]) \in Word
  <2>1. ASSUME NEW x \in Word, NEW y \in Word PROVE WrappingAdd(x, y) \in Word
    <3>1. x + y \in Nat
      BY WordIsNat
    <3>2. QED BY <3>1, Wrapped DEF WrappingAdd
  <2>2. QED BY <1>5, <2>1, InitialState DEF States
<1>7. QED BY <1>2, <1>3, <1>4, <1>6 DEF RoundsOf, Payloads

(* The payload of each segment is a payload of words.                      *)
LEMMA PayloadOfFacts ==
  ASSUME NEW s \in Nat, NEW seg
  PROVE  PayloadOf(s, seg) \in Payloads
BY DerivedKeyFacts, PayloadWords DEF PayloadOf

(* The words and the round states of a segment. *)
LEMMA TraceFacts ==
  ASSUME NEW s \in Nat, NEW seg \in 1..3
  PROVE  /\ BlockOf(s, seg) \in Blocks
         /\ Scheduled(WordsOf(s, seg), BlockOf(s, seg))
         /\ RoundsFrom(RoundsOf(s, seg), INITIAL_STATE, WordsOf(s, seg))
<1>1. BlockOf(s, seg) \in Blocks
  BY BlockFacts, DomainFacts, PayloadOfFacts DEF BlockOf
<1>2. QED BY <1>1, CompressFacts, InitialState DEF RoundsOf, WordsOf, TraceOf, Blocks

(* The blocks of a seed, and those the verifier derives without it. *)
LEMMA BlocksAre ==
  ASSUME NEW s \in Nat, NEW seg \in 1..3
  PROVE  /\ blocks_from_witness(payload_words(s), DerivedKey(s))[seg] = BlockOf(s, seg)
         /\ verifier_template_blocks[seg] = fixed_single_block(DomainOf(seg), payload_words(0))
<1>1. /\ DomainOf(1) = segment_domain["Commit"] /\ DomainOf(2) = segment_domain["Derive"]
      /\ DomainOf(3) = segment_domain["HashSk"]
  BY DEF DomainOf, Kind
<1>2. /\ PayloadOf(s, 1) = payload_words(s) /\ PayloadOf(s, 2) = payload_words(s)
      /\ PayloadOf(s, 3) = DerivedKey(s)
  BY DEF PayloadOf
<1>3. seg \in {1, 2, 3}
  OBVIOUS
<1>4. verifier_template_blocks[seg] = fixed_single_block(DomainOf(seg), payload_words(0))
  BY <1>1, <1>3 DEF verifier_template_blocks, blocks_from_witness, segment_block
<1>5. blocks_from_witness(payload_words(s), DerivedKey(s))[seg] = BlockOf(s, seg)
  BY <1>1, <1>2, <1>3 DEF blocks_from_witness, segment_block, BlockOf
<1>6. QED BY <1>4, <1>5

(* Outside the payload the verifier's template holds the words of the      *)
(* blocks.                                                                 *)
LEMMA TemplateIsBlock ==
  ASSUME NEW s \in Nat, NEW seg \in 1..3, NEW i \in 1..BLOCK_WORDS,
         i - PAYLOAD_WORD_START \notin 1..PAYLOAD_WORD_COUNT
  PROVE  verifier_template_blocks[seg][i] = BlockOf(s, seg)[i]
<1>1. payload_words(0) \in Payloads /\ PayloadOf(s, seg) \in Payloads /\ DomainOf(seg) \in Domains
  BY PayloadWords, PayloadOfFacts, DomainFacts
<1>2. QED BY <1>1, BlocksAre, SameOutsidePayload DEF BlockOf

(* After the domain a block holds its payload.                             *)
LEMMA PayloadIsRead ==
  ASSUME NEW s \in Nat, NEW seg \in 1..3, NEW i \in 1..PAYLOAD_WORD_COUNT
  PROVE  BlockOf(s, seg)[PAYLOAD_WORD_START + i] = PayloadOf(s, seg)[i]
BY BlockFacts, PayloadOfFacts, DomainFacts DEF BlockOf

(* --------------------------- loose words ---------------------------- *)

(* Dividing by the field's modulus. *)
LEMMA ResidueFacts ==
  ASSUME NEW x \in Int
  PROVE  /\ x \div P \in Int /\ x % P \in 0..P - 1 /\ x = P * (x \div P) + (x % P)
<1>1. P \in Nat /\ P > 0
  BY Sizes
<1>2. QED BY <1>1

(* Numbers a multiple of the field's modulus apart have the same residue.  *)
LEMMA SameResidue ==
  ASSUME NEW a \in Int, NEW b \in Int, NEW k \in Int, a = b + P * k
  PROVE  a % P = b % P
<1> DEFINE q == b \div P
           r == b % P
<1>1. P \in Nat /\ P > 0 /\ q \in Int /\ r \in 0..P - 1 /\ b = P * q + r
  BY ResidueFacts, Sizes
<1> HIDE DEF q, r
<1>2. q + k \in Int /\ P * (q + k) = P * q + P * k /\ P * q \in Int /\ P * k \in Int
  BY <1>1
<1>3. a = P * (q + k) + r
  BY <1>1, <1>2
<1>4. a % P = r
  BY <1>1, <1>2, <1>3, DivUnique
<1>5. QED BY <1>4 DEF r

(* v stands for the word x as the sum of two words does whose limbs have   *)
(* no bits: each limb is bound only in the field, with a carry for each.   *)
Loose(v, x) ==
  /\ v \in [1..4 -> Int]
  /\ \E a, b, c :
       /\ a \in Word /\ b \in Word
       /\ x = WrappingAdd(a, b) /\ \A l \in 1..4 : c[l] \in 0..1
       /\ constrain_add(<<u64_to_limbs(a), u64_to_limbs(b)>>, v, c)

(* With bits it is the word's limbs. *)
LEMMA LooseWithBits ==
  ASSUME NEW v, NEW x, Loose(v, x), HasBits(v)
  PROVE  v = u64_to_limbs(x)
<1>1. v \in [1..4 -> Limbs]
  BY DEF Loose, HasBits, LIMBS_PER_WORD
<1>2. PICK a, b, c :
        /\ a \in Word /\ b \in Word
        /\ x = WrappingAdd(a, b) /\ \A l \in 1..4 : c[l] \in 0..1
        /\ constrain_add(<<u64_to_limbs(a), u64_to_limbs(b)>>, v, c)
  BY DEF Loose
<1>3. SumsTo(<<u64_to_limbs(a), u64_to_limbs(b)>>, 2, a + b)
  BY <1>2, TwoWords
<1>4. \A l \in 1..4 : c[l] \in 0..4
  BY <1>2
<1>5. v = u64_to_limbs((a + b) % WORDS)
  BY <1>1, <1>2, <1>3, <1>4, SumExact
<1>6. QED BY <1>2, <1>5 DEF WrappingAdd

(* Zero is a word, with the limbs of an empty column.                      *)
LEMMA ZeroIsWord == 0 \in Word /\ ZeroLimbs = u64_to_limbs(0)
BY Sizes DEF Word, ZeroLimbs

(* Words are their own residues.                                           *)
LEMMA WordModulo ==
  ASSUME NEW x \in Word
  PROVE  x % WORDS = x /\ (x + 0) % WORDS = x
<1>1. WORDS \in Nat /\ x \in Nat /\ x < WORDS /\ x + 0 = x
  BY Sizes DEF Word
<1>2. QED BY <1>1

(* The limbs of a word match it.                                           *)
LEMMA ExactIsLoose ==
  ASSUME NEW x \in Word
  PROVE  Loose(u64_to_limbs(x), x)
<1> DEFINE ops == <<u64_to_limbs(x), u64_to_limbs(0)>>
           c == add_with_carries(ops)
<1>1. SumsTo(ops, 2, x + 0)
  BY TwoWords, ZeroIsWord
<1> HIDE DEF ops
<1>2. constrain_add(ops, u64_to_limbs((x + 0) % WORDS), c) /\ \A l \in 1..4 : c[l] \in 0..2 - 1
  BY <1>1, SumComplete
<1>3. constrain_add(ops, u64_to_limbs(x), c) /\ \A l \in 1..4 : c[l] \in 0..1
  BY <1>2, WordModulo
<1>4. x = WrappingAdd(x, 0)
  BY WordModulo DEF WrappingAdd
<1>5. u64_to_limbs(x) \in [1..4 -> Int]
  BY WordsAreLimbs, Sizes DEF Limbs
<1> HIDE DEF c
<1>6. QED BY <1>3, <1>4, <1>5, ZeroIsWord DEF Loose, ops

(* What a loose word's limbs are: those of a sum less their carries, up to *)
(* multiples of the modulus.                                               *)
Bound(v, s, c, k) ==
  \A l \in 1..4 :
    /\ v[l] \in Int /\ s[l] \in Int /\ c[l] \in Int /\ k[l] \in Int
    /\ s[l] + CarryIn(c, l) - v[l] - c[l] * LIMB_VALUES = k[l] * P

(* Limbs that match a word loosely come from an addition with an open      *)
(* carry at its top.                                                       *)
LEMMA LooseIsBound ==
  ASSUME NEW v, NEW x, Loose(v, x)
  PROVE  \E a, b, s, c, k :
           /\ a \in Word /\ b \in Word
           /\ x = WrappingAdd(a, b) /\ limbs_to_u64(s) = a + b
           /\ \A l \in 1..4 : c[l] \in 0..1 /\ s[l] \in 0..2 * (LIMB_VALUES - 1)
           /\ Bound(v, s, c, k)
<1>1. PICK a, b, c :
        /\ a \in Word /\ b \in Word
        /\ x = WrappingAdd(a, b) /\ \A l \in 1..4 : c[l] \in 0..1
        /\ constrain_add(<<u64_to_limbs(a), u64_to_limbs(b)>>, v, c)
  BY DEF Loose
<1>2. SumsTo(<<u64_to_limbs(a), u64_to_limbs(b)>>, 2, a + b)
  BY <1>1, TwoWords
<1>3. PICK s : /\ Columns(<<u64_to_limbs(a), u64_to_limbs(b)>>, s, 2)
               /\ limbs_to_u64(s) = a + b
  BY <1>2 DEF SumsTo
<1> DEFINE y(l) == s[l] + CarryIn(c, l) - v[l] - c[l] * LIMB_VALUES
           k == [l \in 1..4 |-> CHOOSE q \in Int : y(l) = q * P]
<1>4. \A l \in 1..4 : v[l] \in Int /\ s[l] \in 0..2 * (LIMB_VALUES - 1)
  BY <1>3 DEF Loose, Columns
<1>5. LIMB_VALUES \in Nat /\ LIMB_VALUES >= 2 /\ P \in Nat /\ P > 0
  BY Sizes
<1>6. ASSUME NEW l \in 1..4
      PROVE  \E q \in Int : y(l) = q * P
  <2>1. CarryIn(c, l) \in Int /\ c[l] \in Int /\ v[l] \in Int /\ s[l] \in Int
    BY <1>1, <1>4, <1>5 DEF CarryIn
  <2>2. y(l) \in Int
    BY <1>5, <2>1
  <2>3. y(l) % P = 0
    BY <1>1, <1>3 DEF constrain_add, Columns, LIMBS_PER_WORD
  <2> HIDE DEF y
  <2>4. QED BY <1>5, <2>2, <2>3, Divisible
<1>7. \A l \in 1..4 : k[l] \in Int /\ y(l) = k[l] * P
  BY <1>6
<1> HIDE DEF k
<1>8. \A l \in 1..4 : c[l] \in Int /\ s[l] \in Int
  BY <1>1, <1>4, <1>5
<1>9. Bound(v, s, c, k)
  BY <1>4, <1>7, <1>8 DEF Bound
<1>10. QED BY <1>1, <1>3, <1>4, <1>9

(* The value of limbs scaled. *)
LEMMA LimbsScaled ==
  ASSUME NEW k, NEW m, NEW d \in Int, \A l \in 1..4 : k[l] \in Int /\ m[l] = k[l] * d
  PROVE  limbs_to_u64(m) = d * limbs_to_u64(k) /\ limbs_to_u64(k) \in Int
<1> DEFINE V == LIMB_VALUES
<1>1. /\ V \in Nat /\ k[1] \in Int /\ k[2] \in Int /\ k[3] \in Int /\ k[4] \in Int
      /\ m[1] = k[1] * d /\ m[2] = k[2] * d /\ m[3] = k[3] * d /\ m[4] = k[4] * d
  BY Sizes
<1>2. \A l \in 1..4 : m[l] \in Int
  OBVIOUS
<1>3. /\ limbs_to_u64(m) = m[1] + V * (m[2] + V * (m[3] + V * m[4]))
      /\ limbs_to_u64(k) = k[1] + V * (k[2] + V * (k[3] + V * k[4]))
      /\ limbs_to_u64(k) \in Int
  BY <1>2, LimbsHorner
<1> HIDE DEF V
<1>4. m[3] + V * m[4] = d * (k[3] + V * k[4])
  BY <1>1
<1>5. m[2] + V * (m[3] + V * m[4]) = d * (k[2] + V * (k[3] + V * k[4]))
  <2> DEFINE y == k[3] + V * k[4]
  <2>1. y \in Int
    BY <1>1
  <2>2. m[3] + V * m[4] = d * y
    BY <1>4
  <2> HIDE DEF y
  <2>3. m[2] + V * (m[3] + V * m[4]) = d * (k[2] + V * y)
    BY <1>1, <2>1, <2>2
  <2>4. QED BY <2>3 DEF y
<1>6. m[1] + V * (m[2] + V * (m[3] + V * m[4])) = d * (k[1] + V * (k[2] + V * (k[3] + V * k[4])))
  <2> DEFINE y == k[2] + V * (k[3] + V * k[4])
  <2>1. y \in Int
    BY <1>1
  <2>2. m[2] + V * (m[3] + V * m[4]) = d * y
    BY <1>5
  <2> HIDE DEF y
  <2>3. m[1] + V * (m[2] + V * (m[3] + V * m[4])) = d * (k[1] + V * y)
    BY <1>1, <2>1, <2>2
  <2>4. QED BY <2>3 DEF y
<1>7. QED BY <1>3, <1>6

(* The value of bound limbs: the sum's, less the last carry.               *)
LEMMA BoundValue ==
  ASSUME NEW v, NEW s, NEW c, NEW k, Bound(v, s, c, k)
  PROVE  /\ limbs_to_u64(v) \in Int /\ limbs_to_u64(s) \in Int /\ limbs_to_u64(k) \in Int
         /\ limbs_to_u64(s) = limbs_to_u64(v) + P * limbs_to_u64(k) + WORDS * c[4]
<1> DEFINE m == [l \in 1..4 |-> k[l] * P]
           u == [l \in 1..4 |-> v[l] + m[l]]
<1>1. P \in Int /\ WORDS \in Int /\ LIMB_VALUES \in Int
  BY Sizes
<1>2. \A l \in 1..4 : v[l] \in Int /\ s[l] \in Int /\ c[l] \in Int /\ k[l] \in Int
  BY DEF Bound
<1>3. \A l \in 1..4 : m[l] \in Int /\ m[l] = k[l] * P
  BY <1>1, <1>2
<1> HIDE DEF m
<1>4. \A l \in 1..4 : u[l] \in Int /\ u[l] = v[l] + m[l]
  BY <1>2, <1>3
<1> HIDE DEF u
<1>5. limbs_to_u64(m) = P * limbs_to_u64(k) /\ limbs_to_u64(k) \in Int
  BY <1>1, <1>2, <1>3, LimbsScaled
<1>6. limbs_to_u64(u) = limbs_to_u64(v) + limbs_to_u64(m)
  BY <1>2, <1>3, <1>4, LimbsAdd
<1>7. Carried(s, u, c)
  <2>1. ASSUME NEW l \in 1..4
        PROVE  s[l] + CarryIn(c, l) - u[l] - c[l] * LIMB_VALUES = 0
    <3>1. s[l] + CarryIn(c, l) - v[l] - c[l] * LIMB_VALUES = m[l]
      BY <1>3 DEF Bound
    <3>2. CarryIn(c, l) \in Int /\ c[l] * LIMB_VALUES \in Int
      BY <1>1, <1>2 DEF CarryIn
    <3> DEFINE z == c[l] * LIMB_VALUES
               y == CarryIn(c, l)
    <3>3. z \in Int /\ y \in Int /\ s[l] + y - v[l] - z = m[l]
      BY <3>1, <3>2
    <3> HIDE DEF z, y
    <3>4. s[l] + y - u[l] - z = 0
      BY <1>2, <1>3, <1>4, <3>3
    <3>5. QED BY <3>4 DEF z, y
  <2>2. QED BY <1>2, <1>4, <2>1 DEF Carried
<1>8. limbs_to_u64(s) = limbs_to_u64(u) + WORDS * c[4]
  BY <1>7, CarriedSum
<1>9. limbs_to_u64(v) \in Int /\ limbs_to_u64(s) \in Int
  BY <1>2, LimbsHorner
<1>10. QED BY <1>5, <1>6, <1>8, <1>9

(* Two words add up to their wrapped sum, or to that and one modulus.      *)
LEMMA WrapOnce ==
  ASSUME NEW a \in Word, NEW b \in Word
  PROVE  \E e \in 0..1 : a + b = WrappingAdd(a, b) + WORDS * e
<1>1. WORDS \in Nat /\ WORDS > 0 /\ a \in 0..WORDS - 1 /\ b \in 0..WORDS - 1
  BY Sizes DEF Word
<1>2. CASE a + b < WORDS
  <2>1. (a + b) % WORDS = a + b /\ WORDS * 0 = 0
    BY <1>1, <1>2
  <2>2. a + b = WrappingAdd(a, b) + WORDS * 0
    BY <1>1, <2>1 DEF WrappingAdd
  <2>3. QED BY <2>2
<1>3. CASE a + b >= WORDS
  <2>1. a + b = WORDS * 1 + (a + b - WORDS) /\ a + b - WORDS \in 0..WORDS - 1
    BY <1>1, <1>3
  <2>2. (a + b) % WORDS = a + b - WORDS
    BY <1>1, <2>1, DivUnique
  <2>3. a + b = WrappingAdd(a, b) + WORDS * 1
    BY <1>1, <2>1, <2>2 DEF WrappingAdd
  <2>4. QED BY <2>3
<1>4. QED BY <1>1, <1>2, <1>3

(* The value of a loose word in the field. *)
NearValue(p, x) ==
  p = x % P \/ (p - (x % P)) % P \in {WORDS % P, (-WORDS) % P}

(* What the field sees of limbs that match a word loosely is the word's    *)
(* residue, up to one word's modulus.                                      *)
LEMMA LooseValue ==
  ASSUME NEW v, NEW x \in Word, Loose(v, x)
  PROVE  NearValue(pack_word_from_limbs(v), x)
<1>1. PICK a, b, s, c, k :
        /\ a \in Word /\ b \in Word
        /\ x = WrappingAdd(a, b) /\ limbs_to_u64(s) = a + b
        /\ \A l \in 1..4 : c[l] \in 0..1 /\ s[l] \in 0..2 * (LIMB_VALUES - 1)
        /\ Bound(v, s, c, k)
  BY LooseIsBound
<1> DEFINE y == limbs_to_u64(v)
           z == limbs_to_u64(k)
<1>2. y \in Int /\ z \in Int /\ a + b = y + P * z + WORDS * c[4]
  BY <1>1, BoundValue
<1>3. PICK e \in 0..1 : a + b = x + WORDS * e
  BY <1>1, WrapOnce
<1>4. pack_word_from_limbs(v) = y % P
  BY DEF pack_word_from_limbs
<1>5. x \in Int /\ WORDS \in Int /\ P \in Nat /\ P > 0 /\ c[4] \in 0..1
  BY <1>1, Sizes DEF Word
<1> HIDE DEF y, z
<1> DEFINE f == e - c[4]
<1>6. f \in {-1, 0, 1} /\ WORDS * f = WORDS * e - WORDS * c[4]
  BY <1>5
<1> DEFINE g == WORDS * f
<1>7. g \in {-WORDS, 0, WORDS}
  BY <1>5, <1>6
<1>8. y = x + g + P * (-z)
  <2> DEFINE w1 == WORDS * e
             w2 == WORDS * c[4]
             w3 == P * z
  <2>1. w1 \in Int /\ w2 \in Int /\ w3 \in Int /\ P * (-z) = -w3
    BY <1>2, <1>5
  <2>2. a + b = x + w1 /\ a + b = y + w3 + w2 /\ g = w1 - w2
    BY <1>2, <1>3, <1>6
  <2> HIDE DEF w1, w2, w3, g
  <2>3. g \in Int /\ x + w1 = y + w3 + w2
    BY <1>5, <1>7, <2>2
  <2>4. y = x + g + (-w3)
    BY <1>2, <1>5, <2>1, <2>2, <2>3
  <2>5. QED BY <2>1, <2>4
<1> HIDE DEF f, g
<1>9. g \in Int /\ -z \in Int /\ x + g \in Int
  BY <1>2, <1>5, <1>7
<1>10. y % P = (x + g) % P
  BY <1>2, <1>8, <1>9, SameResidue
<1>11. CASE g = 0
  <2>1. x + g = x
    BY <1>5, <1>11
  <2>2. QED BY <1>4, <1>10, <2>1 DEF NearValue
<1>12. CASE g # 0
  <2> DEFINE q == y \div P
             r == y % P
             q2 == x \div P
             r2 == x % P
  <2>1. /\ q \in Int /\ r \in Int /\ y = P * q + r
        /\ q2 \in Int /\ r2 \in Int /\ x = P * q2 + r2
    BY <1>2, <1>5, ResidueFacts
  <2> HIDE DEF q, r, q2, r2
  <2>2. r - r2 = g + P * (q2 - q - z) /\ q2 - q - z \in Int /\ r - r2 \in Int
    <3> DEFINE w1 == P * q
               w2 == P * q2
               w3 == P * z
    <3>1. /\ w1 \in Int /\ w2 \in Int /\ w3 \in Int /\ P * (-z) = -w3
          /\ P * (q2 - q - z) = w2 - w1 - w3
      BY <1>2, <1>5, <2>1
    <3>2. y = w1 + r /\ x = w2 + r2 /\ y = x + g + (-w3)
      BY <1>8, <2>1, <3>1
    <3> HIDE DEF w1, w2, w3
    <3>3. r - r2 = g + (w2 - w1 - w3)
      BY <1>2, <1>5, <1>9, <2>1, <3>1, <3>2
    <3>4. QED BY <1>2, <2>1, <3>1, <3>3
  <2>3. (r - r2) % P = g % P
    BY <1>9, <2>2, SameResidue
  <2>4. g % P \in {WORDS % P, (-WORDS) % P}
    BY <1>7, <1>12
  <2>5. QED BY <1>4, <2>3, <2>4 DEF NearValue, r, r2
<1>13. QED BY <1>11, <1>12

(* A loose word and a word make a word that has limbs: nothing wraps.      *)
LEMMA LooseSum ==
  ASSUME NEW v, NEW x \in Word, Loose(v, x), NEW y \in Word,
         NEW out \in [1..4 -> Limbs], NEW d, \A l \in 1..4 : d[l] \in 0..7,
         constrain_add(<<v, u64_to_limbs(y)>>, out, d)
  PROVE  out = u64_to_limbs(WrappingAdd(y, x))
<1>1. PICK a, b, s, c, k :
        /\ a \in Word /\ b \in Word
        /\ x = WrappingAdd(a, b) /\ limbs_to_u64(s) = a + b
        /\ \A l \in 1..4 : c[l] \in 0..1 /\ s[l] \in 0..2 * (LIMB_VALUES - 1)
        /\ Bound(v, s, c, k)
  BY LooseIsBound
<1> DEFINE V == LIMB_VALUES
           w == u64_to_limbs(y)
           t == [l \in 1..4 |-> s[l] + w[l]]
           e == [l \in 1..4 |-> c[l] + d[l]]
<1>2. V \in Nat /\ V >= 2 /\ P \in Nat /\ P > 9 * V
  BY Sizes
<1>3. \A l \in 1..4 : /\ c[l] \in 0..1 /\ d[l] \in 0..7 /\ s[l] \in 0..2 * (V - 1)
                      /\ w[l] \in 0..V - 1 /\ out[l] \in 0..V - 1
                      /\ v[l] \in Int /\ k[l] \in Int
  BY <1>1, LimbRange DEF Limbs, Bound
<1>4. ASSUME NEW l \in 1..4
      PROVE  t[l] + CarryIn(e, l) - out[l] - e[l] * V = 0
  <2> DEFINE f == CarryIn(c, l)
             g == CarryIn(d, l)
             m == c[l] * V
             n == d[l] * V
             z == (v[l] + w[l]) + g - out[l] - n
             h == t[l] + CarryIn(e, l) - out[l] - e[l] * V
             q == k[l] * P
  <2>1. /\ f \in 0..1 /\ g \in 0..7 /\ CarryIn(e, l) = f + g
    BY <1>3 DEF CarryIn
  <2>2. m \in 0..V /\ n \in 0..7 * V /\ e[l] * V = m + n
    <3>1. /\ e[l] = c[l] + d[l] /\ c[l] \in Nat /\ c[l] <= 1 /\ d[l] \in Nat /\ d[l] <= 7
          /\ V \in Nat
      BY <1>2, <1>3
    <3>2. ASSUME NEW small \in Nat, NEW big \in Nat, NEW size \in Nat
          PROVE  /\ (small + big) * size = small * size + big * size
                 /\ small * size \in Nat /\ (small <= big => small * size <= big * size)
      BY MulMonotone
    <3> DEFINE cl == c[l]
               dl == d[l]
    <3>3. 1 * V = V /\ 7 * V \in Nat
      BY <3>1
    <3> HIDE DEF e, V, cl, dl
    <3>4. m <= 1 * V /\ m \in Nat
      BY <3>1, <3>2 DEF cl
    <3>5. n <= 7 * V /\ n \in Nat
      BY <3>1, <3>2 DEF dl
    <3>6. e[l] * V = m + n
      BY <3>1, <3>2
    <3>7. QED BY <3>3, <3>4, <3>5, <3>6
  <2>3. s[l] + f - v[l] - m = q
    BY <1>1 DEF Bound
  <2>4. z % P = 0
    <3>1. v[l] \in Int /\ w[l] \in Int
      BY <1>2, <1>3
    <3>2. ColumnSum(<<v, w>>, l) = v[l] + w[l]
      <4> HIDE DEF w
      <4>1. QED BY <3>1, SumOfTwo
    <3>3. QED BY <3>2 DEF constrain_add, LIMBS_PER_WORD
  <2>5. q \in Int /\ k[l] \in Int
    BY <1>2, <1>3
  <2>6. t[l] = s[l] + w[l]
    OBVIOUS
  <2>7. /\ s[l] \in 0..2 * (V - 1) /\ w[l] \in 0..V - 1 /\ out[l] \in 0..V - 1 /\ v[l] \in Int
        /\ h = t[l] + (f + g) - out[l] - (m + n)
    BY <1>3, <2>1, <2>2
  <2>8. z \in Int /\ q = P * k[l]
    BY <1>2, <1>3, <2>1, <2>2, <2>5
  <2>9. z = (v[l] + w[l]) + g - out[l] - n
    OBVIOUS
  <2> HIDE DEF V, w, t, e, f, g, m, n, h, q, z
  <2>10. h = z + q /\ h \in Int
    BY <2>1, <2>2, <2>3, <2>5, <2>6, <2>7, <2>9, <1>2
  <2>11. h % P = 0
    <3>1. h = z + P * k[l]
      BY <2>8, <2>10
    <3>2. h % P = z % P
      BY <2>5, <2>8, <2>10, <3>1, SameResidue
    <3>3. QED BY <2>4, <3>2
  <2>12. -P < h /\ h < P
    BY <1>2, <2>1, <2>2, <2>6, <2>7
  <2>13. h = 0
    BY <2>10, <2>11, <2>12, SmallResidue
  <2>14. QED BY <2>13 DEF h, V
<1>5. \A l \in 1..4 : t[l] \in Int /\ e[l] \in Int /\ out[l] \in Int
  BY <1>2, <1>3
<1>6. Carried(t, out, e)
  BY <1>4, <1>5 DEF Carried
<1>7. limbs_to_u64(t) = limbs_to_u64(s) + limbs_to_u64(w)
  <2>1. \A l \in 1..4 : s[l] \in Int /\ w[l] \in Int /\ t[l] = s[l] + w[l]
    BY <1>2, <1>3
  <2> HIDE DEF t, w
  <2>2. QED BY <2>1, LimbsAdd
<1>8. limbs_to_u64(w) = y
  BY WordsAreLimbs
<1> HIDE DEF t, w, e, V
<1>9. out = u64_to_limbs(((a + b) + y) % WORDS)
  BY <1>1, <1>6, <1>7, <1>8, CarriedWord
<1>10. ((a + b) + y) % WORDS = WrappingAdd(y, x)
  <2>1. PICK f \in 0..1 : a + b = x + WORDS * f
    BY <1>1, WrapOnce
  <2> DEFINE q == (y + x) \div WORDS
             r == (y + x) % WORDS
  <2>2. x \in Nat /\ y \in Nat /\ WORDS \in Nat /\ WORDS > 0 /\ a \in Nat /\ b \in Nat
    BY <1>1, Sizes DEF Word
  <2>3. q \in Int /\ r \in 0..WORDS - 1 /\ y + x = WORDS * q + r
    BY <2>2
  <2> HIDE DEF q, r
  <2>4. WORDS * (q + f) = WORDS * q + WORDS * f /\ WORDS * q \in Int /\ WORDS * f \in Int
    BY <2>2, <2>3
  <2>5. (a + b) + y = WORDS * (q + f) + r
    BY <2>1, <2>2, <2>3, <2>4
  <2>6. ((a + b) + y) % WORDS = r
    <3>1. (a + b) + y \in Int /\ q + f \in Int
      BY <2>2, <2>3
    <3>2. QED BY <2>2, <2>3, <2>5, <3>1, DivUnique
  <2>7. QED BY <2>6 DEF WrappingAdd, r
<1>11. QED BY <1>9, <1>10

(* ------------------------ a row of the rounds ----------------------- *)

(* The preprocessed row a verifier derives for a round. *)
LEMMA PrepOfRound ==
  ASSUME NEW s \in Nat, NEW seg \in 1..3, NEW n \in 0..ROUNDS - 1, NEW prep,
         prep = PrepRow(verifier_template_blocks, seg, n)
  PROVE  /\ prep.round /\ prep.transition /\ prep.K = u64_to_limbs(K[n + 1])
         /\ prep.hashSegment <=> seg = 3
         /\ prep.payload # 0 =>
              /\ prep.payload \in 1..PAYLOAD_WORD_COUNT
              /\ n + 1 = PAYLOAD_WORD_START + prep.payload /\ n + 1 \in 1..BLOCK_WORDS
         /\ prep.fixedInitW =>
              n + 1 \in 1..BLOCK_WORDS /\ prep.W = u64_to_limbs(BlockOf(s, seg)[n + 1])
         /\ ~prep.fixedInitW /\ prep.payload = 0 => n + 1 \in BLOCK_WORDS + 1..ROUNDS
<1> DEFINE blocks == verifier_template_blocks
           payload == n - PAYLOAD_WORD_START + 1
           isPayload == payload \in 1..PAYLOAD_WORD_COUNT
           fixed == n < BLOCK_WORDS /\ ~isPayload
           W == IF n < BLOCK_WORDS THEN u64_to_limbs(blocks[seg][n + 1]) ELSE ZeroLimbs
<1>1. /\ BLOCK_WORDS \in Nat /\ ROUNDS \in Nat /\ TRACE_ROWS \in Nat
      /\ PAYLOAD_WORD_START \in Nat /\ PAYLOAD_WORD_COUNT \in 1..4
      /\ BLOCK_WORDS >= PAYLOAD_WORD_START + PAYLOAD_WORD_COUNT + 2
      /\ ROUNDS > BLOCK_WORDS /\ TRACE_ROWS > ROUNDS + 1 /\ n \in Nat /\ n < ROUNDS
  BY BlockSizes
<1>2. seg <= 3
  OBVIOUS
<1> HIDE DEF blocks
<1>3. /\ prep.round = (n < ROUNDS)
      /\ prep.transition = (n + 1 < TRACE_ROWS /\ n # ROUNDS)
      /\ prep.K = (IF n < ROUNDS THEN u64_to_limbs(K[n + 1]) ELSE ZeroLimbs)
      /\ prep.hashSegment = ReadsPrivateKey(seg)
      /\ prep.payload = (IF isPayload THEN payload ELSE 0)
      /\ prep.fixedInitW = fixed
      /\ prep.W = (IF fixed THEN W ELSE ZeroLimbs)
  BY <1>2 DEF PrepRow, InstanceRow, blocks
<1>4. prep.round /\ prep.transition /\ prep.K = u64_to_limbs(K[n + 1])
  <2>1. n < ROUNDS /\ n + 1 < TRACE_ROWS /\ n # ROUNDS
    BY <1>1
  <2>2. QED BY <1>3, <2>1
<1>5. prep.hashSegment <=> seg = 3
  BY <1>3 DEF ReadsPrivateKey
<1>6. ASSUME prep.payload # 0
      PROVE  /\ prep.payload \in 1..PAYLOAD_WORD_COUNT
             /\ n + 1 = PAYLOAD_WORD_START + prep.payload /\ n + 1 \in 1..BLOCK_WORDS
  <2>1. isPayload /\ prep.payload = payload
    BY <1>3, <1>6
  <2>2. QED BY <1>1, <2>1
<1>7. ASSUME prep.fixedInitW
      PROVE  n + 1 \in 1..BLOCK_WORDS /\ prep.W = u64_to_limbs(BlockOf(s, seg)[n + 1])
  <2>1. fixed
    BY <1>3, <1>7
  <2>2. n + 1 \in 1..BLOCK_WORDS /\ (n + 1) - PAYLOAD_WORD_START = payload
    BY <1>1, <2>1
  <2>3. (n + 1) - PAYLOAD_WORD_START \notin 1..PAYLOAD_WORD_COUNT
    BY <2>1, <2>2
  <2>4. blocks[seg][n + 1] = BlockOf(s, seg)[n + 1]
    BY <2>2, <2>3, TemplateIsBlock DEF blocks
  <2>5. QED BY <1>3, <2>1, <2>2, <2>4
<1>8. ASSUME ~prep.fixedInitW, prep.payload = 0
      PROVE  n + 1 \in BLOCK_WORDS + 1..ROUNDS
  <2>1. ~fixed
    BY <1>3, <1>8
  <2>2. ~isPayload
    <3>1. SUFFICES ASSUME isPayload PROVE FALSE
      OBVIOUS
    <3>2. payload = 0
      BY <1>3, <1>8, <3>1
    <3>3. QED BY <1>1, <3>1, <3>2
  <2>3. ~(n < BLOCK_WORDS)
    BY <2>1, <2>2
  <2>4. QED BY <1>1, <2>3
<1>9. QED BY <1>4, <1>5, <1>6, <1>7, <1>8

(* The carries' columns bound them. *)
LEMMA CarryRanges ==
  ASSUME NEW c
  PROVE  /\ CarriesWithin(c, "T1", 4) => \A l \in 1..4 : c[l] \in 0..4
         /\ \A col \in {"T1", "T2", "A", "E"} :
              col # "T1" /\ CarriesWithin(c, col, 1) => \A l \in 1..4 : c[l] \in 0..1
         /\ CarriesWithin(c, "SCHED", 3) => \A l \in 1..4 : c[l] \in 0..4
<1>1. /\ Pow2[carry_bit_width("T1")] - 1 = 7 /\ Pow2[carry_bit_width("T2")] - 1 = 1
      /\ Pow2[carry_bit_width("A")] - 1 = 1 /\ Pow2[carry_bit_width("E")] - 1 = 1
      /\ Pow2[carry_bit_width("SCHED")] - 1 = 3
  BY SmallPowers DEF carry_bit_width
<1>2. QED BY <1>1 DEF CarriesWithin, constrain_carry_max, LIMBS_PER_WORD

(* The constraints a row has among those of a trace of two. *)
RowHolds(a, b, prep, pub) ==
  /\ FixedWordsBound(a.words, prep) /\ PayloadBound(a.words, a.seed, a.sk, prep)
  /\ constrain_private_sk_from_derive_final(a, prep)
  /\ RoundConstrained(a.words, prep) /\ RangesConstrained(a)
  /\ TransitionConstrained(a, b, prep)

(* The constraints of the first of two rows.                               *)
LEMMA EvalOfTwo ==
  ASSUME NEW a, NEW b, NEW prep, NEW pub, eval(<<a, b>>, prep, pub, 1)
  PROVE  RowHolds(a, b, prep, pub)
<1> DEFINE main == <<a, b>>
<1>1. main[1] = a /\ main[1 + 1] = b /\ 1 + 1 \in DOMAIN main
  OBVIOUS
<1> HIDE DEF main
<1>2. eval(main, prep, pub, 1)
  BY DEF main
<1>3. QED BY <1>1, <1>2 DEF eval, RowHolds

(* A state whose words are exact, but for the two new ones of the round    *)
(* before, which are loose.                                                *)
StateMatches(st, s) ==
  /\ st = [i \in 1..8 |-> st[i]]
  /\ st[2] = u64_to_limbs(s[2]) /\ st[3] = u64_to_limbs(s[3]) /\ st[4] = u64_to_limbs(s[4])
  /\ st[6] = u64_to_limbs(s[6]) /\ st[7] = u64_to_limbs(s[7]) /\ st[8] = u64_to_limbs(s[8])
  /\ Loose(st[1], s[1]) /\ Loose(st[5], s[5])

(* The lags of a row, as far as they are words of its segment.             *)
LagsMatch(lags, w, n) ==
  \A lag \in 1..LAG_COUNT : lag <= n => lags[lag] = u64_to_limbs(w[n - lag + 1])

(* In a round the bits make the whole state exact, and the words made of   *)
(* its bits are those of the hash.                                         *)
LEMMA StateIsExact ==
  ASSUME NEW st, NEW s \in States, StateMatches(st, s), NEW h, NEW prep, prep.round,
         RoundConstrained(RowWords(st, h), prep)
  PROVE  /\ \A i \in 1..8 : st[i] = u64_to_limbs(s[i])
         /\ h.SIGMA0 = u64_to_limbs(big_sigma0(s[1])) /\ h.SIGMA1 = u64_to_limbs(big_sigma1(s[5]))
         /\ h.CH = u64_to_limbs(ch(s[5], s[6], s[7])) /\ h.MAJ = u64_to_limbs(maj(s[1], s[2], s[3]))
<1> DEFINE w == RowWords(st, h)
<1>1. /\ w["A"] = st[1] /\ w["E"] = st[5] /\ w.B = st[2] /\ w.C = st[3] /\ w.F = st[6]
      /\ w.G = st[7] /\ w.A = st[1] /\ w.E = st[5]
      /\ w.SIGMA0 = h.SIGMA0 /\ w.SIGMA1 = h.SIGMA1 /\ w.CH = h.CH /\ w.MAJ = h.MAJ
  BY DEF RowWords
<1> HIDE DEF w
<1>2. /\ \A name \in BitWords : HasBits(w[name])
      /\ w.SIGMA0 = BigSigma0Limbs(limbs_to_u64(w.A))
      /\ w.SIGMA1 = BigSigma1Limbs(limbs_to_u64(w.E))
      /\ w.CH = ChLimbs(limbs_to_u64(w.E), limbs_to_u64(w.F), limbs_to_u64(w.G))
      /\ w.MAJ = MajLimbs(limbs_to_u64(w.A), limbs_to_u64(w.B), limbs_to_u64(w.C))
  BY DEF RoundConstrained, w
<1>3. HasBits(st[1]) /\ HasBits(st[5])
  BY <1>1, <1>2 DEF BitWords
<1>4. st[1] = u64_to_limbs(s[1]) /\ st[5] = u64_to_limbs(s[5])
  BY <1>3, LooseWithBits DEF StateMatches
<1>5. \A i \in 1..8 : st[i] = u64_to_limbs(s[i])
  <2>1. \A i \in 1..8 : i \in {1, 2, 3, 4, 5, 6, 7, 8}
    OBVIOUS
  <2>2. QED BY <1>4, <2>1 DEF StateMatches
<1>6. \A i \in 1..8 : s[i] \in Word /\ limbs_to_u64(st[i]) = s[i]
  BY <1>5, WordsAreLimbs DEF States
<1>7. /\ h.SIGMA0 = BigSigma0Limbs(s[1]) /\ h.SIGMA1 = BigSigma1Limbs(s[5])
      /\ h.CH = ChLimbs(s[5], s[6], s[7]) /\ h.MAJ = MajLimbs(s[1], s[2], s[3])
  BY <1>1, <1>2, <1>6
<1>8. QED BY <1>5, <1>6, <1>7, BigSigma0IsWord, BigSigma1IsWord, ChIsWord, MajIsWord

Tuple(v) == v = [l \in 1..4 |-> v[l]]

(* In range, a function of four limbs is one of limbs. *)
LEMMA TupleInRange ==
  ASSUME NEW v, Tuple(v), HasBits(v)
  PROVE  v \in [1..4 -> Limbs]
<1>1. \A l \in 1..4 : v[l] \in Limbs
  BY DEF HasBits, LIMBS_PER_WORD
<1>2. v = [l \in 1..4 |-> v[l]]
  BY DEF Tuple
<1>3. QED BY <1>1, <1>2

(* The word of a round is the one of the schedule. *)
LEMMA WordIsExact ==
  ASSUME NEW s \in Nat, NEW seg \in 1..3, NEW n \in 0..ROUNDS - 1, NEW prep,
         prep = PrepRow(verifier_template_blocks, seg, n),
         NEW a, NEW b, NEW pub, RowHolds(a, b, prep, pub),
         LagsMatch(a.lags, WordsOf(s, seg), n),
         a.seed = EachInLimbs(payload_words(s)),
         seg = 3 => a.sk = EachInLimbs(DerivedKey(s)),
         ~prep.fixedInitW /\ prep.payload = 0 => Tuple(a.words.W),
         HasBits(a.words.W)
  PROVE  a.words.W = u64_to_limbs(WordsOf(s, seg)[n + 1])
<1> DEFINE w == WordsOf(s, seg)
           block == BlockOf(s, seg)
           W == a.words.W
<1>1. Scheduled(w, block)
  BY TraceFacts
<1> HIDE DEF w, block
<1>2. n \in Nat /\ n < ROUNDS /\ BLOCK_WORDS \in Nat /\ ROUNDS \in Nat /\ ROUNDS > BLOCK_WORDS
  BY BlockSizes
<1>3. CASE prep.fixedInitW
  <2>1. n + 1 \in 1..BLOCK_WORDS /\ prep.W = u64_to_limbs(block[n + 1])
    BY <1>3, PrepOfRound DEF block
  <2>2. W = prep.W
    BY <1>3 DEF RowHolds, FixedWordsBound
  <2>3. w[n + 1] = block[n + 1]
    BY <1>1, <2>1 DEF Scheduled
  <2>4. QED BY <2>1, <2>2, <2>3 DEF w
<1>4. CASE prep.payload # 0
  <2> DEFINE i == prep.payload
  <2>1. /\ i \in 1..PAYLOAD_WORD_COUNT /\ n + 1 = PAYLOAD_WORD_START + i
        /\ n + 1 \in 1..BLOCK_WORDS /\ (prep.hashSegment <=> seg = 3)
    BY <1>4, PrepOfRound
  <2>2. W = (IF prep.hashSegment THEN a.sk ELSE a.seed)[i]
    BY <1>4 DEF RowHolds, PayloadBound
  <2>3. W = EachInLimbs(PayloadOf(s, seg))[i]
    BY <2>1, <2>2 DEF PayloadOf
  <2>4. DOMAIN PayloadOf(s, seg) = 1..PAYLOAD_WORD_COUNT
    BY PayloadOfFacts DEF Payloads
  <2>5. W = u64_to_limbs(PayloadOf(s, seg)[i])
    BY <2>1, <2>3, <2>4 DEF EachInLimbs
  <2>6. block[n + 1] = PayloadOf(s, seg)[i]
    BY <2>1, PayloadIsRead DEF block
  <2>7. w[n + 1] = block[n + 1]
    BY <1>1, <2>1 DEF Scheduled
  <2>8. QED BY <2>5, <2>6, <2>7 DEF w
<1>5. CASE ~prep.fixedInitW /\ prep.payload = 0
  <2>1. n + 1 \in BLOCK_WORDS + 1..ROUNDS /\ prep.round /\ prep.transition
    BY <1>5, PrepOfRound
  <2> DEFINE p == w[n - LAG_SIGMA1]
             q == w[n - LAG_ADDED]
             x == w[n - LAG_SIGMA0]
             y == w[n - LAG_LAST]
  <2>2. /\ n - LAG_SIGMA1 \in 1..ROUNDS /\ n - LAG_ADDED \in 1..ROUNDS
        /\ n - LAG_SIGMA0 \in 1..ROUNDS /\ n - LAG_LAST \in 1..ROUNDS
    BY <1>2, <2>1, BlockSizes
  <2>3. p \in Word /\ q \in Word /\ x \in Word /\ y \in Word
    BY <1>1, <2>2 DEF Scheduled
  <2>4. \A lag \in 0..BLOCK_WORDS - 1 : a.lags[lag + 1] = u64_to_limbs(w[n - lag])
    <3>1. ASSUME NEW lag \in 0..BLOCK_WORDS - 1 PROVE a.lags[lag + 1] = u64_to_limbs(w[n - lag])
      <4>1. lag + 1 \in 1..LAG_COUNT /\ lag + 1 <= n /\ n - (lag + 1) + 1 = n - lag
        BY <1>2, <2>1, BlockSizes
      <4>2. a.lags[lag + 1] = u64_to_limbs(w[n - (lag + 1) + 1])
        BY <4>1 DEF LagsMatch, w
      <4>3. QED BY <4>1, <4>2
    <3>2. QED BY <3>1
  <2>5. /\ a.lags[LAG_SIGMA1 + 1] = u64_to_limbs(p) /\ a.lags[LAG_ADDED + 1] = u64_to_limbs(q)
        /\ a.lags[LAG_SIGMA0 + 1] = u64_to_limbs(x) /\ a.lags[LAG_LAST + 1] = u64_to_limbs(y)
    BY <2>4, BlockSizes
  <2>6. ScheduleOperands(a.lags) =
          <<u64_to_limbs(small_sigma1(p)), u64_to_limbs(q),
            u64_to_limbs(small_sigma0(x)), u64_to_limbs(y)>>
    BY <2>3, <2>5, WordsAreLimbs, SmallSigma0IsWord, SmallSigma1IsWord DEF ScheduleOperands
  <2>7. small_sigma1(p) \in Word /\ small_sigma0(x) \in Word
    BY <2>3, SmallSigma0IsWord, SmallSigma1IsWord
  <2>8. SumsTo(ScheduleOperands(a.lags), 4, small_sigma1(p) + q + small_sigma0(x) + y)
    BY <2>3, <2>6, <2>7, FourWords
  <2>9. /\ CarriesWithin(a.carries.SCHED, "SCHED", 3)
        /\ constrain_add(ScheduleOperands(a.lags), W, a.carries.SCHED)
    <3>1. constrain_schedule_recurrence(a, prep)
      BY <2>1 DEF RowHolds, TransitionConstrained
    <3>2. QED BY <1>5, <2>1, <3>1 DEF constrain_schedule_recurrence
  <2>10. \A l \in 1..4 : a.carries.SCHED[l] \in 0..4
    BY <2>9, CarryRanges
  <2>11. W \in [1..4 -> Limbs]
    BY <1>5, TupleInRange
  <2>12. W = u64_to_limbs((small_sigma1(p) + q + small_sigma0(x) + y) % WORDS)
    BY <2>8, <2>9, <2>10, <2>11, SumExact
  <2>13. w[n + 1] = ScheduleWord(w, n + 1)
    BY <1>1, <2>1 DEF Scheduled
  <2>14. ScheduleWord(w, n + 1) = (small_sigma1(p) + q + small_sigma0(x) + y) % WORDS
    <3>1. /\ (n + 1) - LAG_SIGMA1 - 1 = n - LAG_SIGMA1 /\ (n + 1) - LAG_ADDED - 1 = n - LAG_ADDED
          /\ (n + 1) - LAG_SIGMA0 - 1 = n - LAG_SIGMA0 /\ (n + 1) - LAG_LAST - 1 = n - LAG_LAST
      BY <1>2, BlockSizes
    <3>2. QED BY <3>1 DEF ScheduleWord
  <2>15. QED BY <2>12, <2>13, <2>14 DEF w
<1>6. QED BY <1>3, <1>4, <1>5

(* What a laid row must be: the words of its segment's round.              *)
LaidRow(s, seg, n, st, h, a, b, prep, pub) ==
  /\ prep = PrepRow(verifier_template_blocks, seg, n)
  /\ StateMatches(st, RoundsOf(s, seg)[n]) /\ LagsMatch(a.lags, WordsOf(s, seg), n)
  /\ a.words = RowWords(st, h) /\ RowHolds(a, b, prep, pub)
  /\ a.seed = EachInLimbs(payload_words(s)) /\ (seg = 3 => a.sk = EachInLimbs(DerivedKey(s)))
  /\ (~prep.fixedInitW /\ prep.payload = 0 => Tuple(h.W)) /\ Tuple(h.T1) /\ Tuple(h.T2)

(* The constraints of a row of the rounds determine its words: the state   *)
(* in front of it, the word of the schedule and the two sums are those of  *)
(* the compression.                                                        *)
LEMMA RoundIsExact ==
  ASSUME NEW s \in Nat, NEW seg \in 1..3, NEW n \in 0..ROUNDS - 1, NEW st, NEW h, NEW a, NEW b,
         NEW prep, NEW pub, LaidRow(s, seg, n, st, h, a, b, prep, pub),
         NEW r, r = RoundsOf(s, seg)[n], NEW w, w = WordsOf(s, seg)[n + 1]
  PROVE  /\ r \in States /\ w \in Word /\ K[n + 1] \in Word
         /\ \A i \in 1..8 : st[i] = u64_to_limbs(r[i])
         /\ h.W = u64_to_limbs(w)
         /\ h.T1 = u64_to_limbs(Temp1(r, K[n + 1], w)) /\ h.T2 = u64_to_limbs(Temp2(r))
<1> DEFINE k == K[n + 1]
<1>1. n + 1 \in 1..ROUNDS /\ n \in 0..ROUNDS
  BY BlockSizes
<1>2. r \in States /\ w \in Word /\ k \in Word
  <2>1. Scheduled(WordsOf(s, seg), BlockOf(s, seg))
        /\ RoundsFrom(RoundsOf(s, seg), INITIAL_STATE, WordsOf(s, seg))
    BY TraceFacts
  <2>2. w \in Word
    BY <1>1, <2>1 DEF Scheduled
  <2>3. r \in States
    BY <1>1, <2>1 DEF RoundsFrom
  <2>4. k \in Word
    BY <1>1, ConstantsAssumption
  <2> QED BY <2>2, <2>3, <2>4
<1>3. /\ prep = PrepRow(verifier_template_blocks, seg, n)
      /\ StateMatches(st, r) /\ LagsMatch(a.lags, WordsOf(s, seg), n)
      /\ a.words = RowWords(st, h) /\ RowHolds(a, b, prep, pub)
      /\ a.seed = EachInLimbs(payload_words(s)) /\ (seg = 3 => a.sk = EachInLimbs(DerivedKey(s)))
      /\ (~prep.fixedInitW /\ prep.payload = 0 => Tuple(h.W)) /\ Tuple(h.T1) /\ Tuple(h.T2)
  BY DEF LaidRow
<1>4. prep.round /\ prep.transition /\ prep.K = u64_to_limbs(k)
  BY <1>3, PrepOfRound
<1>5. /\ a.words.W = h.W /\ a.words["W"] = h.W /\ a.words["T1"] = h.T1 /\ a.words["T2"] = h.T2
      /\ a.words.T1 = h.T1 /\ a.words.T2 = h.T2 /\ a.words.H = st[8] /\ a.words.K = h.K
      /\ a.words.SIGMA0 = h.SIGMA0 /\ a.words.SIGMA1 = h.SIGMA1
      /\ a.words.CH = h.CH /\ a.words.MAJ = h.MAJ
  BY <1>3 DEF RowWords
<1>6. HasBits(h.W) /\ HasBits(h.T1) /\ HasBits(h.T2)
  BY <1>3, <1>5 DEF RowHolds, RangesConstrained, RANGED_WORDS
<1>7. h.W = u64_to_limbs(w)
  BY <1>3, <1>5, <1>6, WordIsExact
<1>8. RoundConstrained(RowWords(st, h), prep)
  BY <1>3 DEF RowHolds
<1>9. /\ \A i \in 1..8 : st[i] = u64_to_limbs(r[i])
      /\ h.SIGMA0 = u64_to_limbs(big_sigma0(r[1])) /\ h.SIGMA1 = u64_to_limbs(big_sigma1(r[5]))
      /\ h.CH = u64_to_limbs(ch(r[5], r[6], r[7])) /\ h.MAJ = u64_to_limbs(maj(r[1], r[2], r[3]))
  BY <1>2, <1>3, <1>4, <1>8, StateIsExact
<1>10. h.K = u64_to_limbs(k)
  BY <1>3, <1>4, <1>5 DEF RowHolds, FixedWordsBound
<1>11. TransitionConstrained(a, b, prep)
  BY <1>3 DEF RowHolds
<1>12. /\ CarriesWithin(a.carries.T1, "T1", 4) /\ CarriesWithin(a.carries["T2"], "T2", 1)
       /\ constrain_add(<<st[8], h.SIGMA1, h.CH, h.K, h.W>>, h.T1, a.carries.T1)
       /\ constrain_add(<<h.SIGMA0, h.MAJ>>, h.T2, a.carries["T2"])
  BY <1>4, <1>5, <1>11 DEF TransitionConstrained
<1>13. /\ big_sigma0(r[1]) \in Word /\ big_sigma1(r[5]) \in Word /\ ch(r[5], r[6], r[7]) \in Word
       /\ maj(r[1], r[2], r[3]) \in Word /\ r[8] \in Word
  <2>1. r[8] \in Word
    BY <1>2 DEF States
  <2>2. QED BY <1>2, <2>1, TempsAreWords
<1>14. /\ \A l \in 1..4 : a.carries.T1[l] \in 0..4
       /\ \A l \in 1..4 : a.carries["T2"][l] \in 0..4
  <2>1. \A l \in 1..4 : a.carries["T2"][l] \in 0..1
    BY <1>12, CarryRanges
  <2>2. QED BY <1>12, <2>1, CarryRanges
<1>15. h.T1 = u64_to_limbs(Temp1(r, k, w))
  <2>1. st[8] = u64_to_limbs(r[8])
    BY <1>9
  <2> DEFINE ops == <<st[8], h.SIGMA1, h.CH, h.K, h.W>>
  <2>2. SumsTo(ops, 5, r[8] + big_sigma1(r[5]) + ch(r[5], r[6], r[7]) + k + w)
    BY <1>2, <1>7, <1>9, <1>10, <1>13, <2>1, FiveWords
  <2>3. h.T1 \in [1..4 -> Limbs]
    BY <1>3, <1>6, TupleInRange
  <2> HIDE DEF ops
  <2>4. h.T1 = u64_to_limbs((r[8] + big_sigma1(r[5]) + ch(r[5], r[6], r[7]) + k + w) % WORDS)
    BY <1>12, <1>14, <2>2, <2>3, SumExact DEF ops
  <2>5. QED BY <2>4 DEF Temp1
<1>16. h.T2 = u64_to_limbs(Temp2(r))
  <2> DEFINE ops == <<h.SIGMA0, h.MAJ>>
  <2>1. SumsTo(ops, 2, big_sigma0(r[1]) + maj(r[1], r[2], r[3]))
    BY <1>9, <1>13, TwoWords
  <2>2. h.T2 \in [1..4 -> Limbs]
    BY <1>3, <1>6, TupleInRange
  <2> HIDE DEF ops
  <2>3. h.T2 = u64_to_limbs((big_sigma0(r[1]) + maj(r[1], r[2], r[3])) % WORDS)
    BY <1>12, <1>14, <2>1, <2>2, SumExact DEF ops
  <2>4. QED BY <2>3 DEF Temp2, WrappingAdd
<1>17. QED BY <1>2, <1>7, <1>9, <1>15, <1>16

(* The limbs the constraints leave to a sum of two words are a loose word. *)
LEMMA SumIsLoose ==
  ASSUME NEW x \in Word, NEW y \in Word, NEW v \in [1..4 -> Int], NEW c,
         \A l \in 1..4 : c[l] \in 0..1,
         constrain_add(<<u64_to_limbs(x), u64_to_limbs(y)>>, v, c)
  PROVE  Loose(v, WrappingAdd(x, y))
BY DEF Loose

(* The next row of a laid one has the next state and lags. *)
LEMMA NextRowMatches ==
  ASSUME NEW s \in Nat, NEW seg \in 1..3, NEW n \in 0..ROUNDS - 1, NEW st, NEW h, NEW a, NEW b,
         NEW prep, NEW pub, LaidRow(s, seg, n, st, h, a, b, prep, pub),
         NEW st2, NEW h2, b.words = RowWords(st2, h2), st2 = [i \in 1..8 |-> st2[i]],
         st2[1] \in [1..4 -> Int], st2[5] \in [1..4 -> Int]
  PROVE  /\ StateMatches(st2, RoundsOf(s, seg)[n + 1])
         /\ LagsMatch(b.lags, WordsOf(s, seg), n + 1)
<1> DEFINE r == RoundsOf(s, seg)[n]
           r2 == RoundsOf(s, seg)[n + 1]
           w == WordsOf(s, seg)[n + 1]
           t1 == Temp1(r, K[n + 1], w)
           t2 == Temp2(r)
<1>1. /\ r \in States /\ w \in Word /\ K[n + 1] \in Word
      /\ \A i \in 1..8 : st[i] = u64_to_limbs(r[i])
      /\ h.W = u64_to_limbs(w) /\ h.T1 = u64_to_limbs(t1) /\ h.T2 = u64_to_limbs(t2)
  BY RoundIsExact
<1>2. n + 1 \in 1..ROUNDS /\ (n + 1) - 1 = n /\ n \in Nat
  BY BlockSizes
<1>3. r2 = Shifted(r, t1, t2)
  <2>1. RoundsFrom(RoundsOf(s, seg), INITIAL_STATE, WordsOf(s, seg))
    BY TraceFacts
  <2>2. QED BY <1>2, <2>1 DEF RoundsFrom, NextState
<1>4. t1 \in Word /\ t2 \in Word /\ r[4] \in Word
  <2>1. r[4] \in Word
    BY <1>1 DEF States
  <2>2. QED BY <1>1, <2>1, TempsAreWords
<1>5. /\ prep = PrepRow(verifier_template_blocks, seg, n)
      /\ LagsMatch(a.lags, WordsOf(s, seg), n)
      /\ a.words = RowWords(st, h) /\ TransitionConstrained(a, b, prep)
  BY DEF LaidRow, RowHolds
<1>6. prep.transition
  BY <1>5, PrepOfRound
<1>7. /\ a.words.W = h.W /\ a.words.T1 = h.T1 /\ a.words.T2 = h.T2 /\ a.words.D = st[4]
      /\ a.words.A = st[1] /\ a.words.B = st[2] /\ a.words.C = st[3] /\ a.words.E = st[5]
      /\ a.words.F = st[6] /\ a.words.G = st[7]
      /\ b.words.A = st2[1] /\ b.words.B = st2[2] /\ b.words.C = st2[3] /\ b.words.D = st2[4]
      /\ b.words.E = st2[5] /\ b.words.F = st2[6] /\ b.words.G = st2[7] /\ b.words.H = st2[8]
  BY <1>5 DEF RowWords
<1>8. /\ CarriesWithin(a.carries["A"], "A", 1) /\ CarriesWithin(a.carries["E"], "E", 1)
      /\ constrain_add(<<h.T1, h.T2>>, st2[1], a.carries["A"])
      /\ constrain_add(<<st[4], h.T1>>, st2[5], a.carries["E"])
      /\ st2[2] = st[1] /\ st2[3] = st[2] /\ st2[4] = st[3]
      /\ st2[6] = st[5] /\ st2[7] = st[6] /\ st2[8] = st[7]
      /\ b.lags = advance_lags(a.lags, h.W)
  BY <1>5, <1>6, <1>7 DEF TransitionConstrained
<1> HIDE DEF r, r2, w, t1, t2
<1>9. /\ st[1] = u64_to_limbs(r[1]) /\ st[2] = u64_to_limbs(r[2]) /\ st[3] = u64_to_limbs(r[3])
      /\ st[4] = u64_to_limbs(r[4]) /\ st[5] = u64_to_limbs(r[5]) /\ st[6] = u64_to_limbs(r[6])
      /\ st[7] = u64_to_limbs(r[7])
  BY <1>1
<1>10. /\ r2[1] = WrappingAdd(t1, t2) /\ r2[2] = r[1] /\ r2[3] = r[2] /\ r2[4] = r[3]
       /\ r2[5] = WrappingAdd(r[4], t1) /\ r2[6] = r[5] /\ r2[7] = r[6] /\ r2[8] = r[7]
  BY <1>3 DEF Shifted
<1>11. \A l \in 1..4 : a.carries["A"][l] \in 0..1 /\ a.carries["E"][l] \in 0..1
  BY <1>8, CarryRanges
<1>12. Loose(st2[1], r2[1])
  BY <1>1, <1>4, <1>8, <1>10, <1>11, SumIsLoose
<1>13. Loose(st2[5], r2[5])
  BY <1>1, <1>4, <1>8, <1>9, <1>10, <1>11, SumIsLoose
<1>14. StateMatches(st2, r2)
  BY <1>8, <1>9, <1>10, <1>12, <1>13 DEF StateMatches
<1>15. ASSUME NEW lag \in 1..LAG_COUNT, lag <= n + 1
       PROVE  b.lags[lag] = u64_to_limbs(WordsOf(s, seg)[(n + 1) - lag + 1])
  <2>1. b.lags[lag] = IF lag = 1 THEN h.W ELSE a.lags[lag - 1]
    BY <1>8 DEF advance_lags
  <2>2. CASE lag = 1
    <3>1. (n + 1) - lag + 1 = n + 1
      BY <1>2, <2>2
    <3>2. QED BY <1>1, <2>1, <2>2, <3>1 DEF w
  <2>3. CASE lag # 1
    <3>1. lag - 1 \in 1..LAG_COUNT /\ lag - 1 <= n /\ n - (lag - 1) + 1 = (n + 1) - lag + 1
      BY <1>2, <1>15, <2>3, BlockSizes
    <3>2. a.lags[lag - 1] = u64_to_limbs(WordsOf(s, seg)[n - (lag - 1) + 1])
      BY <1>5, <3>1 DEF LagsMatch
    <3>3. QED BY <2>1, <2>3, <3>1, <3>2
  <2>4. QED BY <2>2, <2>3
<1>16. QED BY <1>14, <1>15 DEF LagsMatch, r2

(***************************************************************************)
(* The limbs a prover finds for a sum are among the ones it may choose     *)
(* from.                                                                   *)
(***************************************************************************)
LEMMA CarryFound ==
  ASSUME NEW found \in SUBSET [1..4 -> Int], NEW l \in 1..4, NEW column, NEW max, NEW outs,
         NEW c \in WithCarry(found, l, column, max, outs)
  PROVE  /\ \E lower \in found : c \in [1..4 -> Int] /\ \A i \in 1..4 : i # l => c[i] = lower[i]
         /\ SumLimb(column, c, l) \in outs
<1>1. /\ c \in {[lower EXCEPT ![l] = carry] : lower \in found, carry \in 0..max}
      /\ SumLimb(column, c, l) \in outs
  BY DEF WithCarry
<1>2. PICK lower \in found, carry \in 0..max : c = [lower EXCEPT ![l] = carry]
  BY <1>1
<1>3. lower \in [1..4 -> Int] /\ carry \in Int
  OBVIOUS
<1>4. c \in [1..4 -> Int] /\ \A i \in 1..4 : i # l => c[i] = lower[i]
  BY <1>2, <1>3
<1> QED BY <1>1, <1>4

(* The limbs of a solution of a sum are among those it was asked for.      *)
LEMMA SolutionOut ==
  ASSUME NEW operands, NEW max, NEW outs, NEW o \in SumSolutions(operands, max, outs)
  PROVE  o.out \in [1..4 -> outs]
<1> DEFINE column == [l \in 1..LIMBS_PER_WORD |-> ColumnSum(operands, l)]
           s0 == {ZeroLimbs}
           s1 == WithCarry(s0, 1, column, max, outs)
           s2 == WithCarry(s1, 2, column, max, outs)
           s3 == WithCarry(s2, 3, column, max, outs)
           s4 == WithCarry(s3, 4, column, max, outs)
<1>1. PICK c \in s4 :
        o = [out |-> [l \in 1..LIMBS_PER_WORD |-> SumLimb(column, c, l)], carries |-> c]
  BY DEF SumSolutions
<1> HIDE DEF column
<1>0. s0 \in SUBSET [1..4 -> Int]
  <2>1. ZeroLimbs \in [1..4 -> Limbs]
    BY ZeroIsWord, WordsAreLimbs
  <2>2. Limbs \subseteq Int
    BY DEF Limbs
  <2> QED BY <2>1, <2>2
<1> HIDE DEF s0
<1>2. s1 \in SUBSET [1..4 -> Int] /\ \A d \in s1 : SumLimb(column, d, 1) \in outs
  BY <1>0, CarryFound
<1> HIDE DEF s1
<1>3. /\ s2 \in SUBSET [1..4 -> Int]
      /\ \A d \in s2 : /\ SumLimb(column, d, 2) \in outs
                       /\ \E lower \in s1 : \A i \in 1..4 : i # 2 => d[i] = lower[i]
  BY <1>2, CarryFound
<1> HIDE DEF s2
<1>4. /\ s3 \in SUBSET [1..4 -> Int]
      /\ \A d \in s3 : /\ SumLimb(column, d, 3) \in outs
                       /\ \E lower \in s2 : \A i \in 1..4 : i # 3 => d[i] = lower[i]
  BY <1>3, CarryFound
<1> HIDE DEF s3
<1>5. \A d \in s4 : /\ SumLimb(column, d, 4) \in outs
                    /\ \E lower \in s3 : \A i \in 1..4 : i # 4 => d[i] = lower[i]
  BY <1>4, CarryFound
<1> HIDE DEF s4
<1>6. PICK c3 \in s3 : \A i \in 1..4 : i # 4 => c[i] = c3[i]
  BY <1>5
<1>7. PICK c2 \in s2 : \A i \in 1..4 : i # 3 => c3[i] = c2[i]
  BY <1>4
<1>8. PICK c1 \in s1 : \A i \in 1..4 : i # 2 => c2[i] = c1[i]
  BY <1>3
<1>9. /\ c[1] = c1[1] /\ c[1] = c2[1] /\ c[2] = c2[2] /\ c[2] = c3[2] /\ c[3] = c3[3]
  BY <1>6, <1>7, <1>8
<1>10. /\ SumLimb(column, c, 1) = SumLimb(column, c1, 1)
       /\ SumLimb(column, c, 2) = SumLimb(column, c2, 2)
       /\ SumLimb(column, c, 3) = SumLimb(column, c3, 3)
  BY <1>9 DEF SumLimb, CarryIn
<1>11. \A l \in 1..4 : SumLimb(column, c, l) \in outs
  BY <1>2, <1>3, <1>4, <1>5, <1>10
<1>12. o.out = [l \in 1..4 |-> SumLimb(column, c, l)]
  BY <1>1 DEF LIMBS_PER_WORD
<1> QED BY <1>11, <1>12

(* The public values found for one segment of a seed: the residues of its  *)
(* last state's words, and those of A and E up to one wrap of a word.      *)
ValuesFound(found, offset, s, seg) ==
  \A i \in 1..8 :
    LET word == RoundsOf(s, seg)[ROUNDS][i]
    IN  IF i \in {1, 5} THEN NearValue(found[offset + i], word) ELSE found[offset + i] = word % P

(* What rows laid so far for a seed are bound to: the row in play is the   *)
(* next one of its segment, and the key and the values found are the       *)
(* seed's.                                                                 *)
Laying(s, at, key, found) ==
  /\ at.seg \in 1..3 /\ at.n \in 0..ROUNDS
  /\ StateMatches(at.state, RoundsOf(s, at.seg)[at.n])
  /\ LagsMatch(at.lags, WordsOf(s, at.seg), at.n)
  /\ at.seg = 3 => key = EachInLimbs(DerivedKey(s))
  /\ at.seg = 1 => found = <<>>
  /\ at.seg # 1 => found \in Seq(Int) /\ Len(found) = 8 /\ ValuesFound(found, 0, s, 1)
Laid(s, key, found) ==
  /\ key = EachInLimbs(DerivedKey(s))
  /\ ValuesFound(found, 0, s, 1) /\ ValuesFound(found, 8, s, 3)

TracesAreBound ==
  /\ provers = [s \in Seeds |-> Prover(s)] /\ seed \in Seeds
  /\ stage = "lay" => Laying(seed, row, sk, public)
  /\ stage = "accepted" => Laid(seed, sk, public)

(* The first row of a segment, whatever its lags.                          *)
LEMMA FirstRowMatches ==
  ASSUME NEW s \in Nat, NEW seg \in 1..3, NEW at \in FirstRows(seg)
  PROVE  /\ at.seg = seg /\ at.n = 0
         /\ StateMatches(at.state, RoundsOf(s, seg)[0]) /\ LagsMatch(at.lags, WordsOf(s, seg), 0)
<1>1. at.seg = seg /\ at.n = 0 /\ at.state = EachInLimbs(INITIAL_STATE)
  BY DEF FirstRows
<1>2. RoundsOf(s, seg)[0] = INITIAL_STATE
  BY TraceFacts DEF RoundsFrom
<1>3. at.state = [i \in 1..8 |-> u64_to_limbs(INITIAL_STATE[i])]
  BY <1>1, InitialState DEF EachInLimbs, States
<1>4. Loose(at.state[1], INITIAL_STATE[1]) /\ Loose(at.state[5], INITIAL_STATE[5])
  BY <1>3, ExactIsLoose, InitialState DEF States
<1>5. StateMatches(at.state, INITIAL_STATE)
  BY <1>3, <1>4 DEF StateMatches
<1>6. LagsMatch(at.lags, WordsOf(s, seg), 0)
  BY DEF LagsMatch
<1> QED BY <1>1, <1>2, <1>5, <1>6

(* The values of a last state, appended to the ones found before. *)
LEMMA FinalValues ==
  ASSUME NEW s \in Nat, NEW seg \in 1..3, NEW st, StateMatches(st, RoundsOf(s, seg)[ROUNDS]),
         NEW values, values = [i \in 1..8 |-> pack_word_from_limbs(st[i])]
  PROVE  values \in Seq(Int) /\ Len(values) = 8 /\ ValuesFound(values, 0, s, seg)
<1> DEFINE r == RoundsOf(s, seg)[ROUNDS]
<1>1. r \in States
  BY TraceFacts, BlockSizes DEF RoundsFrom
<1> HIDE DEF r
<1>2. \A i \in 1..8 : r[i] \in Word
  BY <1>1 DEF States
<1>3. \A x \in Word : pack_word_from_limbs(u64_to_limbs(x)) = x % P
  BY WordsAreLimbs DEF pack_word_from_limbs
<1>4. StateMatches(st, r)
  BY DEF r
<1>5. /\ values[2] = r[2] % P /\ values[3] = r[3] % P /\ values[4] = r[4] % P
      /\ values[6] = r[6] % P /\ values[7] = r[7] % P /\ values[8] = r[8] % P
  BY <1>2, <1>3, <1>4 DEF StateMatches
<1>6. NearValue(values[1], r[1]) /\ NearValue(values[5], r[5])
  BY <1>2, <1>4, LooseValue DEF StateMatches
<1>7. \A i \in 1..8 : 0 + i = i
  OBVIOUS
<1>8. ValuesFound(values, 0, s, seg)
  BY <1>5, <1>6, <1>7 DEF ValuesFound, r
<1>9. \A i \in 1..8 : limbs_to_u64(st[i]) \in Int
  <2>1. \A x \in Word : limbs_to_u64(u64_to_limbs(x)) \in Int
    BY WordsAreLimbs, WordIsNat
  <2>2. /\ limbs_to_u64(st[2]) \in Int /\ limbs_to_u64(st[3]) \in Int /\ limbs_to_u64(st[4]) \in Int
        /\ limbs_to_u64(st[6]) \in Int /\ limbs_to_u64(st[7]) \in Int /\ limbs_to_u64(st[8]) \in Int
    BY <1>2, <1>4, <2>1 DEF StateMatches
  <2>3. Loose(st[1], r[1]) /\ Loose(st[5], r[5])
    BY <1>4 DEF StateMatches
  <2>4. limbs_to_u64(st[1]) \in Int
    <3>1. PICK u, c, k : Bound(st[1], u, c, k)
      BY <2>3, LooseIsBound
    <3>2. QED BY <3>1, BoundValue
  <2>5. limbs_to_u64(st[5]) \in Int
    <3>1. PICK u, c, k : Bound(st[5], u, c, k)
      BY <2>3, LooseIsBound
    <3>2. QED BY <3>1, BoundValue
  <2> QED BY <2>2, <2>4, <2>5
<1>10. values \in [1..8 -> Int]
  BY <1>9, Sizes DEF pack_word_from_limbs
<1>11. ASSUME NEW v \in [1..8 -> Int]
      PROVE  Len(v) = 8 /\ v \in Seq(Int)
  <2>1. v = <<v[1], v[2], v[3], v[4], v[5], v[6], v[7], v[8]>>
    OBVIOUS
  <2>2. /\ v[1] \in Int /\ v[2] \in Int /\ v[3] \in Int /\ v[4] \in Int
        /\ v[5] \in Int /\ v[6] \in Int /\ v[7] \in Int /\ v[8] \in Int
    OBVIOUS
  <2>3. ASSUME NEW a \in Int, NEW b \in Int, NEW c \in Int, NEW d \in Int,
               NEW e \in Int, NEW f \in Int, NEW g \in Int, NEW h \in Int
        PROVE  Len(<<a, b, c, d, e, f, g, h>>) = 8 /\ <<a, b, c, d, e, f, g, h>> \in Seq(Int)
    OBVIOUS
  <2>4. Len(<<v[1], v[2], v[3], v[4], v[5], v[6], v[7], v[8]>>) = 8
        /\ <<v[1], v[2], v[3], v[4], v[5], v[6], v[7], v[8]>> \in Seq(Int)
    BY <2>2, <2>3
  <2> QED BY <2>1, <2>4, Zenon
<1> QED BY <1>8, <1>10, <1>11

(* The elements of a concatenation.                                        *)
LEMMA Concatenation ==
  ASSUME NEW S, NEW x \in Seq(S), NEW y \in Seq(S)
  PROVE  \A j \in 1..Len(x) + Len(y) : (x \o y)[j] = IF j <= Len(x) THEN x[j] ELSE y[j - Len(x)]
OBVIOUS

(* The elements of the concatenation of two sequences as long as each      *)
(* other.                                                                  *)
LEMMA BothParts ==
  ASSUME NEW x \in Seq(Int), NEW y \in Seq(Int), NEW m \in Nat, Len(x) = m, Len(y) = m
  PROVE  \A i \in 1..m : (x \o y)[i] = x[i] /\ (x \o y)[m + i] = y[i]
<1> TAKE i \in 1..m
<1>1. \A j \in 1..Len(x) + Len(y) : (x \o y)[j] = IF j <= Len(x) THEN x[j] ELSE y[j - Len(x)]
  BY Concatenation
<1>2. i \in 1..Len(x) + Len(y) /\ m + i \in 1..Len(x) + Len(y) /\ m + i - Len(x) = i
  OBVIOUS
<1>3. i <= Len(x) /\ ~(m + i <= Len(x))
  OBVIOUS
<1> QED BY <1>1, <1>2, <1>3

(* Public values of the third segment appended to those of the first.      *)
LEMMA ValuesAppended ==
  ASSUME NEW found \in Seq(Int), NEW values \in Seq(Int), NEW s, NEW m \in Nat, m = 8,
         Len(found) = m, Len(values) = m,
         ValuesFound(found, 0, s, 1), ValuesFound(values, 0, s, 3)
  PROVE  ValuesFound(found \o values, 0, s, 1) /\ ValuesFound(found \o values, 8, s, 3)
<1> DEFINE both == found \o values
<1>1. \A i \in 1..m : both[i] = found[i] /\ both[m + i] = values[i]
  BY BothParts, Zenon
<1> HIDE DEF both
<1>2. \A i \in 1..8 : 0 + i = i /\ both[i] = found[i] /\ both[8 + i] = values[i]
  BY <1>1
<1>3. ValuesFound(both, 0, s, 1)
  BY <1>2 DEF ValuesFound
<1>4. ValuesFound(both, 8, s, 3)
  BY <1>2 DEF ValuesFound
<1> QED BY <1>3, <1>4 DEF both

(***************************************************************************)
(* A row of the rounds.                                                    *)
(***************************************************************************)
LEMMA LayRowIsBound ==
  ASSUME TracesAreBound, LayRow
  PROVE  TracesAreBound'
<1>1. /\ stage = "lay" /\ row.n < ROUNDS
      /\ provers' = provers /\ stage' = stage /\ seed' = seed /\ sk' = sk /\ public' = public
  BY DEF LayRow
<1>2. /\ provers = [s \in Seeds |-> Prover(s)] /\ seed \in Seeds
      /\ Laying(seed, row, sk, public)
  BY <1>1 DEF TracesAreBound
<1>3. seed \in Nat
  BY <1>2, ConstantsAssumption
<1>4. /\ row.seg \in 1..3 /\ row.n \in 0..ROUNDS - 1
      /\ StateMatches(row.state, RoundsOf(seed, row.seg)[row.n])
      /\ LagsMatch(row.lags, WordsOf(seed, row.seg), row.n)
      /\ row.seg = 3 => sk = EachInLimbs(DerivedKey(seed))
  <2>1. row.n \in 0..ROUNDS /\ ROUNDS \in Nat
    BY <1>2, BlockSizes DEF Laying
  <2> QED BY <1>1, <1>2, <2>1 DEF Laying
<1>5. SUFFICES ASSUME
          NEW prep \in {PrepRow(verifier_template_blocks, row.seg, row.n)},
          NEW outs \in {IF row.n + 1 < ROUNDS THEN Limbs ELSE Field},
          NEW base \in {BitHelpers(row.state, prep)},
          NEW w \in WordChoices(row, prep),
          NEW t2 \in SumSolutions(<<base.SIGMA0, base.MAJ>>, 1, Limbs),
          NEW t1 \in SumSolutions(<<row.state[8], base.SIGMA1, base.CH, prep.K, w.out>>, 4, Limbs),
          NEW a \in SumSolutions(<<t1.out, t2.out>>, 1, outs),
          NEW e \in SumSolutions(<<row.state[4], t1.out>>, 1, outs),
          Lay(prep, base, w, t2, t1, a, e)
        PROVE  TracesAreBound'
  BY SMTT(60) DEF LayRow
<1> DEFINE full == [base EXCEPT !.W = w.out, !.T1 = t1.out, !.T2 = t2.out]
           carries == [T1 |-> t1.carries, T2 |-> t2.carries, A |-> a.carries,
                       E |-> e.carries, SCHED |-> w.carries]
           laid == [seg |-> row.seg, n |-> row.n + 1, lags |-> advance_lags(row.lags, w.out),
                    state |-> <<a.out, row.state[1], row.state[2], row.state[3],
                                e.out, row.state[5], row.state[6], row.state[7]>>]
           st2 == laid.state
           ra == RowOf(row, full, carries, sk)
           rb == RowOf(laid, ZeroHelpers, None, sk)
<1>8. eval(<<ra, rb>>, prep, public, 1) /\ row' = laid
  BY <1>5, Zenon DEF Lay
<1>9. RowHolds(ra, rb, prep, public)
  <2> HIDE DEF ra, rb
  <2> QED BY <1>8, EvalOfTwo
<1>10. /\ ra.words = RowWords(row.state, full) /\ ra.lags = row.lags
       /\ ra.seed = EachInLimbs(payload_words(seed)) /\ ra.sk = sk
       /\ rb.words = RowWords(st2, ZeroHelpers) /\ rb.lags = laid.lags
  <2> HIDE DEF full, carries, laid
  <2> QED BY DEF RowOf
<1>11. /\ a.out \in [1..4 -> Int] /\ e.out \in [1..4 -> Int]
       /\ t1.out \in [1..4 -> Limbs] /\ t2.out \in [1..4 -> Limbs]
  <2>1. a.out \in [1..4 -> outs] /\ e.out \in [1..4 -> outs]
        /\ t1.out \in [1..4 -> Limbs] /\ t2.out \in [1..4 -> Limbs]
    BY SolutionOut, Zenon
  <2>2. outs \subseteq Int
    BY DEF Limbs, Field
  <2> QED BY <2>1, <2>2
<1>12. full.W = w.out /\ full.T1 = t1.out /\ full.T2 = t2.out
  BY <1>5 DEF BitHelpers
<1>13. ~prep.fixedInitW /\ prep.payload = 0 => Tuple(w.out)
  <2>0. SUFFICES ASSUME ~prep.fixedInitW, prep.payload = 0
               PROVE  Tuple(w.out)
    OBVIOUS
  <2>1. w \in SumSolutions(ScheduleOperands(row.lags), 3, Limbs)
    BY <2>0, Zenon DEF WordChoices
  <2>2. w.out \in [1..4 -> Limbs]
    BY <2>1, SolutionOut
  <2> QED BY <2>2 DEF Tuple
<1>14. st2[1] \in [1..4 -> Int] /\ st2[5] \in [1..4 -> Int] /\ st2 = [i \in 1..8 |-> st2[i]]
  <2>1. st2 = <<a.out, row.state[1], row.state[2], row.state[3],
                e.out, row.state[5], row.state[6], row.state[7]>>
    OBVIOUS
  <2> HIDE DEF st2
  <2> QED BY <1>11, <2>1
<1>15. laid.seg = row.seg /\ laid.n = row.n + 1 /\ laid.state = st2
  OBVIOUS
<1> HIDE DEF full, carries, laid, st2, ra, rb
<1>16. LaidRow(seed, row.seg, row.n, row.state, full, ra, rb, prep, public)
  <2>1. Tuple(full.T1) /\ Tuple(full.T2)
    BY <1>11, <1>12 DEF Tuple
  <2> QED BY <1>4, <1>5, <1>9, <1>10, <1>12, <1>13, <2>1 DEF LaidRow
<1>17. /\ StateMatches(st2, RoundsOf(seed, row.seg)[row.n + 1])
       /\ LagsMatch(rb.lags, WordsOf(seed, row.seg), row.n + 1)
  BY <1>3, <1>4, <1>10, <1>14, <1>16, NextRowMatches
<1>18. Laying(seed, laid, sk, public)
  <2>1. row.n + 1 \in 0..ROUNDS
    BY <1>4, BlockSizes
  <2> QED BY <1>2, <1>4, <1>10, <1>15, <1>17, <2>1 DEF Laying
<1> QED BY <1>1, <1>2, <1>8, <1>18 DEF TracesAreBound

(***************************************************************************)
(* The private key, from the state after the rounds of the second segment. *)
(***************************************************************************)
LEMMA KeyCarryRange ==
  ASSUME NEW i \in 1..4, NEW c, CarriesWithin(c, SkCarryColumns[i], 1)
  PROVE  \A l \in 1..4 : c[l] \in 0..7
<1>1. /\ Pow2[carry_bit_width("T1")] - 1 = 7 /\ Pow2[carry_bit_width("T2")] - 1 = 1
      /\ Pow2[carry_bit_width("A")] - 1 = 1 /\ Pow2[carry_bit_width("E")] - 1 = 1
  BY SmallPowers DEF carry_bit_width
<1>2. SkCarryColumns[i] \in {"T1", "T2", "A", "E"}
  BY DEF SkCarryColumns
<1> DEFINE col == SkCarryColumns[i]
<1>3. Pow2[carry_bit_width(col)] - 1 \in {1, 7}
  <2> HIDE DEF col
  <2>1. col \in {"T1", "T2", "A", "E"}
    BY <1>2 DEF col
  <2> QED BY <1>1, <2>1
<1>4. \A l \in 1..4 : c[l] \in 0..Pow2[carry_bit_width(col)] - 1
  <2> HIDE DEF col
  <2>1. CarriesWithin(c, col, 1)
    BY DEF col
  <2> QED BY <2>1 DEF CarriesWithin, constrain_carry_max, LIMBS_PER_WORD
<1> HIDE DEF col
<1> QED BY <1>3, <1>4

(* The constraint on the private key after the second segment determines   *)
(* it: it is the one the seed derives.                                     *)
LEMMA KeyIsDerived ==
  ASSUME NEW s \in Nat, NEW st, StateMatches(st, RoundsOf(s, 2)[ROUNDS]),
         NEW prep, prep.deriveFinal, prep.state = EachInLimbs(INITIAL_STATE),
         NEW h, NEW a, a.words = RowWords(st, h),
         constrain_private_sk_from_derive_final(a, prep),
         a.sk \in [1..PAYLOAD_WORD_COUNT -> [1..4 -> Limbs]]
  PROVE  a.sk = EachInLimbs(DerivedKey(s))
<1> DEFINE r == RoundsOf(s, 2)[ROUNDS]
<1>1. r \in States
  <2>1. RoundsFrom(RoundsOf(s, 2), INITIAL_STATE, WordsOf(s, 2))
    BY TraceFacts
  <2> QED BY <2>1, BlockSizes DEF RoundsFrom
<1>2. prep.state = [i \in 1..8 |-> u64_to_limbs(INITIAL_STATE[i])]
  BY InitialState DEF EachInLimbs, States
<1>3. StateOf(a.words) = st
  <2>1. StateOf(a.words) = <<st[1], st[2], st[3], st[4], st[5], st[6], st[7], st[8]>>
    BY DEF StateOf, RowWords
  <2>2. st = [i \in 1..8 |-> st[i]]
    BY DEF StateMatches
  <2> QED BY <2>1, <2>2
<1>4. ASSUME NEW i \in 1..PAYLOAD_WORD_COUNT
      PROVE  a.sk[i] = u64_to_limbs(DerivedKey(s)[i])
  <2>1. i \in 1..4 /\ i \in 1..8
    BY BlockSizes
  <2> DEFINE carries == a.carries[SkCarryColumns[i]]
  <2>2. /\ CarriesWithin(carries, SkCarryColumns[i], 1)
        /\ constrain_add(<<st[i], u64_to_limbs(INITIAL_STATE[i])>>, a.sk[i], carries)
    BY <1>2, <1>3, <2>1 DEF constrain_private_sk_from_derive_final
  <2> HIDE DEF carries
  <2>3. \A l \in 1..4 : carries[l] \in 0..7
    BY <2>1, <2>2, KeyCarryRange
  <2>4. r[i] \in Word /\ INITIAL_STATE[i] \in Word
    <3> HIDE DEF r
    <3> QED BY <1>1, <2>1, InitialState DEF States
  <2>5. Loose(st[i], r[i])
    <3>1. StateMatches(st, r)
      OBVIOUS
    <3> HIDE DEF r
    <3>2. i = 1 \/ i = 2 \/ i = 3 \/ i = 4
      BY <2>1
    <3> QED BY <2>4, <3>1, <3>2, ExactIsLoose DEF StateMatches
  <2>6. a.sk[i] \in [1..4 -> Limbs]
    OBVIOUS
  <2>7. a.sk[i] = u64_to_limbs(WrappingAdd(INITIAL_STATE[i], r[i]))
    <3> HIDE DEF r
    <3> QED BY <2>2, <2>3, <2>4, <2>5, <2>6, LooseSum
  <2> QED BY <2>7, DerivedKeyFacts
<1>5. DerivedKey(s) \in Payloads
  BY DerivedKeyFacts
<1>6. EachInLimbs(DerivedKey(s)) = [i \in 1..PAYLOAD_WORD_COUNT |-> u64_to_limbs(DerivedKey(s)[i])]
  BY <1>5 DEF EachInLimbs, Payloads
<1> QED BY <1>4, <1>6

(* The row after the rounds of the second segment binds the private key to *)
(* the initial state.                                                      *)
LEMMA PrepOfFinal ==
  ASSUME NEW prep, prep = PrepRow(verifier_template_blocks, 2, ROUNDS)
  PROVE  prep.deriveFinal /\ prep.state = EachInLimbs(INITIAL_STATE)
<1>1. prep.deriveFinal
  BY DEF PrepRow
<1>2. prep.state = InstanceRow(verifier_template_blocks[2], ROUNDS).state
  BY DEF PrepRow
<1> QED BY <1>1, <1>2 DEF InstanceRow

(* The limbs of a private key word a prover may choose are in range.       *)
LEMMA KeySumsOut ==
  ASSUME NEW st, NEW prep, NEW sums \in KeySums(st, prep), NEW i \in 1..PAYLOAD_WORD_COUNT
  PROVE  sums[i].out \in [1..4 -> Limbs]
<1> DEFINE choices == [j \in 1..PAYLOAD_WORD_COUNT |->
                         SumSolutions(<<st[j], prep.state[j]>>,
                                      Pow2[carry_bit_width(SkCarryColumns[j])] - 1, Limbs)]
<1>1. sums[i] \in choices[i]
  BY DEF KeySums
<1>2. sums[i] \in SumSolutions(<<st[i], prep.state[i]>>,
                               Pow2[carry_bit_width(SkCarryColumns[i])] - 1, Limbs)
  BY <1>1
<1> QED BY <1>2, SolutionOut

(***************************************************************************)
(* The row after the rounds, and the first one of the next segment.        *)
(***************************************************************************)
LEMMA FinishIsBound ==
  ASSUME TracesAreBound, FinishSegment
  PROVE  TracesAreBound'
<1>1. /\ stage = "lay" /\ row.n = ROUNDS
      /\ provers' = provers /\ seed' = seed
      /\ IF row.seg < 3 THEN row' \in FirstRows(row.seg + 1) /\ stage' = stage
         ELSE row' = None /\ stage' = "accepted"
  BY DEF FinishSegment
<1>2. /\ provers = [s \in Seeds |-> Prover(s)] /\ seed \in Seeds
      /\ Laying(seed, row, sk, public)
  BY <1>1 DEF TracesAreBound
<1>3. seed \in Nat
  BY <1>2, ConstantsAssumption
<1>4. /\ row.seg \in 1..3 /\ StateMatches(row.state, RoundsOf(seed, row.seg)[ROUNDS])
      /\ row.seg = 3 => sk = EachInLimbs(DerivedKey(seed))
      /\ row.seg = 1 => public = <<>>
      /\ row.seg # 1 => public \in Seq(Int) /\ Len(public) = 8 /\ ValuesFound(public, 0, seed, 1)
  BY <1>1, <1>2 DEF Laying
<1> DEFINE values == [i \in 1..8 |-> pack_word_from_limbs(row.state[i])]
           found == IF row.seg = 2 THEN public ELSE public \o values
           keyOf(sums) ==
             IF row.seg = 2 THEN [i \in 1..PAYLOAD_WORD_COUNT |-> sums[i].out] ELSE sk
<1>5. PICK prep \in {PrepRow(verifier_template_blocks, row.seg, ROUNDS)} :
      \E sums \in (IF row.seg = 2 THEN KeySums(row.state, prep) ELSE {None}) :
        LET full == FinalRow(sums, keyOf(sums))
        IN  /\ eval(<<full, full>>, prep, found, 1)
            /\ sk' = keyOf(sums) /\ public' = found
  BY DEF FinishSegment
<1>6. PICK sums \in (IF row.seg = 2 THEN KeySums(row.state, prep) ELSE {None}) :
        LET full == FinalRow(sums, keyOf(sums))
        IN  /\ eval(<<full, full>>, prep, found, 1)
            /\ sk' = keyOf(sums) /\ public' = found
  BY <1>5, Zenon
<1> DEFINE key == keyOf(sums)
           full == FinalRow(sums, key)
<1>7. eval(<<full, full>>, prep, found, 1) /\ sk' = key /\ public' = found
  BY <1>6, Zenon
<1>8. row.seg = 2 => key = EachInLimbs(DerivedKey(seed))
  <2>0. SUFFICES ASSUME row.seg = 2 PROVE key = EachInLimbs(DerivedKey(seed))
    OBVIOUS
  <2>1. key = [i \in 1..PAYLOAD_WORD_COUNT |-> sums[i].out] /\ sums \in KeySums(row.state, prep)
    BY <2>0
  <2>2. key \in [1..PAYLOAD_WORD_COUNT -> [1..4 -> Limbs]]
    <3> HIDE DEF key
    <3> QED BY <2>1, KeySumsOut
  <2>3. full.words = RowWords(row.state, ZeroHelpers) /\ full.sk = key
    <3> HIDE DEF key
    <3> QED BY DEF FinalRow, RowOf
  <2> HIDE DEF key, full, found
  <2>4. constrain_private_sk_from_derive_final(full, prep)
    BY <1>7, EvalOfTwo DEF RowHolds
  <2>5. prep.deriveFinal /\ prep.state = EachInLimbs(INITIAL_STATE)
    <3>1. prep = PrepRow(verifier_template_blocks, 2, ROUNDS)
      BY <2>0
    <3> QED BY <3>1, PrepOfFinal
  <2>6. StateMatches(row.state, RoundsOf(seed, 2)[ROUNDS])
    BY <1>4, <2>0
  <2>7. full.sk = EachInLimbs(DerivedKey(seed))
    BY <1>3, <2>2, <2>3, <2>4, <2>5, <2>6, KeyIsDerived
  <2> QED BY <2>3, <2>7
<1>9. row.seg = 3 => key = sk
  OBVIOUS
<1> HIDE DEF key, full
<1>10. values \in Seq(Int) /\ Len(values) = 8 /\ ValuesFound(values, 0, seed, row.seg)
  <2> HIDE DEF values
  <2> QED BY <1>3, <1>4, FinalValues DEF values
<1> HIDE DEF values
<1>11. CASE row.seg = 1
  <2>1. found = values
    <3>1. ASSUME NEW v \in Seq(Int)
          PROVE  <<>> \o v = v
      OBVIOUS
    <3>2. public = <<>> /\ row.seg # 2
      BY <1>4, <1>11
    <3>4. found = public \o values
      BY <3>2, Zenon
    <3> HIDE DEF found
    <3> QED BY <1>10, <3>1, <3>2, <3>4, Zenon
  <2>2. row' \in FirstRows(2) /\ stage' = "lay"
    BY <1>1, <1>11
  <2>3. Laying(seed, row', key, found)
    <3>1. /\ row'.seg = 2 /\ row'.n = 0 /\ StateMatches(row'.state, RoundsOf(seed, 2)[0])
          /\ LagsMatch(row'.lags, WordsOf(seed, 2), 0)
      BY <1>3, <2>2, FirstRowMatches
    <3>2. found \in Seq(Int) /\ Len(found) = 8 /\ ValuesFound(found, 0, seed, 1)
      BY <1>10, <1>11, <2>1
    <3> HIDE DEF found
    <3> QED BY <3>1, <3>2, BlockSizes DEF Laying
  <2> QED BY <1>1, <1>2, <1>7, <2>2, <2>3 DEF TracesAreBound
<1>12. CASE row.seg = 2
  <2>1. found = public
    BY <1>12
  <2>2. row' \in FirstRows(3) /\ stage' = "lay"
    BY <1>1, <1>12
  <2>3. Laying(seed, row', key, found)
    <3>1. /\ row'.seg = 3 /\ row'.n = 0 /\ StateMatches(row'.state, RoundsOf(seed, 3)[0])
          /\ LagsMatch(row'.lags, WordsOf(seed, 3), 0)
      BY <1>3, <2>2, FirstRowMatches
    <3>2. found \in Seq(Int) /\ Len(found) = 8 /\ ValuesFound(found, 0, seed, 1)
      BY <1>4, <1>12, <2>1
    <3> HIDE DEF found
    <3> QED BY <1>8, <1>12, <3>1, <3>2, BlockSizes DEF Laying
  <2> QED BY <1>1, <1>2, <1>7, <2>2, <2>3 DEF TracesAreBound
<1>13. CASE row.seg = 3
  <2>1. found = public \o values
    BY <1>13
  <2>2. stage' = "accepted"
    BY <1>1, <1>13
  <2>3. Laid(seed, key, found)
    <3>1. public \in Seq(Int) /\ Len(public) = 8 /\ ValuesFound(public, 0, seed, 1)
      BY <1>4, <1>13
    <3>2. ValuesFound(values, 0, seed, 3)
      BY <1>10, <1>13
    <3> DEFINE m == 8
    <3>3. m \in Nat /\ m = 8 /\ Len(public) = m /\ Len(values) = m
      BY <1>10, <3>1
    <3> HIDE DEF m, found
    <3>4. ValuesFound(found, 0, seed, 1) /\ ValuesFound(found, 8, seed, 3)
      BY <1>10, <2>1, <3>1, <3>2, <3>3, ValuesAppended
    <3>5. key = EachInLimbs(DerivedKey(seed))
      BY <1>4, <1>9, <1>13
    <3> QED BY <3>4, <3>5 DEF Laid
  <2> QED BY <1>1, <1>2, <1>7, <2>2, <2>3 DEF TracesAreBound
<1> QED BY <1>4, <1>11, <1>12, <1>13

(***************************************************************************)
(* What is laid is bound to the seed, in every state.                      *)
(***************************************************************************)
LEMMA InitIsBound ==
  ASSUME Init
  PROVE  TracesAreBound
<1>1. /\ provers = [s \in Seeds |-> Prover(s)] /\ seed \in Seeds
      /\ stage = "lay" => row \in FirstRows(1)
      /\ stage \in {"lay", "build"} /\ sk = None /\ public = None
  BY DEF Init
<1>2. ASSUME stage = "lay"
      PROVE  Laying(seed, row, sk, public)
  <2>1. seed \in Nat /\ row \in FirstRows(1)
    BY <1>1, <1>2, ConstantsAssumption
  <2>2. /\ row.seg = 1 /\ row.n = 0 /\ StateMatches(row.state, RoundsOf(seed, 1)[0])
        /\ LagsMatch(row.lags, WordsOf(seed, 1), 0)
    BY <2>1, FirstRowMatches
  <2> QED BY <1>1, <2>2, BlockSizes DEF Laying, None
<1> QED BY <1>1, <1>2 DEF TracesAreBound

(* Every trace laid is bound to the seed's compression, row by row.        *)
LEMMA BoundForever == Spec => []TracesAreBound
<1>1. Init => TracesAreBound
  BY InitIsBound
<1>2. TracesAreBound /\ [Next]_vars => TracesAreBound'
  <2> SUFFICES ASSUME TracesAreBound, [Next]_vars
               PROVE  TracesAreBound'
    OBVIOUS
  <2>1. CASE LayRow
    BY <2>1, LayRowIsBound
  <2>2. CASE FinishSegment
    BY <2>2, FinishIsBound
  <2>3. CASE BuildBundle
    BY <2>3 DEF BuildBundle, TracesAreBound
  <2>4. CASE Send
    BY <2>4 DEF Send, TracesAreBound
  <2>5. CASE Fault
    BY <2>5 DEF Fault, TracesAreBound
  <2>6. CASE Receive
    BY <2>6 DEF Receive, TracesAreBound
  <2>7. CASE Finished
    BY <2>7 DEF Finished, vars, TracesAreBound
  <2>8. CASE UNCHANGED vars
    BY <2>8 DEF vars, TracesAreBound
  <2> QED BY <2>1, <2>2, <2>3, <2>4, <2>5, <2>6, <2>7, <2>8 DEF Next
<1> QED BY <1>1, <1>2, PTL DEF Spec

(* The values of a statement are the residues of the last states' words.   *)
LEMMA FeedForward ==
  ASSUME NEW x \in Word, NEW y \in Word
  PROVE  (WrappingAdd(y, x) - y) % WORDS = x
<1>1. PICK e \in 0..1 : y + x = WrappingAdd(y, x) + WORDS * e
  BY WrapOnce
<1>2. WORDS \in Nat /\ WORDS >= 2 /\ x \in 0..WORDS - 1 /\ y \in 0..WORDS - 1
  BY Sizes DEF Word
<1>3. WrappingAdd(y, x) \in Int
  BY <1>2 DEF WrappingAdd
<1> DEFINE z == WrappingAdd(y, x) - y
<1>4. z \in Int /\ -e \in Int /\ WORDS * (-e) = -(WORDS * e) /\ WORDS * e \in Int
  BY <1>2, <1>3
<1>5. z = WORDS * (-e) + x
  BY <1>1, <1>2, <1>3, <1>4
<1> HIDE DEF z
<1>6. z % WORDS = x
  <2> DEFINE f == -e
  <2>1. f \in Int /\ z = WORDS * f + x
    BY <1>4, <1>5
  <2> HIDE DEF f
  <2> QED BY <1>2, <1>4, <2>1, DivUnique
<1> QED BY <1>6 DEF z

(* The public values of a statement are those of the states after the      *)
(* rounds of the first and the third segment.                              *)
LEMMA StatementValues ==
  ASSUME NEW s \in Nat
  PROVE  LET honest == public_values_from_statement(Prover(s).statement)
         IN  \A i \in 1..8 : /\ honest[i] = RoundsOf(s, 1)[ROUNDS][i] % P
                             /\ honest[8 + i] = RoundsOf(s, 3)[ROUNDS][i] % P
<1> DEFINE honest == public_values_from_statement(Prover(s).statement)
           digest(seg) ==
             [i \in 1..8 |-> WrappingAdd(INITIAL_STATE[i], RoundsOf(s, seg)[ROUNDS][i])]
<1>1. /\ BlockOf(s, 1) = segment_block("Commit", payload_words(s))
      /\ BlockOf(s, 3) = segment_block("HashSk", DerivedKey(s))
  <2>1. /\ DomainOf(1) = segment_domain["Commit"] /\ PayloadOf(s, 1) = payload_words(s)
        /\ DomainOf(3) = segment_domain["HashSk"] /\ PayloadOf(s, 3) = DerivedKey(s)
    BY DEF DomainOf, Kind, PayloadOf
  <2> QED BY <2>1 DEF BlockOf, segment_block
<1>2. Prover(s).statement.commit_of_seed = digest(1)
  <2>1. Prover(s).statement.commit_of_seed = sha512("Commit", payload_words(s))
    BY DEF Prover, statement_from_seed, commit_of_seed
  <2> QED BY <1>1, <2>1 DEF sha512, RoundsOf, TraceOf
<1>3. Prover(s).statement.hash_of_sk = digest(3)
  <2>1. Prover(s).statement.hash_of_sk = sha512("HashSk", DerivedKey(s))
    BY DEF Prover, statement_from_seed, derive_secret_key_material, DerivedKey
  <2> QED BY <1>1, <2>1 DEF sha512, RoundsOf, TraceOf
<1>4. ASSUME NEW seg \in {1, 3}, NEW i \in 1..8
      PROVE  (digest(seg)[i] - INITIAL_STATE[i]) % WORDS = RoundsOf(s, seg)[ROUNDS][i]
  <2>1. RoundsFrom(RoundsOf(s, seg), INITIAL_STATE, WordsOf(s, seg))
    BY TraceFacts
  <2>2. RoundsOf(s, seg)[ROUNDS] \in States
    BY <2>1, BlockSizes DEF RoundsFrom
  <2>3. RoundsOf(s, seg)[ROUNDS][i] \in Word /\ INITIAL_STATE[i] \in Word
    BY <2>2, InitialState DEF States
  <2>4. digest(seg)[i] = WrappingAdd(INITIAL_STATE[i], RoundsOf(s, seg)[ROUNDS][i])
    OBVIOUS
  <2> QED BY <2>3, <2>4, FeedForward
<1> HIDE DEF digest
<1>5. ASSUME NEW i \in 1..8
      PROVE  /\ honest[i] = RoundsOf(s, 1)[ROUNDS][i] % P
             /\ honest[8 + i] = RoundsOf(s, 3)[ROUNDS][i] % P
  <2>1. /\ i \in 1..16 /\ 8 + i \in 1..16 /\ i <= 8 /\ ~(8 + i <= 8) /\ (8 + i) - 8 = i
    OBVIOUS
  <2>2. /\ honest[i] = bb((digest(1)[i] - INITIAL_STATE[i]) % WORDS)
        /\ honest[8 + i] = bb((digest(3)[i] - INITIAL_STATE[i]) % WORDS)
    BY <1>2, <1>3, <2>1 DEF public_values_from_statement
  <2>3. /\ (digest(1)[i] - INITIAL_STATE[i]) % WORDS = RoundsOf(s, 1)[ROUNDS][i]
        /\ (digest(3)[i] - INITIAL_STATE[i]) % WORDS = RoundsOf(s, 3)[ROUNDS][i]
    BY <1>4
  <2> QED BY <2>2, <2>3 DEF bb
<1> QED BY <1>5

(***************************************************************************)
(* Whatever rows are laid under the constraints of the AIR for a seed, the *)
(* private key they hold is the one derived from it, and the public values *)
(* are those of its statement, the two without bits up to one wrap.        *)
(***************************************************************************)
THEOREM TracesAreHonest == Spec => []AcceptedTracesAreHonest
<1>1. TracesAreBound => AcceptedTracesAreHonest
  <2> SUFFICES ASSUME TracesAreBound, stage = "accepted"
               PROVE  LET honest == public_values_from_statement(provers[seed].statement)
                          derived == provers[seed].derived.sk_seed
                      IN  /\ sk = EachInLimbs(derived)
                          /\ \A i \in 1..16 :
                               \/ public[i] = honest[i]
                               \/ /\ i % 8 \in {1, 5}
                                  /\ (public[i] - honest[i]) % P \in {WORDS % P, (-WORDS) % P}
    BY DEF AcceptedTracesAreHonest
  <2> DEFINE honest == public_values_from_statement(provers[seed].statement)
  <2>1. seed \in Seeds /\ provers[seed] = Prover(seed) /\ Laid(seed, sk, public)
    BY DEF TracesAreBound
  <2>2. seed \in Nat
    BY <2>1, ConstantsAssumption
  <2>3. provers[seed].derived.sk_seed = DerivedKey(seed)
    BY <2>1 DEF Prover, DerivedKey
  <2>4. \A i \in 1..8 : /\ honest[i] = RoundsOf(seed, 1)[ROUNDS][i] % P
                        /\ honest[8 + i] = RoundsOf(seed, 3)[ROUNDS][i] % P
    BY <2>1, <2>2, StatementValues
  <2> HIDE DEF honest
  <2>5. ASSUME NEW i \in 1..8
        PROVE  /\ \/ public[i] = honest[i]
                  \/ /\ i \in {1, 5}
                     /\ (public[i] - honest[i]) % P \in {WORDS % P, (-WORDS) % P}
               /\ \/ public[8 + i] = honest[8 + i]
                  \/ /\ i \in {1, 5}
                     /\ (public[8 + i] - honest[8 + i]) % P \in {WORDS % P, (-WORDS) % P}
    <3>1. 0 + i = i
      OBVIOUS
    <3> QED BY <2>1, <2>4, <3>1 DEF Laid, ValuesFound, NearValue
  <2>6. ASSUME NEW i \in 1..16
        PROVE  \/ public[i] = honest[i]
               \/ /\ i % 8 \in {1, 5}
                  /\ (public[i] - honest[i]) % P \in {WORDS % P, (-WORDS) % P}
    <3>1. CASE i <= 8
      <4>1. i \in 1..8 /\ (i \in {1, 5} => i % 8 \in {1, 5})
        BY <3>1
      <4> QED BY <2>5, <4>1
    <3>2. CASE i > 8
      <4> DEFINE j == i - 8
      <4>1. j \in 1..8 /\ 8 + j = i /\ (j \in {1, 5} => i % 8 \in {1, 5})
        BY <3>2
      <4> HIDE DEF j
      <4> QED BY <2>5, <4>1
    <3> QED BY <3>1, <3>2
  <2> QED BY <2>1, <2>3, <2>6 DEF Laid, honest
<1> QED BY <1>1, BoundForever, PTL

(***************************************************************************)
(* Cells put one after another.                                            *)
(***************************************************************************)
Joins(S, x, y, a, b) ==
  /\ x \o y \in Seq(S) /\ Len(x \o y) = a + b
  /\ \A i \in 1..a : (x \o y)[i] = x[i]
  /\ \A i \in 1..b : (x \o y)[a + i] = y[i]

(* A concatenation: its length and its elements.                           *)
LEMMA Joined ==
  ASSUME NEW S, NEW x \in Seq(S), NEW y \in Seq(S), NEW a \in Nat, NEW b \in Nat,
         Len(x) = a, Len(y) = b
  PROVE  Joins(S, x, y, a, b)
<1>1. \A i \in 1..a + b : (x \o y)[i] = IF i <= a THEN x[i] ELSE y[i - a]
  BY ConcatProperties
<1>2. \A i \in 1..a : (x \o y)[i] = x[i]
  BY <1>1
<1>3. ASSUME NEW i \in 1..b PROVE (x \o y)[a + i] = y[i]
  <2>1. a + i \in 1..a+b /\ ~(a + i <= a) /\ (a + i) - a = i
    OBVIOUS
  <2> QED BY <1>1, <2>1
<1> QED BY <1>2, <1>3, ConcatProperties DEF Joins

(* Four cells and two make six.                                            *)
LEMMA SixCells ==
  ASSUME NEW S, NEW m \in S, NEW c \in S, NEW h \in S, NEW l \in S, NEW p \in S, NEW t \in S
  PROVE  <<m, c, h, l>> \o <<p, t>> = <<m, c, h, l, p, t>>
<1> DEFINE x == <<m, c, h, l>>
           y == <<p, t>>
           a == 4
           b == 2
           u == x \o y
<1>1. x \in Seq(S) /\ y \in Seq(S)
  OBVIOUS
<1>2. Len(x) = a /\ Len(y) = b /\ a \in Nat /\ b \in Nat
  OBVIOUS
<1>3. /\ x[1] = m /\ x[2] = c /\ x[3] = h /\ x[4] = l /\ y[1] = p /\ y[2] = t
  OBVIOUS
<1> HIDE DEF x, y, a, b
<1>4. /\ u \in Seq(S) /\ Len(u) = a + b
      /\ \A i \in 1..a : u[i] = x[i]
      /\ \A i \in 1..b : u[a + i] = y[i]
  <2> HIDE DEF u
  <2>1. Joins(S, x, y, a, b)
    BY <1>1, <1>2, Joined
  <2> QED BY <2>1 DEF Joins, u
<1> HIDE DEF u
<1>5. u = <<m, c, h, l, p, t>>
  <2>1. Len(u) = 6
    BY <1>4 DEF a, b
  <2>2. u[1] = m /\ u[2] = c /\ u[3] = h /\ u[4] = l /\ u[5] = p /\ u[6] = t
    BY <1>3, <1>4 DEF a, b
  <2>3. u \in Seq(S)
    BY <1>4, Zenon
  <2> QED BY <2>1, <2>2, <2>3
<1> QED BY <1>5 DEF u, x, y

AllIn(S, m, c, h, l, p, t, k, g) ==
  m \in S /\ c \in S /\ h \in S /\ l \in S /\ p \in S /\ t \in S /\ k \in S /\ g \in S

(* Six cells and two make eight.                                           *)
LEMMA EightCells ==
  ASSUME NEW S, NEW m, NEW c, NEW h, NEW l, NEW p, NEW t, NEW k, NEW g,
         AllIn(S, m, c, h, l, p, t, k, g)
  PROVE  <<m, c, h, l, p, t>> \o <<k, g>> = <<m, c, h, l, p, t, k, g>>
<1>a. /\ m \in S /\ c \in S /\ h \in S /\ l \in S
      /\ p \in S /\ t \in S /\ k \in S /\ g \in S
  BY DEF AllIn
<1> DEFINE x == <<m, c, h, l, p, t>>
           y == <<k, g>>
           a == 6
           b == 2
           u == x \o y
<1>1. x \in Seq(S) /\ y \in Seq(S)
  BY <1>a
<1>2. Len(x) = a /\ Len(y) = b /\ a \in Nat /\ b \in Nat
  OBVIOUS
<1>3. /\ x[1] = m /\ x[2] = c /\ x[3] = h /\ x[4] = l /\ x[5] = p /\ x[6] = t
      /\ y[1] = k /\ y[2] = g
  OBVIOUS
<1> HIDE DEF x, y, a, b
<1>4. /\ u \in Seq(S) /\ Len(u) = a + b
      /\ \A i \in 1..a : u[i] = x[i]
      /\ \A i \in 1..b : u[a + i] = y[i]
  <2> HIDE DEF u
  <2>1. Joins(S, x, y, a, b)
    BY <1>1, <1>2, Joined
  <2> QED BY <2>1 DEF Joins, u
<1> HIDE DEF u
<1>5. u = <<m, c, h, l, p, t, k, g>>
  <2>1. Len(u) = 8
    BY <1>4 DEF a, b
  <2>2. /\ u[1] = m /\ u[2] = c /\ u[3] = h /\ u[4] = l /\ u[5] = p /\ u[6] = t
        /\ u[7] = k /\ u[8] = g
    BY <1>3, <1>4 DEF a, b
  <2>3. u \in Seq(S)
    BY <1>4, Zenon
  <2> QED BY <2>1, <2>2, <2>3
<1> QED BY <1>5 DEF u, x, y

(* A part of a sequence.                                                   *)
Slice(S, s, a, b) ==
  /\ SubSeq(s, a, b) \in Seq(S) /\ Len(SubSeq(s, a, b)) = b - a + 1
  /\ \A i \in 1..b - a + 1 : SubSeq(s, a, b)[i] = s[a + i - 1]

(* A subsequence: its length and its elements.                             *)
LEMMA Sliced ==
  ASSUME NEW S, NEW s, NEW a \in Int, NEW b \in Int, a <= b, \A i \in a..b : s[i] \in S
  PROVE  Slice(S, s, a, b)
BY SubSeqProperties DEF Slice

(* An envelope's cells.                                                    *)
Cells(w, m, c, h, l, p, t, k, g) == w = <<m, c, h, l, p, t, k, g>>

HasCells(w, m, c, h, l, p, t, k, g) ==
  /\ Len(w) = 8 /\ w[1] = m /\ w[2] = c /\ w[3] = h /\ w[4] = l
  /\ w[5] = p /\ w[6] = t /\ w[7] = k /\ w[8] = g
  /\ SubSeq(w, 5, 6) = <<p, t>>
  /\ w \in Seq({m, c, h, l, p, t, k, g})

(* Eight cells: each of them, and the slice of the sealed proof.           *)
LEMMA CellFacts ==
  ASSUME NEW m, NEW c, NEW h, NEW l, NEW p, NEW t, NEW k, NEW g,
         NEW w, Cells(w, m, c, h, l, p, t, k, g)
  PROVE  HasCells(w, m, c, h, l, p, t, k, g)
<1>1. w = <<m, c, h, l, p, t, k, g>>
  BY DEF Cells
<1>2. w \in Seq({m, c, h, l, p, t, k, g})
  <2>1. ASSUME NEW S, m \in S, c \in S, h \in S, l \in S, p \in S, t \in S, k \in S, g \in S
        PROVE  <<m, c, h, l, p, t, k, g>> \in Seq(S)
    BY <2>1
  <2> QED BY <1>1, <2>1
<1>3. /\ Len(w) = 8 /\ w[1] = m /\ w[2] = c /\ w[3] = h /\ w[4] = l
      /\ w[5] = p /\ w[6] = t /\ w[7] = k /\ w[8] = g
  BY <1>1
<1>4. SubSeq(w, 5, 6) = <<p, t>>
  <2> DEFINE S == {p, t}
             v == SubSeq(w, 5, 6)
             a == 5
             b == 6
  <2>1. a \in Int /\ b \in Int /\ a <= b /\ \A i \in a..b : w[i] \in S
    <3>1. \A i \in 5..6 : i = 5 \/ i = 6
      OBVIOUS
    <3> QED BY <1>3, <3>1
  <2>2. v \in Seq(S) /\ Len(v) = 2 /\ v[1] = w[5] /\ v[2] = w[6]
    <3> HIDE DEF S, a, b
    <3>1. Slice(S, w, a, b)
      BY <2>1, Sliced
    <3> DEFINE z == SubSeq(w, a, b)
    <3>2. z \in Seq(S) /\ Len(z) = 2 /\ z[1] = w[5] /\ z[2] = w[6]
      <4>1. z \in Seq(S) /\ Len(z) = b - a + 1 /\ \A i \in 1..b - a + 1 : z[i] = w[a + i - 1]
        BY <3>1 DEF Slice
      <4> HIDE DEF z
      <4> QED BY <4>1 DEF a, b
    <3> QED BY <3>2 DEF a, b
  <2> HIDE DEF v, S
  <2>3. v = <<p, t>>
    BY <1>3, <2>2
  <2> QED BY <2>3 DEF v
<1> QED BY <1>2, <1>3, <1>4, Zenon DEF HasCells

(* What reading an envelope returns.                                       *)
Verdict(bytes) ==
  IF deserialize_error(bytes) # "Ok" THEN deserialize_error(bytes)
  ELSE verify_pokos(deserialize_proof(bytes))
StatementOf(c, h) == [commit_of_seed |-> c, hash_of_sk |-> h]

(* The default settings meet the verifier's minimum.                       *)
LEMMA DefaultIsStrong ==
  /\ meets_minimum_verifier_policy(default_settings)
  /\ Size(default_settings) = 28
<1>1. DOMAIN MIN_VERIFIER = {"log_blowup", "log_final_poly_len", "num_queries",
                             "commit_proof_of_work_bits", "query_proof_of_work_bits"}
  BY DEF MIN_VERIFIER
<1>2. /\ default_settings["log_blowup"] >= MIN_VERIFIER["log_blowup"]
      /\ default_settings["log_final_poly_len"] >= MIN_VERIFIER["log_final_poly_len"]
      /\ default_settings["num_queries"] >= MIN_VERIFIER["num_queries"]
      /\ default_settings["commit_proof_of_work_bits"] >= MIN_VERIFIER["commit_proof_of_work_bits"]
      /\ default_settings["query_proof_of_work_bits"] >= MIN_VERIFIER["query_proof_of_work_bits"]
  BY DEF MIN_VERIFIER, default_settings
<1>3. meets_minimum_verifier_policy(default_settings)
  BY <1>1, <1>2 DEF meets_minimum_verifier_policy
<1>4. Size(default_settings) = 28
  BY DEF Size, default_settings
<1> QED BY <1>3, <1>4

(* A sealed proof is accepted for a statement exactly when it was made     *)
(* under the default settings, for the template's rows and for the         *)
(* statement's public values.                                              *)
LEMMA SealedIsExact ==
  ASSUME NEW p, NEW t, NEW statement
  PROVE  verify_private_seed_chain_statement_with_settings(<<p, t>>, statement, default_settings)
         <=> /\ t = default_settings
             /\ p = [config |-> default_settings, vk |-> TemplateKey,
                     public |-> public_values_from_statement(statement)]
<1> DEFINE pv == public_values_from_statement(statement)
           bytes == <<p, t>>
<1>1. bytes[1] = p /\ bytes[2] = t /\ Len(bytes) = 2
  OBVIOUS
<1> HIDE DEF bytes
<1>2. verify_private_seed_chain_statement_with_settings(bytes, statement, default_settings)
      <=> /\ deserializes_segment_chain_proof(bytes) /\ t = default_settings
          /\ p = [config |-> default_settings, vk |-> TemplateKey, public |-> pv]
  BY <1>1, DefaultIsStrong
     DEF verify_private_seed_chain_statement_with_settings, verify_with_preprocessed
<1>3. ASSUME t = default_settings,
             p = [config |-> default_settings, vk |-> TemplateKey, public |-> pv]
      PROVE  deserializes_segment_chain_proof(bytes)
  <2>1. DOMAIN p = {"config", "vk", "public"}
    <3> HIDE DEF pv
    <3> QED BY <1>3
  <2> QED BY <1>1, <1>3, <2>1, DefaultIsStrong
          DEF deserializes_segment_chain_proof, MAX_SEGMENT_CHAIN_PROOF_BYTES, MAX_INNER_PROOF_BYTES
<1> QED BY <1>2, <1>3 DEF bytes

(* Eight cells are read back exactly when the magic is right and the       *)
(* sealed proof has two parts.                                             *)
LEMMA CellsRead ==
  ASSUME NEW m, NEW c, NEW h, NEW l \in Nat, NEW p, NEW t, NEW k, NEW g,
         NEW w, Cells(w, m, c, h, l, p, t, k, g)
  PROVE  /\ deserialize_error(w) = "Ok" <=> m = PROOF_FORMAT_MAGIC /\ l = 2
         /\ l = 2 => deserialize_proof(w) =
                       [statement |-> StatementOf(c, h), sha512_proof |-> <<p, t>>,
                        authentication_key |-> k, authentication_signature |-> g]
<1>1. /\ Len(w) = 8 /\ w[1] = m /\ w[2] = c /\ w[3] = h /\ w[4] = l
      /\ w[5] = p /\ w[6] = t /\ w[7] = k /\ w[8] = g
      /\ SubSeq(w, 5, 6) = <<p, t>>
  <2>1. HasCells(w, m, c, h, l, p, t, k, g)
    BY CellFacts
  <2> QED BY <2>1, Zenon DEF HasCells
<1> DEFINE end == IF l > USIZE_MAX - 4 THEN USIZE_MAX ELSE 4 + l
<1>2. end \in Nat /\ (end + 2 > 8 <=> l > 2) /\ (end + 2 < 8 <=> l < 2)
  BY DEF USIZE_MAX
<1>3. deserialize_error(w) =
        CASE 8 < 1 -> "Truncated"
          [] 8 >= 1 /\ m # PROOF_FORMAT_MAGIC -> "InvalidMagic"
          [] 8 \in 1..3 /\ m = PROOF_FORMAT_MAGIC -> "Truncated"
          [] 8 >= 4 /\ m = PROOF_FORMAT_MAGIC ->
               IF end + 2 > 8 THEN "Truncated"
               ELSE IF end + 2 < 8 THEN "TrailingBytes" ELSE "Ok"
  BY <1>1 DEF deserialize_error
<1> HIDE DEF end
<1>4. ASSUME m # PROOF_FORMAT_MAGIC
      PROVE  deserialize_error(w) = "Ok" <=> m = PROOF_FORMAT_MAGIC /\ l = 2
  <2>1. deserialize_error(w) = "InvalidMagic"
    BY <1>3, <1>4
  <2>2. "InvalidMagic" # "Ok"
    OBVIOUS
  <2> QED BY <1>4, <2>1, <2>2
<1>5. ASSUME m = PROOF_FORMAT_MAGIC
      PROVE  deserialize_error(w) = "Ok" <=> m = PROOF_FORMAT_MAGIC /\ l = 2
  <2>1. deserialize_error(w) = IF end + 2 > 8 THEN "Truncated"
                               ELSE IF end + 2 < 8 THEN "TrailingBytes" ELSE "Ok"
    BY <1>3, <1>5
  <2>2. "Truncated" # "Ok" /\ "TrailingBytes" # "Ok"
    OBVIOUS
  <2> QED BY <1>2, <1>5, <2>1, <2>2
<1>6. deserialize_error(w) = "Ok" <=> m = PROOF_FORMAT_MAGIC /\ l = 2
  BY <1>4, <1>5
<1>7. ASSUME l = 2
      PROVE  deserialize_proof(w) =
               [statement |-> StatementOf(c, h), sha512_proof |-> <<p, t>>,
                authentication_key |-> k, authentication_signature |-> g]
  <2>1. 4 + w[4] = 6 /\ 6 + 1 = 7 /\ 6 + 2 = 8
    BY <1>1, <1>7
  <2>2. deserialize_proof(w) =
          [statement |-> [commit_of_seed |-> w[2], hash_of_sk |-> w[3]],
           sha512_proof |-> SubSeq(w, 5, 6),
           authentication_key |-> w[7], authentication_signature |-> w[8]]
    BY <2>1, Zenon DEF deserialize_proof
  <2> QED BY <1>1, <2>2, Zenon DEF StatementOf
<1> QED BY <1>6, <1>7

(* The verdict on eight cells, cell by cell.                               *)
LEMMA VerdictOfCells ==
  ASSUME NEW m, NEW c, NEW h, NEW l \in Nat, NEW p, NEW t, NEW k, NEW g,
         NEW w, Cells(w, m, c, h, l, p, t, k, g)
  PROVE  Verdict(w) = "Ok" <=>
           /\ m = PROOF_FORMAT_MAGIC /\ l = 2 /\ t = default_settings
           /\ p = [config |-> default_settings, vk |-> TemplateKey,
                   public |-> public_values_from_statement(StatementOf(c, h))]
           /\ g = sign(k, StatementOf(c, h))
<1>1. /\ deserialize_error(w) = "Ok" <=> m = PROOF_FORMAT_MAGIC /\ l = 2
      /\ l = 2 => deserialize_proof(w) =
                    [statement |-> StatementOf(c, h), sha512_proof |-> <<p, t>>,
                     authentication_key |-> k, authentication_signature |-> g]
  BY CellsRead
<1>2. CASE deserialize_error(w) # "Ok"
  <2>1. Verdict(w) # "Ok"
    BY <1>2 DEF Verdict
  <2> QED BY <1>1, <1>2, <2>1
<1>3. CASE deserialize_error(w) = "Ok"
  <2> DEFINE read == deserialize_proof(w)
  <2>1. /\ read.statement = StatementOf(c, h) /\ read.sha512_proof = <<p, t>>
        /\ read.authentication_key = k /\ read.authentication_signature = g
    BY <1>1, <1>3
  <2>2. Verdict(w) = verify_pokos(read)
    BY <1>3 DEF Verdict
  <2> HIDE DEF read
  <2>3. verify_pokos(read) =
          IF ~verify_private_seed_chain_statement_with_settings(
                <<p, t>>, StatementOf(c, h), default_settings)
          THEN "InvalidSkDerivationProof"
          ELSE IF g = sign(k, StatementOf(c, h)) THEN "Ok" ELSE "AuthenticationSignatureInvalid"
    BY <2>1 DEF verify_pokos
  <2>4. /\ "InvalidSkDerivationProof" # "Ok" /\ "AuthenticationSignatureInvalid" # "Ok"
    OBVIOUS
  <2>5. Verdict(w) = "Ok" <=> /\ verify_private_seed_chain_statement_with_settings(
                                   <<p, t>>, StatementOf(c, h), default_settings)
                              /\ g = sign(k, StatementOf(c, h))
    BY <2>2, <2>3, <2>4
  <2> QED BY <1>1, <1>3, <2>5, SealedIsExact
<1> QED BY <1>2, <1>3

(***************************************************************************)
(* The envelopes an honest owner sends, written out.                       *)
(***************************************************************************)
Claim(s) == Prover(s).statement
KeyOf(s) == Prover(s).derived.authentication_key
ProofOf(s, c) ==
  [config |-> c, vk |-> TemplateKey, public |-> public_values_from_statement(Claim(s))]
Envelope(s, c) ==
  <<PROOF_FORMAT_MAGIC, Claim(s).commit_of_seed, Claim(s).hash_of_sk, 2, ProofOf(s, c), c,
    KeyOf(s), sign(KeyOf(s), Claim(s))>>
WitnessOf(s) == blocks_from_witness(payload_words(s), DerivedKey(s))

(* The place of a row in its segment.                                      *)
LEMMA RowPlace ==
  ASSUME NEW n \in 1..3 * TRACE_ROWS
  PROVE  (n - 1) \div TRACE_ROWS + 1 \in 1..3 /\ (n - 1) % TRACE_ROWS \in 0..TRACE_ROWS - 1
<1> DEFINE q == (n - 1) \div TRACE_ROWS
           r == (n - 1) % TRACE_ROWS
<1>1. TRACE_ROWS \in Nat /\ TRACE_ROWS >= 1
  BY BlockSizes
<1>2. q \in Int /\ r \in 0..TRACE_ROWS - 1 /\ n - 1 = TRACE_ROWS * q + r
  <2> DEFINE x == n - 1
  <2>1. x \in Int /\ TRACE_ROWS \in Int /\ TRACE_ROWS > 0
    BY <1>1
  <2> HIDE DEF x
  <2>2. /\ x \div TRACE_ROWS \in Int /\ x % TRACE_ROWS \in 0..TRACE_ROWS - 1
        /\ x = TRACE_ROWS * (x \div TRACE_ROWS) + (x % TRACE_ROWS)
    BY <2>1
  <2> QED BY <2>2 DEF x
<1> HIDE DEF q, r
<1>3. q \in 0..2
  <2>1. TRACE_ROWS * q < TRACE_ROWS * 3 /\ TRACE_ROWS * q > TRACE_ROWS * (-1)
    BY <1>1, <1>2
  <2>2. CASE q <= -1
    <3>1. TRACE_ROWS * q <= TRACE_ROWS * (-1)
      BY <1>1, <1>2, <2>2
    <3> QED BY <1>1, <1>2, <2>1, <3>1
  <2>3. CASE q >= 3
    <3>1. TRACE_ROWS * q >= TRACE_ROWS * 3
      BY <1>1, <1>2, <2>3
    <3> QED BY <1>1, <1>2, <2>1, <3>1
  <2> QED BY <1>2, <2>2, <2>3
<1> QED BY <1>2, <1>3 DEF q, r

(* The rows the proof is made against show nothing of the payload.         *)
LEMMA SamePreprocessed ==
  ASSUME NEW s \in Nat
  PROVE  setup_preprocessed(WitnessOf(s)) = TemplateKey
<1>1. ASSUME NEW n \in 1..3 * TRACE_ROWS
      PROVE  PrepRowAt(WitnessOf(s), n).W = PrepRowAt(verifier_template_blocks, n).W
  <2> DEFINE seg == (n - 1) \div TRACE_ROWS + 1
             at == (n - 1) % TRACE_ROWS
  <2>1. seg \in 1..3 /\ at \in 0..TRACE_ROWS - 1
    BY RowPlace
  <2>2. /\ PrepRowAt(WitnessOf(s), n) = PrepRow(WitnessOf(s), seg, at)
        /\ PrepRowAt(verifier_template_blocks, n) = PrepRow(verifier_template_blocks, seg, at)
    BY DEF PrepRowAt
  <2> HIDE DEF seg, at
  <2>3. WitnessOf(s)[seg] = BlockOf(s, seg)
    BY <2>1, BlocksAre DEF WitnessOf
  <2> DEFINE fixed == at < BLOCK_WORDS /\ ~(at - PAYLOAD_WORD_START + 1 \in 1..PAYLOAD_WORD_COUNT)
             W(block) == IF at < BLOCK_WORDS THEN u64_to_limbs(block[at + 1]) ELSE ZeroLimbs
  <2>4. ASSUME NEW blocks
        PROVE  PrepRow(blocks, seg, at).W = IF fixed THEN W(blocks[seg]) ELSE ZeroLimbs
    BY <2>1 DEF PrepRow, InstanceRow
  <2>5. ASSUME fixed
        PROVE  W(WitnessOf(s)[seg]) = W(verifier_template_blocks[seg])
    <3>1. /\ at + 1 \in 1..BLOCK_WORDS
          /\ (at + 1) - PAYLOAD_WORD_START = at - PAYLOAD_WORD_START + 1
      BY <2>1, <2>5, BlockSizes
    <3>2. verifier_template_blocks[seg][at + 1] = BlockOf(s, seg)[at + 1]
      BY <2>1, <2>5, <3>1, TemplateIsBlock
    <3> QED BY <2>3, <3>2
  <2> QED BY <2>2, <2>4, <2>5
<1> QED BY <1>1 DEF setup_preprocessed, TemplateKey

(* The public values of the trace are those the statement gives.           *)
LEMMA PublicIsClaimed ==
  ASSUME NEW s \in Nat
  PROVE  build_private_seed_chain_air_bundle(WitnessOf(s)).public
           = public_values_from_statement(Claim(s))
<1> DEFINE made == build_private_seed_chain_air_bundle(WitnessOf(s)).public
           honest == public_values_from_statement(Claim(s))
           final(seg) == RoundsOf(s, seg)[ROUNDS]
<1>1. made = [i \in 1..16 |-> bb(IF i <= 8 THEN final(1)[i] ELSE final(3)[i - 8])]
  <2>1. \A seg \in 1..3 : WitnessOf(s)[seg] = BlockOf(s, seg)
    BY BlocksAre DEF WitnessOf
  <2>2. made = [i \in 1..16 |->
                  bb(IF i <= 8
                     THEN [seg \in 1..3 |-> compress_block(INITIAL_STATE, WitnessOf(s)[seg])][1]
                            .round_states[ROUNDS][i]
                     ELSE [seg \in 1..3 |-> compress_block(INITIAL_STATE, WitnessOf(s)[seg])][3]
                            .round_states[ROUNDS][i - 8])]
    BY DEF build_private_seed_chain_air_bundle
  <2>3. \A seg \in 1..3 :
          [g \in 1..3 |-> compress_block(INITIAL_STATE, WitnessOf(s)[g])][seg]
            .round_states[ROUNDS] = final(seg)
    BY <2>1 DEF RoundsOf, TraceOf
  <2> QED BY <2>2, <2>3
<1>2. \A i \in 1..8 : honest[i] = final(1)[i] % P /\ honest[8 + i] = final(3)[i] % P
  BY StatementValues DEF Claim
<1>3. honest = [i \in 1..16 |-> honest[i]]
  BY DEF public_values_from_statement
<1> HIDE DEF made, honest, final
<1>4. ASSUME NEW i \in 1..16
      PROVE  made[i] = honest[i]
  <2>1. CASE i <= 8
    <3>1. i \in 1..8 /\ made[i] = bb(final(1)[i])
      BY <1>1, <2>1
    <3> QED BY <1>2, <3>1 DEF bb
  <2>2. CASE i > 8
    <3> DEFINE j == i - 8
    <3>1. j \in 1..8 /\ 8 + j = i /\ made[i] = bb(final(3)[j])
      BY <1>1, <2>2
    <3> HIDE DEF j
    <3>2. honest[8 + j] = final(3)[j] % P
      BY <1>2, <3>1
    <3> QED BY <3>1, <3>2 DEF bb
  <2> QED BY <2>1, <2>2
<1>5. made = [i \in 1..16 |-> made[i]]
  BY <1>1
<1> QED BY <1>3, <1>4, <1>5 DEF made, honest

(* What the prover returns, serialized: nothing, or its envelope.          *)
LEMMA SealedProof ==
  ASSUME NEW s \in Nat, NEW c, NEW made, made.public = public_values_from_statement(Claim(s)),
         NEW sealed, sealed = prove_private_seed_chain_with_settings(made, WitnessOf(s), c)
  PROVE  /\ sealed = ProofError \/ sealed = <<ProofOf(s, c), c>>
         /\ c = default_settings => sealed = <<ProofOf(s, c), c>>
         /\ <<ProofOf(s, c), c>> # ProofError
<1>1. prove_with_preprocessed(c, WitnessOf(s), made.public) = ProofOf(s, c)
  BY SamePreprocessed DEF prove_with_preprocessed, ProofOf
<1>2. sealed = IF ~meets_minimum_verifier_policy(c) THEN ProofError
               ELSE IF Size(c) > MAX_INNER_PROOF_BYTES
                       \/ Size(c) + 1 > MAX_SEGMENT_CHAIN_PROOF_BYTES
                    THEN ProofError ELSE <<ProofOf(s, c), c>>
  BY <1>1 DEF prove_private_seed_chain_with_settings, serialize_segment_chain_proof
<1>3. ASSUME c = default_settings
      PROVE  sealed = <<ProofOf(s, c), c>>
  <2>1. meets_minimum_verifier_policy(c) /\ Size(c) = 28
    BY <1>3, DefaultIsStrong
  <2>2. ~(Size(c) > MAX_INNER_PROOF_BYTES \/ Size(c) + 1 > MAX_SEGMENT_CHAIN_PROOF_BYTES)
    BY <2>1 DEF MAX_INNER_PROOF_BYTES, MAX_SEGMENT_CHAIN_PROOF_BYTES
  <2> QED BY <1>2, <2>1, <2>2
<1>4. <<ProofOf(s, c), c>> # ProofError
  <2> DEFINE p == ProofOf(s, c)
  <2> HIDE DEF p
  <2>1. Len(<<p, c>>) = 2 /\ Len(<<>>) = 0
    OBVIOUS
  <2>2. <<p, c>> # <<>>
    BY <2>1
  <2> QED BY <2>2 DEF p, ProofError
<1> QED BY <1>2, <1>3, <1>4

(* Serializing what the prover signs gives the envelope.                   *)
LEMMA SerializedProof ==
  ASSUME NEW s, NEW c
  PROVE  serialize_proof(gen_pokos(Prover(s), <<ProofOf(s, c), c>>)) = Envelope(s, c)
<1> DEFINE p == ProofOf(s, c)
           k == KeyOf(s)
           g == sign(KeyOf(s), Claim(s))
           a == Claim(s).commit_of_seed
           b == Claim(s).hash_of_sk
           m == PROOF_FORMAT_MAGIC
           S == {m, a, b, 2, p, c, k, g}
<1>1. serialize_proof(gen_pokos(Prover(s), <<p, c>>))
        = <<m, a, b, Len(<<p, c>>)>> \o <<p, c>> \o <<k, g>>
  <2>1. gen_pokos(Prover(s), <<p, c>>)
          = [statement |-> Claim(s), sha512_proof |-> <<p, c>>,
             authentication_key |-> k, authentication_signature |-> g]
    BY Zenon DEF gen_pokos, Claim, KeyOf
  <2> HIDE DEF p, k, g
  <2> DEFINE proof == gen_pokos(Prover(s), <<p, c>>)
  <2>2. /\ proof.statement = Claim(s) /\ proof.sha512_proof = <<p, c>>
        /\ proof.authentication_key = k /\ proof.authentication_signature = g
    BY <2>1
  <2> HIDE DEF proof
  <2>3. serialize_proof(proof) = <<m, a, b, Len(<<p, c>>)>> \o <<p, c>> \o <<k, g>>
    BY <2>2, Zenon DEF serialize_proof
  <2> QED BY <2>3 DEF proof
<1>2. Envelope(s, c) = <<m, a, b, 2, p, c, k, g>>
  BY DEF Envelope
<1> HIDE DEF p, k, g, a, b, m
<1>3. Len(<<p, c>>) = 2
  OBVIOUS
<1> DEFINE two == 2
<1>4. two = 2
  OBVIOUS
<1> HIDE DEF two
<1>5. /\ m \in S /\ a \in S /\ b \in S /\ two \in S /\ p \in S /\ c \in S /\ k \in S /\ g \in S
  BY <1>4
<1> HIDE DEF S
<1>6. <<m, a, b, two>> \o <<p, c>> = <<m, a, b, two, p, c>>
  BY <1>5, SixCells
<1>7. <<m, a, b, two, p, c>> \o <<k, g>> = <<m, a, b, two, p, c, k, g>>
  <2>1. AllIn(S, m, a, b, two, p, c, k, g)
    BY <1>5, Zenon DEF AllIn
  <2> QED BY <2>1, EightCells
<1>8. serialize_proof(gen_pokos(Prover(s), <<p, c>>))
        = <<m, a, b, two>> \o <<p, c>> \o <<k, g>>
  BY <1>1, <1>3, <1>4, Zenon
<1>9. Envelope(s, c) = <<m, a, b, two, p, c, k, g>>
  BY <1>2, <1>4, Zenon
<1> QED BY <1>6, <1>7, <1>8, <1>9, Zenon DEF p

(* An envelope is its eight cells, and the statement is two of them.       *)
EnvelopeCells(w, s, c) ==
  Cells(w, PROOF_FORMAT_MAGIC, Claim(s).commit_of_seed, Claim(s).hash_of_sk, 2,
        ProofOf(s, c), c, KeyOf(s), sign(KeyOf(s), Claim(s)))

(* The cells of an envelope, and its claim as a statement.                 *)
LEMMA EnvelopeFacts ==
  ASSUME NEW s, NEW c
  PROVE  /\ EnvelopeCells(Envelope(s, c), s, c)
         /\ Claim(s) = StatementOf(Claim(s).commit_of_seed, Claim(s).hash_of_sk)
<1>1. EnvelopeCells(Envelope(s, c), s, c)
  BY Zenon DEF EnvelopeCells, Envelope, Cells
<1>2. Claim(s) = StatementOf(Claim(s).commit_of_seed, Claim(s).hash_of_sk)
  <2>1. Claim(s) = [commit_of_seed |-> commit_of_seed(s),
                    hash_of_sk |-> derive_secret_key_material(s).hash_of_sk]
    BY Zenon DEF Claim, Prover, statement_from_seed
  <2> QED BY <2>1 DEF StatementOf
<1> QED BY <1>1, <1>2

(* An envelope that arrives unchanged is accepted exactly when it was      *)
(* proved under the default settings.                                      *)
LEMMA UnchangedVerdict ==
  ASSUME NEW s, NEW c
  PROVE  Verdict(Envelope(s, c)) = "Ok" <=> c = default_settings
<1> DEFINE w == Envelope(s, c)
           a == Claim(s).commit_of_seed
           b == Claim(s).hash_of_sk
           p == ProofOf(s, c)
           k == KeyOf(s)
           g == sign(KeyOf(s), Claim(s))
           two == 2
<1>1. Cells(w, PROOF_FORMAT_MAGIC, a, b, two, p, c, k, g)
  BY EnvelopeFacts DEF EnvelopeCells
<1>2. Claim(s) = StatementOf(a, b) /\ two \in Nat /\ two = 2
  BY EnvelopeFacts
<1>3. /\ p = [config |-> c, vk |-> TemplateKey,
              public |-> public_values_from_statement(StatementOf(a, b))]
      /\ g = sign(k, StatementOf(a, b))
  BY <1>2 DEF ProofOf
<1> HIDE DEF w, a, b, p, k, g, two
<1>4. Verdict(w) = "Ok" <=>
        /\ PROOF_FORMAT_MAGIC = PROOF_FORMAT_MAGIC /\ two = 2 /\ c = default_settings
        /\ p = [config |-> default_settings, vk |-> TemplateKey,
                public |-> public_values_from_statement(StatementOf(a, b))]
        /\ g = sign(k, StatementOf(a, b))
  BY <1>1, <1>2, VerdictOfCells
<1> QED BY <1>2, <1>3, <1>4 DEF w

(* Each cell of an accepted envelope is determined by the others, so an    *)
(* envelope that was changed in one cell and is accepted was not changed.  *)
LEMMA ChangedVerdict ==
  ASSUME NEW s, NEW i \in 1..8, NEW x, i = 4 => x \in Nat,
         NEW w, w = [Envelope(s, default_settings) EXCEPT ![i] = x], Verdict(w) = "Ok"
  PROVE  w = Envelope(s, default_settings)
<1> DEFINE e == Envelope(s, default_settings)
           a == Claim(s).commit_of_seed
           b == Claim(s).hash_of_sk
           p == ProofOf(s, default_settings)
           d == default_settings
           k == KeyOf(s)
           g == sign(KeyOf(s), Claim(s))
           m == PROOF_FORMAT_MAGIC
           two == 2
           at(j, y) == IF i = j THEN x ELSE y
<1>1. Cells(e, m, a, b, two, p, d, k, g)
  BY EnvelopeFacts DEF EnvelopeCells
<1>2. Claim(s) = StatementOf(a, b) /\ two \in Nat /\ two = 2
  BY EnvelopeFacts
<1>3. /\ p = [config |-> d, vk |-> TemplateKey,
              public |-> public_values_from_statement(Claim(s))]
      /\ g = sign(k, Claim(s))
  BY DEF ProofOf
<1> HIDE DEF e, a, b, p, d, k, g, m, two
<1>4. e = <<m, a, b, two, p, d, k, g>>
  BY <1>1 DEF Cells
<1>5. w = <<at(1, m), at(2, a), at(3, b), at(4, two), at(5, p), at(6, d), at(7, k), at(8, g)>>
  <2>1. w = [e EXCEPT ![i] = x]
    BY DEF e, d
  <2>2. i = 1 \/ i = 2 \/ i = 3 \/ i = 4 \/ i = 5 \/ i = 6 \/ i = 7 \/ i = 8
    OBVIOUS
  <2>3. \A A, B, C, D, E, F, G, H, y :
          /\ [<<A, B, C, D, E, F, G, H>> EXCEPT ![1] = y] = <<y, B, C, D, E, F, G, H>>
          /\ [<<A, B, C, D, E, F, G, H>> EXCEPT ![2] = y] = <<A, y, C, D, E, F, G, H>>
          /\ [<<A, B, C, D, E, F, G, H>> EXCEPT ![3] = y] = <<A, B, y, D, E, F, G, H>>
          /\ [<<A, B, C, D, E, F, G, H>> EXCEPT ![4] = y] = <<A, B, C, y, E, F, G, H>>
          /\ [<<A, B, C, D, E, F, G, H>> EXCEPT ![5] = y] = <<A, B, C, D, y, F, G, H>>
          /\ [<<A, B, C, D, E, F, G, H>> EXCEPT ![6] = y] = <<A, B, C, D, E, y, G, H>>
          /\ [<<A, B, C, D, E, F, G, H>> EXCEPT ![7] = y] = <<A, B, C, D, E, F, y, H>>
          /\ [<<A, B, C, D, E, F, G, H>> EXCEPT ![8] = y] = <<A, B, C, D, E, F, G, y>>
    OBVIOUS
  <2> QED BY <1>4, <2>1, <2>2, <2>3
<1>6. at(4, two) \in Nat
  BY <1>2
<1>7. Cells(w, at(1, m), at(2, a), at(3, b), at(4, two), at(5, p), at(6, d), at(7, k), at(8, g))
  BY <1>5 DEF Cells
<1> DEFINE m2 == at(1, m)
           a2 == at(2, a)
           b2 == at(3, b)
           l2 == at(4, two)
           p2 == at(5, p)
           d2 == at(6, d)
           k2 == at(7, k)
           g2 == at(8, g)
<1>8. Cells(w, m2, a2, b2, l2, p2, d2, k2, g2) /\ l2 \in Nat
  BY <1>6, <1>7
<1>9. \/ /\ i \in {1, 4, 6} /\ a2 = a /\ b2 = b /\ p2 = p /\ k2 = k /\ g2 = g
      \/ /\ i \in {2, 3} /\ p2 = p /\ k2 = k /\ g2 = g
      \/ /\ i = 5 /\ a2 = a /\ b2 = b /\ k2 = k /\ g2 = g
      \/ /\ i = 7 /\ a2 = a /\ b2 = b /\ p2 = p /\ g2 = g
      \/ /\ i = 8 /\ a2 = a /\ b2 = b /\ p2 = p /\ k2 = k
  OBVIOUS
<1> HIDE DEF m2, a2, b2, l2, p2, d2, k2, g2
<1>10. /\ m2 = m /\ l2 = 2 /\ d2 = d
       /\ p2 = [config |-> d, vk |-> TemplateKey,
                public |-> public_values_from_statement(StatementOf(a2, b2))]
       /\ g2 = sign(k2, StatementOf(a2, b2))
  BY <1>8, VerdictOfCells DEF m, d
<1>11. /\ g2 = g => k2 = k /\ a2 = a /\ b2 = b
       /\ a2 = a /\ b2 = b => p2 = p
       /\ a2 = a /\ b2 = b /\ k2 = k => g2 = g
  <2>1. ASSUME g2 = g
        PROVE  k2 = k /\ a2 = a /\ b2 = b
    <3>1. g.signer = k /\ g.transcript.commit_of_seed = a /\ g.transcript.hash_of_sk = b
      BY <1>2, <1>3 DEF sign, StatementOf
    <3>2. g2.signer = k2 /\ g2.transcript.commit_of_seed = a2 /\ g2.transcript.hash_of_sk = b2
      BY <1>10 DEF sign, StatementOf
    <3> QED BY <2>1, <3>1, <3>2
  <2> QED BY <1>2, <1>3, <1>10, <2>1
<1>12. a2 = a /\ b2 = b /\ p2 = p /\ k2 = k /\ g2 = g
  BY <1>9, <1>11
<1>13. w = e
  BY <1>1, <1>2, <1>8, <1>10, <1>12 DEF Cells
<1> QED BY <1>13 DEF e, d

(* The length of an envelope and the cells a reader looks at first.        *)
LEMMA EnvelopeRead ==
  ASSUME NEW s, NEW c
  PROVE  /\ Len(Envelope(s, c)) = 8 /\ \E S : Envelope(s, c) \in Seq(S)
         /\ Envelope(s, c)[1] = PROOF_FORMAT_MAGIC /\ Envelope(s, c)[4] = 2
         /\ Envelope(s, c)[6] = c
<1> DEFINE w == Envelope(s, c)
           a == Claim(s).commit_of_seed
           b == Claim(s).hash_of_sk
           p == ProofOf(s, c)
           k == KeyOf(s)
           g == sign(KeyOf(s), Claim(s))
           m == PROOF_FORMAT_MAGIC
           two == 2
<1>1. Cells(w, m, a, b, two, p, c, k, g)
  BY EnvelopeFacts DEF EnvelopeCells
<1> HIDE DEF w, a, b, p, k, g, m, two
<1>2. HasCells(w, m, a, b, two, p, c, k, g)
  BY <1>1, CellFacts
<1>3. Len(w) = 8 /\ w[1] = m /\ w[4] = two /\ w[6] = c /\ \E S : w \in Seq(S)
  BY <1>2, Zenon DEF HasCells
<1> QED BY <1>3 DEF w, m, two

(* A shortened envelope is truncated.                                      *)
LEMMA ShortVerdict ==
  ASSUME NEW s, NEW n \in 0..7, NEW w, w = SubSeq(Envelope(s, default_settings), 1, n)
  PROVE  Verdict(w) = "Truncated" /\ Len(w) = n
<1> DEFINE e == Envelope(s, default_settings)
<1>1. /\ e[1] = PROOF_FORMAT_MAGIC /\ e[4] = 2
  BY EnvelopeRead
<1> HIDE DEF e
<1>2. w = [i \in 1..n |-> e[i]]
  BY DEF e
<1>3. Len(w) = n
  BY <1>2
<1>4. (n >= 1 => w[1] = PROOF_FORMAT_MAGIC) /\ (n >= 4 => w[4] = 2)
  BY <1>1, <1>2
<1> DEFINE end == IF w[4] > USIZE_MAX - 4 THEN USIZE_MAX ELSE 4 + w[4]
<1>5. n >= 4 => end + 2 > n
  BY <1>4 DEF USIZE_MAX
<1>6. deserialize_error(w) =
        CASE n < 1 -> "Truncated"
          [] n >= 1 /\ w[1] # PROOF_FORMAT_MAGIC -> "InvalidMagic"
          [] n \in 1..3 /\ w[1] = PROOF_FORMAT_MAGIC -> "Truncated"
          [] n >= 4 /\ w[1] = PROOF_FORMAT_MAGIC ->
               IF end + 2 > n THEN "Truncated"
               ELSE IF end + 2 < n THEN "TrailingBytes" ELSE "Ok"
  BY <1>3 DEF deserialize_error
<1> HIDE DEF end
<1>7. deserialize_error(w) = "Truncated"
  <2>1. CASE n < 1
    BY <1>6, <2>1
  <2>2. CASE n \in 1..3
    BY <1>4, <1>6, <2>2
  <2>3. CASE n >= 4
    BY <1>4, <1>5, <1>6, <2>3
  <2> QED BY <2>1, <2>2, <2>3
<1>8. "Truncated" # "Ok"
  OBVIOUS
<1> QED BY <1>3, <1>7, <1>8 DEF Verdict

(* An envelope with anything after it has trailing bytes.                  *)
LEMMA LongVerdict ==
  ASSUME NEW w, NEW n \in Nat, Len(w) = n, n > 8, w[1] = PROOF_FORMAT_MAGIC, w[4] = 2
  PROVE  Verdict(w) = "TrailingBytes"
<1> DEFINE end == IF w[4] > USIZE_MAX - 4 THEN USIZE_MAX ELSE 4 + w[4]
<1>1. end + 2 < n /\ ~(end + 2 > n)
  BY DEF USIZE_MAX
<1>2. deserialize_error(w) =
        CASE n < 1 -> "Truncated"
          [] n >= 1 /\ w[1] # PROOF_FORMAT_MAGIC -> "InvalidMagic"
          [] n \in 1..3 /\ w[1] = PROOF_FORMAT_MAGIC -> "Truncated"
          [] n >= 4 /\ w[1] = PROOF_FORMAT_MAGIC ->
               IF end + 2 > n THEN "Truncated"
               ELSE IF end + 2 < n THEN "TrailingBytes" ELSE "Ok"
  BY DEF deserialize_error
<1> HIDE DEF end
<1>3. deserialize_error(w) = "TrailingBytes"
  BY <1>1, <1>2
<1>4. "TrailingBytes" # "Ok"
  OBVIOUS
<1> QED BY <1>3, <1>4 DEF Verdict

(***************************************************************************)
(* What the wire can bring, and what the honest side holds on the way.     *)
(***************************************************************************)
Arrives(w, s) ==
  \/ \E c : w = Envelope(s, c)
  \/ \E i \in 1..8 : \E x : /\ w = [Envelope(s, default_settings) EXCEPT ![i] = x]
                            /\ i = 4 => x \in Nat
  \/ \E n \in 0..7 : w = SubSeq(Envelope(s, default_settings), 1, n)
  \/ \E t : w = Envelope(s, default_settings) \o Envelope(t, default_settings)
EnvelopesAreKnown ==
  /\ provers = [s \in Seeds |-> Prover(s)] /\ seed \in Seeds
  /\ stage \in {"lay", "build", "prove"} => wire = None
  /\ stage = "prove" => bundle.public = public_values_from_statement(Claim(seed))
  /\ stage = "sent" => wire = Envelope(seed, settings)
  /\ stage = "arrived" => Arrives(wire, seed)
  /\ stage = "done" => \/ wire = None /\ result = "ProverError"
                       \/ Arrives(wire, seed) /\ result = Verdict(wire)

(* Two envelopes in a row are a sequence of sixteen cells.                 *)
LEMMA Twice ==
  ASSUME NEW s, NEW t, NEW w,
         w = Envelope(s, default_settings) \o Envelope(t, default_settings)
  PROVE  \E n \in Nat : n > 8 /\ Len(w) = n /\ w[1] = PROOF_FORMAT_MAGIC /\ w[4] = 2
<1> DEFINE x == Envelope(s, default_settings)
           y == Envelope(t, default_settings)
           a == 8
<1>1. PICK A : x \in Seq(A)
  BY EnvelopeRead
<1>2. PICK B : y \in Seq(B)
  BY EnvelopeRead
<1>3. Len(x) = a /\ Len(y) = a /\ x[1] = PROOF_FORMAT_MAGIC /\ x[4] = 2
  BY EnvelopeRead
<1> DEFINE S == A \union B
<1>4. a \in Nat /\ a + a \in Nat /\ a + a > 8 /\ 1 \in 1..a /\ 4 \in 1..a
  OBVIOUS
<1> HIDE DEF x, y, a
<1>5. x \in Seq(S) /\ y \in Seq(S)
  BY <1>1, <1>2
<1> HIDE DEF S
<1>6. Joins(S, x, y, a, a)
  BY <1>3, <1>4, <1>5, Joined
<1> DEFINE z == x \o y
<1>7. Len(z) = a + a /\ \A i \in 1..a : z[i] = x[i]
  BY <1>6 DEF Joins
<1>8. w = z
  BY DEF x, y
<1> HIDE DEF z
<1> QED BY <1>3, <1>4, <1>7, <1>8

(* What arrives is accepted exactly when it is an honest envelope.         *)
LEMMA ArrivalVerdict ==
  ASSUME NEW s \in Seeds, NEW w, Arrives(w, s)
  PROVE  Verdict(w) = "Ok" <=> \E t \in Seeds : w = Envelope(t, default_settings)
<1> DEFINE accepted == \E t \in Seeds : w = Envelope(t, default_settings)
<1>1. accepted => Verdict(w) = "Ok"
  BY UnchangedVerdict
<1>2. accepted => Len(w) = 8
  BY EnvelopeRead
<1>3. ASSUME Verdict(w) = "Ok"
      PROVE  accepted
  <2>1. ASSUME NEW c, w = Envelope(s, c)
        PROVE  accepted
    BY <1>3, <2>1, UnchangedVerdict
  <2>2. ASSUME NEW i \in 1..8, NEW x, w = [Envelope(s, default_settings) EXCEPT ![i] = x],
               i = 4 => x \in Nat
        PROVE  accepted
    BY <1>3, <2>2, ChangedVerdict
  <2>3. ASSUME NEW n \in 0..7, w = SubSeq(Envelope(s, default_settings), 1, n)
        PROVE  accepted
    <3>1. Verdict(w) = "Truncated"
      BY <2>3, ShortVerdict
    <3>2. "Truncated" # "Ok"
      OBVIOUS
    <3> QED BY <1>3, <3>1, <3>2
  <2>4. ASSUME NEW t, w = Envelope(s, default_settings) \o Envelope(t, default_settings)
        PROVE  accepted
    <3>1. PICK n \in Nat : n > 8 /\ Len(w) = n /\ w[1] = PROOF_FORMAT_MAGIC /\ w[4] = 2
      BY <2>4, Twice, Zenon
    <3>2. Verdict(w) = "TrailingBytes"
      BY <3>1, LongVerdict
    <3>3. "TrailingBytes" # "Ok"
      OBVIOUS
    <3> QED BY <1>3, <3>2, <3>3
  <2> HIDE DEF accepted
  <2> QED BY <2>1, <2>2, <2>3, <2>4, Zenon DEF Arrives
<1> QED BY <1>1, <1>3

(* Whatever arrives is a sequence of cells.                                *)
LEMMA ArrivalIsSequence ==
  ASSUME NEW s, NEW w, Arrives(w, s)
  PROVE  \E n \in Nat : Len(w) = n
<1>1. ASSUME NEW c, w = Envelope(s, c)
      PROVE  \E n \in Nat : Len(w) = n
  <2>1. PICK S : w \in Seq(S)
    BY <1>1, EnvelopeRead
  <2> QED BY <2>1
<1>2. ASSUME NEW i \in 1..8, NEW x, w = [Envelope(s, default_settings) EXCEPT ![i] = x]
      PROVE  \E n \in Nat : Len(w) = n
  <2> DEFINE e == Envelope(s, default_settings)
  <2>1. PICK S : e \in Seq(S)
    BY EnvelopeRead
  <2>2. Len(e) \in Nat /\ DOMAIN e = 1..Len(e)
    BY <2>1
  <2> HIDE DEF e
  <2>3. DOMAIN w = 1..Len(e) /\ w = [j \in 1..Len(e) |-> w[j]]
    BY <1>2, <2>2 DEF e
  <2>4. Len(w) = Len(e)
    BY <2>2, <2>3
  <2> QED BY <2>2, <2>4
<1>3. ASSUME NEW n \in 0..7, w = SubSeq(Envelope(s, default_settings), 1, n)
      PROVE  \E m \in Nat : Len(w) = m
  <2>1. Len(w) = n /\ n \in Nat
    BY <1>3, ShortVerdict
  <2> QED BY <2>1
<1>4. ASSUME NEW t, w = Envelope(s, default_settings) \o Envelope(t, default_settings)
      PROVE  \E n \in Nat : Len(w) = n
  BY <1>4, Twice, Zenon
<1> QED BY <1>1, <1>2, <1>3, <1>4, Zenon DEF Arrives

(* The honest sender's bytes are its envelope under the default settings.  *)
LEMMA HonestIsEnvelope ==
  ASSUME provers = [s \in Seeds |-> Prover(s)], NEW s \in Seeds
  PROVE  HonestWire(s) = Envelope(s, default_settings) /\ BlocksOf(s) = WitnessOf(s)
<1>1. s \in Nat /\ provers[s] = Prover(s)
  BY ConstantsAssumption
<1>2. BlocksOf(s) = WitnessOf(s)
  BY <1>1 DEF BlocksOf, WitnessOf, Prover, DerivedKey
<1> DEFINE made == [public |-> public_values_from_statement(Claim(s))]
           sealed == prove_private_seed_chain_with_settings(made, WitnessOf(s), default_settings)
<1>3. HonestWire(s) = serialize_proof(gen_pokos(Prover(s), sealed))
  BY <1>1, <1>2 DEF HonestWire, Claim
<1>4. made.public = public_values_from_statement(Claim(s))
  OBVIOUS
<1> HIDE DEF made
<1>5. sealed = <<ProofOf(s, default_settings), default_settings>>
  BY <1>1, <1>4, SealedProof
<1> HIDE DEF sealed
<1>6. HonestWire(s) = Envelope(s, default_settings)
  BY <1>3, <1>5, SerializedProof
<1> QED BY <1>2, <1>6

(* Building the trace keeps what is known of the wire.                     *)
LEMMA BuildIsKnown ==
  ASSUME EnvelopesAreKnown, BuildBundle
  PROVE  EnvelopesAreKnown'
<1>1. /\ provers = [s \in Seeds |-> Prover(s)] /\ seed \in Seeds /\ wire = None
      /\ provers' = provers /\ seed' = seed /\ wire' = wire /\ stage' = "prove"
      /\ bundle' = build_private_seed_chain_air_bundle(BlocksOf(seed))
  BY DEF BuildBundle, EnvelopesAreKnown
<1>2. bundle'.public = public_values_from_statement(Claim(seed))
  <2>1. BlocksOf(seed) = WitnessOf(seed) /\ seed \in Nat
    BY <1>1, HonestIsEnvelope, ConstantsAssumption
  <2> QED BY <1>1, <2>1, PublicIsClaimed
<1> QED BY <1>1, <1>2 DEF EnvelopesAreKnown

(* Sending puts the sender's envelope on the wire, or reports an error.    *)
LEMMA SendIsKnown ==
  ASSUME EnvelopesAreKnown, Send
  PROVE  EnvelopesAreKnown'
<1>1. /\ provers = [s \in Seeds |-> Prover(s)] /\ seed \in Seeds /\ wire = None
      /\ bundle.public = public_values_from_statement(Claim(seed))
      /\ provers' = provers /\ seed' = seed
  BY DEF Send, EnvelopesAreKnown
<1>2. PICK chosen, sealed :
        /\ sealed = prove_private_seed_chain_with_settings(bundle, BlocksOf(seed), chosen)
        /\ settings' = chosen
        /\ IF sealed = ProofError
           THEN stage' = "done" /\ result' = "ProverError" /\ UNCHANGED wire
           ELSE stage' = "sent" /\ wire' = serialize_proof(gen_pokos(provers[seed], sealed))
  BY DEF Send
<1>3. BlocksOf(seed) = WitnessOf(seed) /\ seed \in Nat /\ provers[seed] = Prover(seed)
  BY <1>1, HonestIsEnvelope, ConstantsAssumption
<1>4. sealed = ProofError \/ sealed = <<ProofOf(seed, chosen), chosen>>
  BY <1>1, <1>2, <1>3, SealedProof
<1>5. CASE sealed = ProofError
  BY <1>1, <1>2, <1>5 DEF EnvelopesAreKnown
<1>6. CASE sealed # ProofError
  <2>1. wire' = Envelope(seed, settings') /\ stage' = "sent"
    BY <1>2, <1>3, <1>4, <1>6, SerializedProof
  <2> QED BY <1>1, <2>1 DEF EnvelopesAreKnown
<1> QED BY <1>5, <1>6

(* A faulty wire delivers an envelope changed in one way.                  *)
LEMMA FaultIsKnown ==
  ASSUME EnvelopesAreKnown, Fault
  PROVE  EnvelopesAreKnown'
<1> DEFINE e == Envelope(seed, default_settings)
<1>1. /\ provers = [s \in Seeds |-> Prover(s)] /\ seed \in Seeds /\ wire = e
      /\ provers' = provers /\ seed' = seed /\ stage' = "arrived"
  BY DEF Fault, EnvelopesAreKnown
<1>2. Len(e) = 8 /\ \A s \in Seeds : /\ HonestWire(s) = Envelope(s, default_settings)
                                     /\ HonestWire(s)[4] \in Nat
  <2>1. Len(e) = 8
    BY EnvelopeRead
  <2>2. \A s \in Seeds : HonestWire(s) = Envelope(s, default_settings)
    BY <1>1, HonestIsEnvelope
  <2>3. \A s \in Seeds : Envelope(s, default_settings)[4] = 2
    BY EnvelopeRead
  <2> QED BY <2>1, <2>2, <2>3
<1>3. \/ \E n \in 0..Len(wire) - 1 : wire' = SubSeq(wire, 1, n)
      \/ \E honest \in {HonestWire(s) : s \in Seeds} :
           \/ wire' = wire \o honest
           \/ \E i \in 1..Len(wire) : wire' = [wire EXCEPT ![i] = honest[i]]
      \/ wire' = [wire EXCEPT ![1] = "EPKOS002"]
      \/ \E n \in (0..4) \union {USIZE_MAX} : wire' = [wire EXCEPT ![4] = n]
  BY DEF Fault
<1>4. ASSUME NEW n \in 0..Len(wire) - 1, wire' = SubSeq(wire, 1, n)
      PROVE  Arrives(wire', seed)
  <2>1. n \in 0..7 /\ wire' = SubSeq(e, 1, n)
    BY <1>1, <1>2, <1>4
  <2> QED BY <2>1, Zenon DEF Arrives
<1>5. ASSUME NEW s \in Seeds, wire' = wire \o HonestWire(s)
      PROVE  Arrives(wire', seed)
  BY <1>1, <1>2, <1>5, Zenon DEF Arrives
<1>6. ASSUME NEW i \in 1..8, NEW x, wire' = [wire EXCEPT ![i] = x], i = 4 => x \in Nat
      PROVE  Arrives(wire', seed)
  BY <1>1, <1>6, Zenon DEF Arrives
<1>7. ASSUME NEW s \in Seeds, NEW i \in 1..Len(wire),
             wire' = [wire EXCEPT ![i] = HonestWire(s)[i]]
      PROVE  Arrives(wire', seed)
  <2>1. i \in 1..8 /\ (i = 4 => HonestWire(s)[i] \in Nat)
    BY <1>1, <1>2
  <2> QED BY <1>6, <1>7, <2>1, Zenon
<1>8. ASSUME wire' = [wire EXCEPT ![1] = "EPKOS002"]
      PROVE  Arrives(wire', seed)
  <2>1. 1 \in 1..8 /\ 1 # 4
    OBVIOUS
  <2> QED BY <1>6, <1>8, <2>1, Zenon
<1>9. ASSUME NEW n \in (0..4) \union {USIZE_MAX}, wire' = [wire EXCEPT ![4] = n]
      PROVE  Arrives(wire', seed)
  <2>1. 4 \in 1..8 /\ n \in Nat
    BY DEF USIZE_MAX
  <2> QED BY <1>6, <1>9, <2>1, Zenon
<1>10. Arrives(wire', seed)
  BY <1>3, <1>4, <1>5, <1>7, <1>8, <1>9, Zenon
<1> QED BY <1>1, <1>10 DEF EnvelopesAreKnown

(* Receiving returns the verdict on what arrived.                          *)
LEMMA ReceiveIsKnown ==
  ASSUME EnvelopesAreKnown, Receive
  PROVE  EnvelopesAreKnown'
<1>1. /\ provers = [s \in Seeds |-> Prover(s)] /\ seed \in Seeds
      /\ provers' = provers /\ seed' = seed /\ stage' = "done" /\ wire' = wire
      /\ result' = Verdict(wire)
  BY DEF Receive, EnvelopesAreKnown, Verdict
<1>2. Arrives(wire, seed)
  <2>1. CASE stage = "sent"
    BY <2>1 DEF EnvelopesAreKnown, Arrives
  <2>2. CASE stage = "arrived"
    BY <2>2 DEF EnvelopesAreKnown
  <2> QED BY <2>1, <2>2 DEF Receive
<1> QED BY <1>1, <1>2 DEF EnvelopesAreKnown

(* What is on the wire is always known.                                    *)
LEMMA KnownForever == Spec => []EnvelopesAreKnown
<1>1. Init => EnvelopesAreKnown
  BY DEF Init, EnvelopesAreKnown
<1>2. EnvelopesAreKnown /\ [Next]_vars => EnvelopesAreKnown'
  <2> SUFFICES ASSUME EnvelopesAreKnown, [Next]_vars
               PROVE  EnvelopesAreKnown'
    OBVIOUS
  <2>1. CASE LayRow
    BY <2>1 DEF LayRow, EnvelopesAreKnown
  <2>2. CASE FinishSegment
    <3>1. /\ provers' = provers /\ seed' = seed /\ wire' = wire
          /\ stage = "lay" /\ stage' \in {"lay", "accepted"}
      BY <2>2 DEF FinishSegment
    <3> QED BY <3>1 DEF EnvelopesAreKnown
  <2>3. CASE BuildBundle
    BY <2>3, BuildIsKnown
  <2>4. CASE Send
    BY <2>4, SendIsKnown
  <2>5. CASE Fault
    BY <2>5, FaultIsKnown
  <2>6. CASE Receive
    BY <2>6, ReceiveIsKnown
  <2>7. CASE Finished
    BY <2>7 DEF Finished, vars, EnvelopesAreKnown
  <2>8. CASE UNCHANGED vars
    BY <2>8 DEF vars, EnvelopesAreKnown
  <2> QED BY <2>1, <2>2, <2>3, <2>4, <2>5, <2>6, <2>7, <2>8 DEF Next
<1> QED BY <1>1, <1>2, PTL DEF Spec

(***************************************************************************)
(* An envelope is accepted exactly when it is the honest one of some seed  *)
(* under the default settings; cut short it is truncated, and with         *)
(* anything after it has trailing bytes.                                   *)
(***************************************************************************)
THEOREM EnvelopesExact == Spec => []EnvelopesAreExact
<1>1. EnvelopesAreKnown => EnvelopesAreExact
  <2> SUFFICES ASSUME EnvelopesAreKnown, stage = "done"
               PROVE  /\ result = "Ok" <=> \E s \in Seeds : wire = HonestWire(s)
                      /\ \A s \in Seeds :
                           /\ (\E n \in 1..Len(HonestWire(s)) - 1 :
                                 wire = SubSeq(HonestWire(s), 1, n))
                                => result = "Truncated"
                           /\ Len(wire) > Len(HonestWire(s))
                              /\ SubSeq(wire, 1, Len(HonestWire(s))) = HonestWire(s)
                                => result = "TrailingBytes"
    BY DEF EnvelopesAreExact
  <2>1. /\ provers = [s \in Seeds |-> Prover(s)] /\ seed \in Seeds
        /\ \/ wire = None /\ result = "ProverError"
           \/ Arrives(wire, seed) /\ result = Verdict(wire)
    BY DEF EnvelopesAreKnown
  <2>2. \A s \in Seeds : HonestWire(s) = Envelope(s, default_settings)
    BY <2>1, HonestIsEnvelope
  <2>3. \A s \in Seeds : /\ Len(HonestWire(s)) = 8 /\ HonestWire(s)[1] = PROOF_FORMAT_MAGIC
                         /\ HonestWire(s)[4] = 2
    BY <2>2, EnvelopeRead
  <2>4. result = "Ok" <=> \E s \in Seeds : wire = HonestWire(s)
    <3>1. CASE wire = None /\ result = "ProverError"
      <4>1. Len(wire) = 0 /\ result # "Ok"
        BY <3>1 DEF None
      <4> QED BY <2>3, <4>1
    <3>2. CASE Arrives(wire, seed) /\ result = Verdict(wire)
      BY <2>1, <2>2, <3>2, ArrivalVerdict
    <3> QED BY <2>1, <3>1, <3>2
  <2>5. ASSUME NEW s \in Seeds, NEW n \in 1..Len(HonestWire(s)) - 1,
               wire = SubSeq(HonestWire(s), 1, n)
        PROVE  result = "Truncated"
    <3> DEFINE z == Len(HonestWire(s))
    <3>a. z = 8 /\ n \in 1..z - 1
      BY <2>3, Zenon
    <3> HIDE DEF z
    <3>1. n \in 0..7 /\ n # 0
      BY <3>a
    <3>2. Verdict(wire) = "Truncated" /\ Len(wire) = n
      BY <2>2, <2>5, <3>1, ShortVerdict
    <3>3. wire # None
      BY <3>1, <3>2 DEF None
    <3> QED BY <2>1, <3>2, <3>3
  <2>6. ASSUME NEW s \in Seeds, Len(wire) > Len(HonestWire(s)),
               SubSeq(wire, 1, Len(HonestWire(s))) = HonestWire(s)
        PROVE  result = "TrailingBytes"
    <3>1. PICK n \in Nat : Len(wire) = n
      BY <2>1, ArrivalIsSequence DEF None
    <3>2. n > 8 /\ SubSeq(wire, 1, 8) = HonestWire(s)
      BY <2>3, <2>6, <3>1
    <3>3. SubSeq(wire, 1, 8) = [i \in 1..8 |-> wire[i]]
      BY <3>1, <3>2
    <3>4. wire[1] = PROOF_FORMAT_MAGIC /\ wire[4] = 2
      BY <2>3, <3>2, <3>3
    <3>5. Verdict(wire) = "TrailingBytes"
      BY <3>1, <3>2, <3>4, LongVerdict
    <3>6. wire # None
      BY <3>1, <3>2 DEF None
    <3> QED BY <2>1, <3>5, <3>6
  <2>7. ASSUME NEW s \in Seeds
        PROVE  /\ (\E n \in 1..Len(HonestWire(s)) - 1 : wire = SubSeq(HonestWire(s), 1, n))
                    => result = "Truncated"
               /\ Len(wire) > Len(HonestWire(s))
                  /\ SubSeq(wire, 1, Len(HonestWire(s))) = HonestWire(s)
                    => result = "TrailingBytes"
    BY <2>5, <2>6, Zenon
  <2> QED BY <2>4, <2>7, Zenon
<1> QED BY <1>1, KnownForever, PTL

(***************************************************************************)
(* The rows the honest prover lays: states, helper words, lags and sums.   *)
(***************************************************************************)
Padded(f, r) ==
  f = [n \in 0..TRACE_ROWS - 1 |-> IF n <= ROUNDS THEN r[n] ELSE PaddedState(f[n - 1])]

(* The recursion that pads a segment has a solution, and what it is.       *)
LEMMA PaddedExists ==
  ASSUME NEW r \in [0..ROUNDS -> States]
  PROVE  \E f : Padded(f, r)
<1> DEFINE N == TRACE_ROWS - 1
           F == [n \in 1..N |-> [s \in States |-> IF n <= ROUNDS THEN r[n] ELSE PaddedState(s)]]
<1>1. N \in Nat /\ ROUNDS \in Nat /\ ROUNDS < N /\ r[0] \in States
  BY BlockSizes
<1>2. \A s \in States : PaddedState(s) \in States
  <2>1. \A s \in States : s[8] \in Word /\ 0 \in Word
    BY ZeroIsWord DEF States
  <2> QED BY <2>1, ShiftedIsState DEF PaddedState
<1>3. F \in [1..N -> [States -> States]]
  BY <1>1, <1>2
<1>4. \A n \in 1..N, s \in States : F[n][s] = IF n <= ROUNDS THEN r[n] ELSE PaddedState(s)
  OBVIOUS
<1> HIDE DEF F, N
<1>5. PICK f : Runs(f, N, States, r[0], F)
  BY <1>1, <1>3, Recursion
<1>6. f \in [0..N -> States] /\ f[0] = r[0] /\ \A n \in 1..N : f[n] = F[n][f[n - 1]]
  BY <1>5 DEF Runs
<1>7. \A n \in 1..N : f[n - 1] \in States
  BY <1>1, <1>6
<1>8. \A n \in 1..N : f[n] = IF n <= ROUNDS THEN r[n] ELSE PaddedState(f[n - 1])
  BY <1>4, <1>6, <1>7
<1>9. f = [n \in 0..N |-> IF n <= ROUNDS THEN r[n] ELSE PaddedState(f[n - 1])]
  BY <1>1, <1>6, <1>8
<1> QED BY <1>9 DEF Padded, N

(* The states of the padding rows follow those of the rounds.              *)
LEMMA PaddedFacts ==
  ASSUME NEW r \in [0..ROUNDS -> States], NEW f, Padded(f, r)
  PROVE  /\ \A n \in 0..TRACE_ROWS - 1 : f[n] \in States
         /\ \A n \in 0..ROUNDS : f[n] = r[n]
         /\ \A n \in ROUNDS + 1..TRACE_ROWS - 1 : f[n] = PaddedState(f[n - 1])
<1> DEFINE T == {n \in Nat : n <= TRACE_ROWS - 1 => f[n] \in States}
<1>1. TRACE_ROWS \in Nat /\ ROUNDS \in Nat /\ TRACE_ROWS > ROUNDS + 1
  BY BlockSizes
<1>2. f = [n \in 0..TRACE_ROWS - 1 |-> IF n <= ROUNDS THEN r[n] ELSE PaddedState(f[n - 1])]
  BY DEF Padded
<1>3. \A n \in 0..ROUNDS : f[n] = r[n]
  BY <1>1, <1>2
<1>4. \A n \in ROUNDS + 1..TRACE_ROWS - 1 : f[n] = PaddedState(f[n - 1])
  BY <1>1, <1>2
<1>5. 0 \in T
  BY <1>1, <1>3
<1>6. ASSUME NEW n \in Nat, n \in T PROVE n + 1 \in T
  <2>1. SUFFICES ASSUME n + 1 <= TRACE_ROWS - 1 PROVE f[n + 1] \in States
    OBVIOUS
  <2>2. CASE n + 1 <= ROUNDS
    BY <1>1, <1>3, <2>2
  <2>3. CASE n + 1 > ROUNDS
    <3> DEFINE p == f[n]
    <3>1. p \in States /\ f[n + 1] = PaddedState(p)
      <4>1. n + 1 \in ROUNDS + 1..TRACE_ROWS - 1 /\ (n + 1) - 1 = n /\ n <= TRACE_ROWS - 1
        BY <1>1, <2>1, <2>3
      <4> QED BY <1>4, <1>6, <4>1
    <3> HIDE DEF p
    <3>2. p[8] \in Word /\ 0 \in Word
      BY <3>1, ZeroIsWord DEF States
    <3> QED BY <3>1, <3>2, ShiftedIsState DEF PaddedState
  <2> QED BY <1>1, <2>2, <2>3
<1>7. Nat \subseteq T
  BY <1>5, <1>6, SetInduction
<1> QED BY <1>1, <1>3, <1>4, <1>7

(* The states, helper words and operands of the honest rows.               *)
StatesOf(s, seg) == CHOOSE f : Padded(f, RoundsOf(s, seg))
HelpersOf(st, w, n) ==
  IF n < ROUNDS
  THEN [W |-> w[n + 1], K |-> K[n + 1], SIGMA0 |-> big_sigma0(st[1]), SIGMA1 |-> big_sigma1(st[5]),
        CH |-> ch(st[5], st[6], st[7]), MAJ |-> maj(st[1], st[2], st[3]),
        T1 |-> Temp1(st, K[n + 1], w[n + 1]), T2 |-> Temp2(st)]
  ELSE IF n = TRACE_ROWS - 1 THEN NoHelpers.helpers ELSE seed_padding_helpers(st).helpers
ScheduleSum(w, n) ==
  IF n < ROUNDS /\ ~(n < BLOCK_WORDS)
  THEN <<small_sigma1(w[n - LAG_SIGMA1]), w[n - LAG_ADDED],
         small_sigma0(w[n - LAG_SIGMA0]), w[n - LAG_LAST]>>
  ELSE <<0, 0, 0, 0>>
Operands(st, h, sched) ==
  [T1 |-> <<st[8], h.SIGMA1, h.CH, h.K, h.W>>, T2 |-> <<h.SIGMA0, h.MAJ>>,
   A |-> <<h.T1, h.T2>>, E |-> <<st[4], h.T1>>, SCHED |-> sched]
SumsOf(st, w, n) ==
  IF n = TRACE_ROWS - 1 THEN PaddingSums(0, 0)
  ELSE Operands(st, HelpersOf(st, w, n), ScheduleSum(w, n))
HonestRow(s, seg, n) ==
  LET st == StatesOf(s, seg)[n]
      w == WordsOf(s, seg)
  IN  AirRow(st, HelpersOf(st, w, n), LagsAt(w, n), SumsOf(st, w, n))

(* The states of a segment's rows: those after the rounds, then padding.   *)
LEMMA StatesFacts ==
  ASSUME NEW s \in Nat, NEW seg \in 1..3
  PROVE  /\ \A n \in 0..TRACE_ROWS - 1 : StatesOf(s, seg)[n] \in States
         /\ \A n \in 0..ROUNDS : StatesOf(s, seg)[n] = RoundsOf(s, seg)[n]
         /\ \A n \in ROUNDS + 1..TRACE_ROWS - 1 :
              StatesOf(s, seg)[n] = PaddedState(StatesOf(s, seg)[n - 1])
<1>1. RoundsOf(s, seg) \in [0..ROUNDS -> States]
  BY TraceFacts DEF RoundsFrom
<1>2. Padded(StatesOf(s, seg), RoundsOf(s, seg))
  BY <1>1, PaddedExists DEF StatesOf
<1> QED BY <1>1, <1>2, PaddedFacts

(* The rows of a segment are the honest ones.                              *)
LEMMA RowsAreHonest ==
  ASSUME NEW s \in Nat, NEW seg \in 1..3, NEW n \in 0..TRACE_ROWS - 1
  PROVE  build_plonky3_air_trace(TraceOf(s, seg))[n] = HonestRow(s, seg, n)
<1> DEFINE st == StatesOf(s, seg)
           w == WordsOf(s, seg)
           padding == IF n = TRACE_ROWS - 1 THEN NoHelpers ELSE seed_padding_helpers(st[n])
<1>1. TRACE_ROWS \in Nat /\ ROUNDS \in Nat /\ TRACE_ROWS > ROUNDS + 1
  BY BlockSizes
<1>2. build_plonky3_air_trace(TraceOf(s, seg))[n]
        = IF n < ROUNDS THEN RoundRow(TraceOf(s, seg), n)
          ELSE AirRow(st[n], padding.helpers, LagsAt(w, n), padding.sums)
  BY DEF build_plonky3_air_trace, StatesOf, Padded, RoundsOf, WordsOf
<1>3. CASE n < ROUNDS
  <2> DEFINE x == st[n]
  <2>1. x = TraceOf(s, seg).round_states[n] /\ w = TraceOf(s, seg).words
    <3>1. n \in 0..ROUNDS
      BY <1>1, <1>3
    <3> QED BY <3>1, StatesFacts DEF RoundsOf, WordsOf
  <2> HIDE DEF x, w
  <2>2. RoundRow(TraceOf(s, seg), n)
          = AirRow(x, [W |-> w[n + 1], K |-> K[n + 1], SIGMA0 |-> big_sigma0(x[1]),
                       SIGMA1 |-> big_sigma1(x[5]), CH |-> ch(x[5], x[6], x[7]),
                       MAJ |-> maj(x[1], x[2], x[3]),
                       T1 |-> Temp1(x, K[n + 1], w[n + 1]), T2 |-> Temp2(x)],
                   LagsAt(w, n),
                   [T1 |-> <<x[8], big_sigma1(x[5]), ch(x[5], x[6], x[7]), K[n + 1], w[n + 1]>>,
                    T2 |-> <<big_sigma0(x[1]), maj(x[1], x[2], x[3])>>,
                    A |-> <<Temp1(x, K[n + 1], w[n + 1]), Temp2(x)>>,
                    E |-> <<x[4], Temp1(x, K[n + 1], w[n + 1])>>,
                    SCHED |-> IF n < BLOCK_WORDS THEN <<0, 0, 0, 0>>
                              ELSE <<small_sigma1(w[n - LAG_SIGMA1]), w[n - LAG_ADDED],
                                     small_sigma0(w[n - LAG_SIGMA0]), w[n - LAG_LAST]>>])
    BY <2>1, Zenon DEF RoundRow
  <2> DEFINE h == HelpersOf(x, w, n)
             sched == IF n < BLOCK_WORDS THEN <<0, 0, 0, 0>>
                      ELSE <<small_sigma1(w[n - LAG_SIGMA1]), w[n - LAG_ADDED],
                             small_sigma0(w[n - LAG_SIGMA0]), w[n - LAG_LAST]>>
  <2>3. h = [W |-> w[n + 1], K |-> K[n + 1], SIGMA0 |-> big_sigma0(x[1]),
             SIGMA1 |-> big_sigma1(x[5]), CH |-> ch(x[5], x[6], x[7]),
             MAJ |-> maj(x[1], x[2], x[3]),
             T1 |-> Temp1(x, K[n + 1], w[n + 1]), T2 |-> Temp2(x)]
    BY <1>3, Zenon DEF HelpersOf
  <2>4. /\ h.W = w[n + 1] /\ h.K = K[n + 1] /\ h.SIGMA0 = big_sigma0(x[1])
        /\ h.SIGMA1 = big_sigma1(x[5]) /\ h.CH = ch(x[5], x[6], x[7])
        /\ h.MAJ = maj(x[1], x[2], x[3]) /\ h.T1 = Temp1(x, K[n + 1], w[n + 1]) /\ h.T2 = Temp2(x)
    BY <2>3
  <2>5. n # TRACE_ROWS - 1 /\ SumsOf(x, w, n) = Operands(x, h, sched)
    <3>1. n # TRACE_ROWS - 1
      BY <1>1, <1>3
    <3>2. ScheduleSum(w, n) = sched
      BY <1>3, Zenon DEF ScheduleSum
    <3> QED BY <3>1, <3>2, Zenon DEF SumsOf
  <2> HIDE DEF h, sched
  <2>6. Operands(x, h, sched)
          = [T1 |-> <<x[8], big_sigma1(x[5]), ch(x[5], x[6], x[7]), K[n + 1], w[n + 1]>>,
             T2 |-> <<big_sigma0(x[1]), maj(x[1], x[2], x[3])>>,
             A |-> <<Temp1(x, K[n + 1], w[n + 1]), Temp2(x)>>,
             E |-> <<x[4], Temp1(x, K[n + 1], w[n + 1])>>, SCHED |-> sched]
    BY <2>4, Zenon DEF Operands
  <2>7. RoundRow(TraceOf(s, seg), n) = AirRow(x, h, LagsAt(w, n), Operands(x, h, sched))
    BY <2>2, <2>3, <2>6, Zenon DEF sched
  <2>8. HonestRow(s, seg, n) = AirRow(x, h, LagsAt(w, n), SumsOf(x, w, n))
    BY Zenon DEF HonestRow, x, h, w
  <2> QED BY <1>2, <1>3, <2>5, <2>7, <2>8, Zenon
<1>4. CASE ~(n < ROUNDS)
  <2> DEFINE x == st[n]
             h == HelpersOf(x, w, n)
  <2>1. h = padding.helpers
    BY <1>4, Zenon DEF HelpersOf
  <2>2. SumsOf(x, w, n) = padding.sums
    <3>1. CASE n = TRACE_ROWS - 1
      BY <3>1 DEF SumsOf, NoHelpers
    <3>2. CASE n # TRACE_ROWS - 1
      <4>1. padding.sums = PaddingSums(x[8], x[4])
            /\ h = [name \in HelperWords |-> IF name = "T1" THEN x[8] ELSE 0]
        <5> HIDE DEF x
        <5>1. h = seed_padding_helpers(x).helpers /\ padding = seed_padding_helpers(x)
          BY <2>1, <3>2 DEF x
        <5> QED BY <5>1 DEF seed_padding_helpers
      <4> HIDE DEF h, x, padding
      <4>2. /\ h.SIGMA1 = 0 /\ h.CH = 0 /\ h.K = 0 /\ h.W = 0 /\ h.SIGMA0 = 0 /\ h.MAJ = 0
            /\ h.T2 = 0 /\ h.T1 = x[8]
        BY <4>1 DEF HelperWords
      <4>3. ScheduleSum(w, n) = <<0, 0, 0, 0>>
        BY <1>4, Zenon DEF ScheduleSum
      <4>4. Operands(x, h, <<0, 0, 0, 0>>) = PaddingSums(x[8], x[4])
        BY <4>2, Zenon DEF Operands, PaddingSums
      <4> QED BY <3>2, <4>1, <4>3, <4>4, Zenon DEF SumsOf, h
    <3> QED BY <3>1, <3>2
  <2> QED BY <1>2, <1>4, <2>1, <2>2, Zenon DEF HonestRow
<1> QED BY <1>3, <1>4

HelpersAreWords(h) == \A name \in HelperWords : h[name] \in Word
Tuple4(q) == <<q[1], q[2], q[3], q[4]>>

(* The limbs of tuples of words.                                           *)
LEMMA LimbsOfSums ==
  /\ \A a, b : EachInLimbs(<<a, b>>) = <<u64_to_limbs(a), u64_to_limbs(b)>>
  /\ \A a, b, c, d : EachInLimbs(<<a, b, c, d>>)
       = <<u64_to_limbs(a), u64_to_limbs(b), u64_to_limbs(c), u64_to_limbs(d)>>
<1>1. ASSUME NEW a, NEW b
      PROVE  EachInLimbs(<<a, b>>) = <<u64_to_limbs(a), u64_to_limbs(b)>>
  BY DEF EachInLimbs
<1>2. ASSUME NEW a, NEW b, NEW c, NEW d
      PROVE  EachInLimbs(<<a, b, c, d>>)
               = <<u64_to_limbs(a), u64_to_limbs(b), u64_to_limbs(c), u64_to_limbs(d)>>
  BY DEF EachInLimbs
<1> QED BY <1>1, <1>2

(* What the carries of a row's sums are and what they bind.                *)
Sums(st, h, q, carries) ==
  /\ constrain_add(<<u64_to_limbs(st[8]), u64_to_limbs(h.SIGMA1), u64_to_limbs(h.CH),
                     u64_to_limbs(h.K), u64_to_limbs(h.W)>>,
                   u64_to_limbs((st[8] + h.SIGMA1 + h.CH + h.K + h.W) % WORDS), carries.T1)
  /\ constrain_add(<<u64_to_limbs(h.SIGMA0), u64_to_limbs(h.MAJ)>>,
                   u64_to_limbs((h.SIGMA0 + h.MAJ) % WORDS), carries.T2)
  /\ constrain_add(<<u64_to_limbs(h.T1), u64_to_limbs(h.T2)>>,
                   u64_to_limbs((h.T1 + h.T2) % WORDS), carries.A)
  /\ constrain_add(<<u64_to_limbs(st[4]), u64_to_limbs(h.T1)>>,
                   u64_to_limbs((st[4] + h.T1) % WORDS), carries.E)
  /\ constrain_add(<<u64_to_limbs(q[1]), u64_to_limbs(q[2]), u64_to_limbs(q[3]),
                     u64_to_limbs(q[4])>>,
                   u64_to_limbs((q[1] + q[2] + q[3] + q[4]) % WORDS), carries.SCHED)
SmallCarries(carries) ==
  /\ \A l \in 1..4 : carries.T1[l] \in 0..4 /\ carries.T2[l] \in 0..1
  /\ \A l \in 1..4 : carries.A[l] \in 0..1 /\ carries.E[l] \in 0..1 /\ carries.SCHED[l] \in 0..3
CarriesOf(sums) == [col \in CarryColumns |-> add_with_carries(EachInLimbs(sums[col]))]

(* The carries the trace builder computes satisfy the five sums of a row,  *)
(* within the widths of their columns.                                     *)
LEMMA OperandsSum ==
  ASSUME NEW st \in States, NEW h, HelpersAreWords(h), NEW q, \A i \in 1..4 : q[i] \in Word,
         NEW carries, carries = CarriesOf(Operands(st, h, Tuple4(q)))
  PROVE  Sums(st, h, q, carries) /\ SmallCarries(carries)
<1>1. /\ st[8] \in Word /\ st[4] \in Word /\ h.SIGMA1 \in Word /\ h.CH \in Word /\ h.K \in Word
      /\ h.W \in Word /\ h.SIGMA0 \in Word /\ h.MAJ \in Word /\ h.T1 \in Word /\ h.T2 \in Word
      /\ q[1] \in Word /\ q[2] \in Word /\ q[3] \in Word /\ q[4] \in Word
  BY DEF States, HelpersAreWords, HelperWords
<1>2. /\ carries.T1 = add_with_carries(EachInLimbs(<<st[8], h.SIGMA1, h.CH, h.K, h.W>>))
      /\ carries.T2 = add_with_carries(EachInLimbs(<<h.SIGMA0, h.MAJ>>))
      /\ carries.A = add_with_carries(EachInLimbs(<<h.T1, h.T2>>))
      /\ carries.E = add_with_carries(EachInLimbs(<<st[4], h.T1>>))
      /\ carries.SCHED = add_with_carries(EachInLimbs(<<q[1], q[2], q[3], q[4]>>))
  BY DEF CarriesOf, Operands, CarryColumns, Tuple4
<1>3. ASSUME NEW a \in Word, NEW b \in Word, NEW c, c = add_with_carries(EachInLimbs(<<a, b>>))
      PROVE  /\ constrain_add(<<u64_to_limbs(a), u64_to_limbs(b)>>,
                              u64_to_limbs((a + b) % WORDS), c)
             /\ \A l \in 1..4 : c[l] \in 0..1
  <2> DEFINE ops == <<u64_to_limbs(a), u64_to_limbs(b)>>
             total == a + b
             k == 2
  <2>1. SumsTo(ops, k, total) /\ c = add_with_carries(ops)
    BY <1>3, TwoWords, LimbsOfSums
  <2>2. k - 1 = 1
    OBVIOUS
  <2> HIDE DEF ops, total, k
  <2>3. /\ constrain_add(ops, u64_to_limbs(total % WORDS), c)
        /\ \A l \in 1..4 : c[l] \in 0..k - 1
    BY <2>1, SumComplete
  <2> QED BY <2>2, <2>3 DEF ops, total
<1>4. /\ constrain_add(<<u64_to_limbs(q[1]), u64_to_limbs(q[2]), u64_to_limbs(q[3]),
                         u64_to_limbs(q[4])>>,
                       u64_to_limbs((q[1] + q[2] + q[3] + q[4]) % WORDS), carries.SCHED)
      /\ \A l \in 1..4 : carries.SCHED[l] \in 0..3
  <2> DEFINE ops == <<u64_to_limbs(q[1]), u64_to_limbs(q[2]), u64_to_limbs(q[3]),
                      u64_to_limbs(q[4])>>
             total == q[1] + q[2] + q[3] + q[4]
             k == 4
  <2>1. SumsTo(ops, k, total)
    BY <1>1, FourWords
  <2>2. carries.SCHED = add_with_carries(ops)
    BY <1>2, LimbsOfSums
  <2>3. k - 1 = 3
    OBVIOUS
  <2> HIDE DEF ops, total, k
  <2>4. /\ constrain_add(ops, u64_to_limbs(total % WORDS), carries.SCHED)
        /\ \A l \in 1..4 : carries.SCHED[l] \in 0..k - 1
    BY <2>1, <2>2, SumComplete
  <2> QED BY <2>3, <2>4 DEF ops, total
<1>5. /\ constrain_add(<<u64_to_limbs(st[8]), u64_to_limbs(h.SIGMA1), u64_to_limbs(h.CH),
                         u64_to_limbs(h.K), u64_to_limbs(h.W)>>,
                       u64_to_limbs((st[8] + h.SIGMA1 + h.CH + h.K + h.W) % WORDS), carries.T1)
      /\ \A l \in 1..4 : carries.T1[l] \in 0..4
  <2> DEFINE ops == <<u64_to_limbs(st[8]), u64_to_limbs(h.SIGMA1), u64_to_limbs(h.CH),
                      u64_to_limbs(h.K), u64_to_limbs(h.W)>>
             total == st[8] + h.SIGMA1 + h.CH + h.K + h.W
             k == 5
  <2>1. SumsTo(ops, k, total)
    BY <1>1, FiveWords
  <2>2. carries.T1 = add_with_carries(ops)
    <3>1. EachInLimbs(<<st[8], h.SIGMA1, h.CH, h.K, h.W>>) = ops
      BY DEF EachInLimbs
    <3> HIDE DEF ops
    <3> QED BY <1>2, <3>1, Zenon
  <2>3. k - 1 = 4
    OBVIOUS
  <2> HIDE DEF ops, total, k
  <2>4. /\ constrain_add(ops, u64_to_limbs(total % WORDS), carries.T1)
        /\ \A l \in 1..4 : carries.T1[l] \in 0..k - 1
    BY <2>1, <2>2, SumComplete
  <2> QED BY <2>3, <2>4 DEF ops, total
<1>6. /\ constrain_add(<<u64_to_limbs(h.SIGMA0), u64_to_limbs(h.MAJ)>>,
                       u64_to_limbs((h.SIGMA0 + h.MAJ) % WORDS), carries.T2)
      /\ \A l \in 1..4 : carries.T2[l] \in 0..1
  BY <1>1, <1>2, <1>3
<1>7. /\ constrain_add(<<u64_to_limbs(h.T1), u64_to_limbs(h.T2)>>,
                       u64_to_limbs((h.T1 + h.T2) % WORDS), carries.A)
      /\ \A l \in 1..4 : carries.A[l] \in 0..1
  BY <1>1, <1>2, <1>3
<1>8. /\ constrain_add(<<u64_to_limbs(st[4]), u64_to_limbs(h.T1)>>,
                       u64_to_limbs((st[4] + h.T1) % WORDS), carries.E)
      /\ \A l \in 1..4 : carries.E[l] \in 0..1
  BY <1>1, <1>2, <1>3
<1>9. Sums(st, h, q, carries)
  BY <1>4, <1>5, <1>6, <1>7, <1>8, Zenon DEF Sums
<1> QED BY <1>4, <1>5, <1>6, <1>7, <1>8, <1>9 DEF SmallCarries

(* The helper words and the lags of an honest row are words.               *)
LEMMA HelpersFacts ==
  ASSUME NEW st \in States, NEW w \in [1..ROUNDS -> Word], NEW n \in 0..TRACE_ROWS - 1
  PROVE  /\ HelpersAreWords(HelpersOf(st, w, n)) /\ DOMAIN HelpersOf(st, w, n) = HelperWords
         /\ LagsAt(w, n) \in [1..LAG_COUNT -> Word]
<1> DEFINE h == HelpersOf(st, w, n)
<1>1. TRACE_ROWS \in Nat /\ ROUNDS \in Nat /\ TRACE_ROWS > ROUNDS + 1 /\ 0 \in Word
  BY BlockSizes, ZeroIsWord
<1>2. HelpersAreWords(h) /\ DOMAIN h = HelperWords
  <2>1. CASE n < ROUNDS
    <3> DEFINE k == K[n + 1]
               x == w[n + 1]
    <3>1. k \in Word /\ x \in Word
      <4>1. n + 1 \in 1..ROUNDS
        BY <1>1, <2>1
      <4> QED BY <4>1, ConstantsAssumption
    <3>2. h = [W |-> x, K |-> k, SIGMA0 |-> big_sigma0(st[1]), SIGMA1 |-> big_sigma1(st[5]),
               CH |-> ch(st[5], st[6], st[7]), MAJ |-> maj(st[1], st[2], st[3]),
               T1 |-> Temp1(st, k, x), T2 |-> Temp2(st)]
      BY <2>1, Zenon DEF HelpersOf
    <3> HIDE DEF h, k, x
    <3>3. /\ Temp1(st, k, x) \in Word /\ Temp2(st) \in Word
          /\ big_sigma0(st[1]) \in Word /\ big_sigma1(st[5]) \in Word
          /\ ch(st[5], st[6], st[7]) \in Word /\ maj(st[1], st[2], st[3]) \in Word
      BY <3>1, TempsAreWords
    <3>4. DOMAIN h = HelperWords
      BY <3>2 DEF HelperWords
    <3>5. /\ h.W \in Word /\ h.K \in Word /\ h.SIGMA0 \in Word /\ h.SIGMA1 \in Word
          /\ h.CH \in Word /\ h.MAJ \in Word /\ h.T1 \in Word /\ h.T2 \in Word
      BY <3>1, <3>2, <3>3
    <3>6. HelpersAreWords(h)
      BY <3>5 DEF HelpersAreWords, HelperWords
    <3> QED BY <3>4, <3>6
  <2>2. CASE ~(n < ROUNDS)
    <3>1. st[8] \in Word
      BY DEF States
    <3>2. h = IF n = TRACE_ROWS - 1 THEN NoHelpers.helpers ELSE seed_padding_helpers(st).helpers
      BY <2>2, Zenon DEF HelpersOf
    <3>3. /\ NoHelpers.helpers = [name \in HelperWords |-> 0]
          /\ seed_padding_helpers(st).helpers
               = [name \in HelperWords |-> IF name = "T1" THEN st[8] ELSE 0]
      BY DEF NoHelpers, seed_padding_helpers
    <3> HIDE DEF h
    <3> QED BY <1>1, <3>1, <3>2, <3>3 DEF HelpersAreWords
  <2> QED BY <2>1, <2>2
<1>3. LagsAt(w, n) \in [1..LAG_COUNT -> Word]
  <2>1. \A lag \in 1..LAG_COUNT : n - lag \in 0..ROUNDS - 1 => n - lag + 1 \in 1..ROUNDS
    BY <1>1
  <2> QED BY <1>1, <2>1 DEF LagsAt
<1> QED BY <1>2, <1>3

LimbsOf(values, names) == [name \in names |-> u64_to_limbs(values[name])]
RowShows(r, st, h, lags) ==
  /\ r.words = RowWords(LimbsOf(st, 1..8), LimbsOf(h, HelperWords))
  /\ r.lags = LimbsOf(lags, 1..LAG_COUNT)

(* What an honest row shows.                                               *)
LEMMA HonestShows ==
  ASSUME NEW s \in Nat, NEW seg \in 1..3, NEW n \in 0..TRACE_ROWS - 1,
         NEW st, st = StatesOf(s, seg)[n], NEW w, w = WordsOf(s, seg),
         NEW h, h = HelpersOf(st, w, n)
  PROVE  /\ st \in States /\ w \in [1..ROUNDS -> Word] /\ HelpersAreWords(h)
         /\ LagsAt(w, n) \in [1..LAG_COUNT -> Word]
         /\ RowShows(HonestRow(s, seg, n), st, h, LagsAt(w, n))
         /\ HonestRow(s, seg, n).carries = CarriesOf(SumsOf(st, w, n))
<1>1. st \in States /\ w \in [1..ROUNDS -> Word]
  BY StatesFacts, TraceFacts DEF Scheduled
<1>2. /\ HelpersAreWords(h) /\ DOMAIN h = HelperWords
      /\ LagsAt(w, n) \in [1..LAG_COUNT -> Word]
  BY <1>1, HelpersFacts
<1> DEFINE lags == LagsAt(w, n)
           sums == SumsOf(st, w, n)
<1>3. HonestRow(s, seg, n) = AirRow(st, h, lags, sums)
  BY Zenon DEF HonestRow
<1> HIDE DEF lags, sums
<1>4. /\ DOMAIN st = 1..8 /\ DOMAIN lags = 1..LAG_COUNT
  BY <1>1, <1>2 DEF States, lags
<1>5. /\ EachInLimbs(st) = LimbsOf(st, 1..8) /\ EachInLimbs(h) = LimbsOf(h, HelperWords)
      /\ EachInLimbs(lags) = LimbsOf(lags, 1..LAG_COUNT)
  BY <1>2, <1>4, Zenon DEF EachInLimbs, LimbsOf
<1>6. /\ RowShows(AirRow(st, h, lags, sums), st, h, lags)
      /\ AirRow(st, h, lags, sums).carries = CarriesOf(sums)
  <2>1. AirRow(st, h, lags, sums)
          = [words |-> RowWords(LimbsOf(st, 1..8), LimbsOf(h, HelperWords)),
             lags |-> LimbsOf(lags, 1..LAG_COUNT), carries |-> CarriesOf(sums)]
    BY <1>5, Zenon DEF AirRow, CarriesOf
  <2> QED BY <2>1 DEF RowShows
<1> QED BY <1>1, <1>2, <1>3, <1>6 DEF lags, sums

(* The helper words of a row after the rounds.                             *)
LEMMA PaddingHelpers ==
  ASSUME NEW st \in States, NEW w, NEW n \in 0..TRACE_ROWS - 1, ~(n < ROUNDS),
         NEW h, h = HelpersOf(st, w, n)
  PROVE  /\ h.W = 0 /\ h.K = 0 /\ h.SIGMA0 = 0 /\ h.SIGMA1 = 0 /\ h.CH = 0 /\ h.MAJ = 0 /\ h.T2 = 0
         /\ n # TRACE_ROWS - 1 => h.T1 = st[8]
<1>1. h = IF n = TRACE_ROWS - 1 THEN NoHelpers.helpers ELSE seed_padding_helpers(st).helpers
  BY Zenon DEF HelpersOf
<1>2. /\ NoHelpers.helpers = [name \in HelperWords |-> 0]
      /\ seed_padding_helpers(st).helpers
           = [name \in HelperWords |-> IF name = "T1" THEN st[8] ELSE 0]
  BY DEF NoHelpers, seed_padding_helpers
<1>3. \/ h = [name \in HelperWords |-> 0] /\ n = TRACE_ROWS - 1
      \/ h = [name \in HelperWords |-> IF name = "T1" THEN st[8] ELSE 0]
  BY <1>1, <1>2
<1> HIDE DEF HelpersOf
<1>4. /\ "W" \in HelperWords /\ "K" \in HelperWords /\ "SIGMA0" \in HelperWords
      /\ "SIGMA1" \in HelperWords /\ "CH" \in HelperWords /\ "MAJ" \in HelperWords
      /\ "T1" \in HelperWords /\ "T2" \in HelperWords
  BY DEF HelperWords
<1> QED BY <1>3, <1>4

(* From an honest row to the next: the registers and the lags shift.       *)
LEMMA HonestNext ==
  ASSUME NEW s \in Nat, NEW seg \in 1..3, NEW n \in 0..TRACE_ROWS - 2,
         NEW st, st = StatesOf(s, seg)[n], NEW w, w = WordsOf(s, seg),
         NEW h, h = HelpersOf(st, w, n)
  PROVE  /\ StatesOf(s, seg)[n + 1] = Shifted(st, h.T1, h.T2)
         /\ h.T1 = (st[8] + h.SIGMA1 + h.CH + h.K + h.W) % WORDS
         /\ h.T2 = (h.SIGMA0 + h.MAJ) % WORDS
         /\ LagsAt(w, n + 1) = advance_lags(LagsAt(w, n), h.W)
<1>1. TRACE_ROWS \in Nat /\ ROUNDS \in Nat /\ TRACE_ROWS > ROUNDS + 1
  BY BlockSizes
<1>2. n \in 0..TRACE_ROWS - 1 /\ n # TRACE_ROWS - 1 /\ n + 1 \in 0..TRACE_ROWS - 1
  BY <1>1
<1>3. st \in States /\ w \in [1..ROUNDS -> Word]
  BY <1>2, HonestShows
<1>4. /\ StatesOf(s, seg)[n + 1] = Shifted(st, h.T1, h.T2)
      /\ h.T1 = (st[8] + h.SIGMA1 + h.CH + h.K + h.W) % WORDS
      /\ h.T2 = (h.SIGMA0 + h.MAJ) % WORDS
  <2>1. CASE n < ROUNDS
    <3> DEFINE k == K[n + 1]
               x == w[n + 1]
    <3>1. h = [W |-> x, K |-> k, SIGMA0 |-> big_sigma0(st[1]), SIGMA1 |-> big_sigma1(st[5]),
               CH |-> ch(st[5], st[6], st[7]), MAJ |-> maj(st[1], st[2], st[3]),
               T1 |-> Temp1(st, k, x), T2 |-> Temp2(st)]
      BY <2>1, Zenon DEF HelpersOf
    <3>2. StatesOf(s, seg)[n + 1] = NextState(st, k, x)
      <4>1. n + 1 \in 0..ROUNDS /\ n \in 0..ROUNDS /\ n + 1 \in 1..ROUNDS /\ (n + 1) - 1 = n
        BY <1>1, <2>1
      <4>2. RoundsFrom(RoundsOf(s, seg), INITIAL_STATE, w)
        BY TraceFacts
      <4>3. RoundsOf(s, seg)[n + 1] = NextState(RoundsOf(s, seg)[n], k, x)
        BY <4>1, <4>2 DEF RoundsFrom
      <4> QED BY <4>1, <4>3, StatesFacts
    <3> HIDE DEF k, x
    <3>3. /\ h.W = x /\ h.K = k /\ h.SIGMA0 = big_sigma0(st[1]) /\ h.SIGMA1 = big_sigma1(st[5])
          /\ h.CH = ch(st[5], st[6], st[7]) /\ h.MAJ = maj(st[1], st[2], st[3])
          /\ h.T1 = Temp1(st, k, x) /\ h.T2 = Temp2(st)
      BY <3>1
    <3> QED BY <3>2, <3>3, Zenon DEF NextState, Temp1, Temp2, WrappingAdd
  <2>2. CASE ~(n < ROUNDS)
    <3>1. /\ h.W = 0 /\ h.K = 0 /\ h.SIGMA0 = 0 /\ h.SIGMA1 = 0 /\ h.CH = 0 /\ h.MAJ = 0
          /\ h.T2 = 0 /\ h.T1 = st[8]
      BY <1>2, <1>3, <2>2, PaddingHelpers
    <3>2. StatesOf(s, seg)[n + 1] = PaddedState(st)
      <4>1. n + 1 \in ROUNDS + 1..TRACE_ROWS - 1 /\ (n + 1) - 1 = n
        BY <1>1, <1>2, <2>2
      <4> QED BY <4>1, StatesFacts
    <3>3. st[8] \in Word /\ 0 \in Word
      BY <1>3, ZeroIsWord DEF States
    <3>4. st[8] % WORDS = st[8] /\ 0 % WORDS = 0 /\ st[8] \in Int
      BY <3>3, WordModulo, WordIsNat
    <3>5. st[8] + 0 + 0 + 0 + 0 = st[8] /\ 0 + 0 = 0
      BY <3>4
    <3> QED BY <3>1, <3>2, <3>4, <3>5 DEF PaddedState
  <2> QED BY <2>1, <2>2
<1>5. LagsAt(w, n + 1) = advance_lags(LagsAt(w, n), h.W)
  <2> DEFINE next == LagsAt(w, n + 1)
             lags == LagsAt(w, n)
  <2>1. h.W = IF n < ROUNDS THEN w[n + 1] ELSE 0
    <3>1. CASE n < ROUNDS
      <4>1. h = [W |-> w[n + 1], K |-> K[n + 1], SIGMA0 |-> big_sigma0(st[1]),
                 SIGMA1 |-> big_sigma1(st[5]), CH |-> ch(st[5], st[6], st[7]),
                 MAJ |-> maj(st[1], st[2], st[3]),
                 T1 |-> Temp1(st, K[n + 1], w[n + 1]), T2 |-> Temp2(st)]
        BY <3>1, Zenon DEF HelpersOf
      <4> QED BY <3>1, <4>1
    <3>2. CASE ~(n < ROUNDS)
      BY <1>2, <1>3, <3>2, PaddingHelpers
    <3> QED BY <3>1, <3>2
  <2>2. ASSUME NEW lag \in 1..LAG_COUNT
        PROVE  next[lag] = IF lag = 1 THEN h.W ELSE lags[lag - 1]
    <3>1. next[lag] = IF n + 1 - lag \in 0..ROUNDS - 1 THEN w[n + 1 - lag + 1] ELSE 0
      BY DEF LagsAt
    <3>2. CASE lag = 1
      <4>1. n + 1 - lag = n /\ (n \in 0..ROUNDS - 1 <=> n < ROUNDS)
        BY <1>1, <3>2
      <4> QED BY <2>1, <3>1, <3>2, <4>1
    <3>3. CASE lag # 1
      <4>1. lag - 1 \in 1..LAG_COUNT
        BY <3>3, BlockSizes
      <4>2. lags[lag - 1] = IF n - (lag - 1) \in 0..ROUNDS - 1 THEN w[n - (lag - 1) + 1] ELSE 0
        BY <4>1 DEF LagsAt
      <4>3. n + 1 - lag = n - (lag - 1)
        OBVIOUS
      <4> QED BY <3>1, <3>3, <4>2, <4>3
    <3> QED BY <3>2, <3>3
  <2>3. next = [lag \in 1..LAG_COUNT |-> next[lag]]
    BY DEF LagsAt
  <2> HIDE DEF next, lags
  <2>4. next = advance_lags(lags, h.W)
    BY <2>2, <2>3 DEF advance_lags
  <2> QED BY <2>4 DEF next, lags
<1> QED BY <1>4, <1>5

(* The operands of the schedule's sum are words.                           *)
LEMMA ScheduleWords ==
  ASSUME NEW w \in [1..ROUNDS -> Word], NEW n \in 0..TRACE_ROWS - 1
  PROVE  /\ \A i \in 1..4 : ScheduleSum(w, n)[i] \in Word
         /\ ScheduleSum(w, n) = Tuple4(ScheduleSum(w, n))
<1>1. ROUNDS \in Nat /\ 0 \in Word
  BY BlockSizes, ZeroIsWord
<1>2. CASE n < ROUNDS /\ ~(n < BLOCK_WORDS)
  <2> DEFINE p == w[n - LAG_SIGMA1]
             q == w[n - LAG_ADDED]
             x == w[n - LAG_SIGMA0]
             y == w[n - LAG_LAST]
  <2>1. /\ n - LAG_SIGMA1 \in 1..ROUNDS /\ n - LAG_ADDED \in 1..ROUNDS
        /\ n - LAG_SIGMA0 \in 1..ROUNDS /\ n - LAG_LAST \in 1..ROUNDS
    BY <1>2, BlockSizes
  <2>2. p \in Word /\ q \in Word /\ x \in Word /\ y \in Word
    BY <2>1
  <2>3. ScheduleSum(w, n) = <<small_sigma1(p), q, small_sigma0(x), y>>
    BY <1>2, Zenon DEF ScheduleSum
  <2> HIDE DEF p, q, x, y
  <2>4. small_sigma1(p) \in Word /\ small_sigma0(x) \in Word
    BY <2>2, SmallSigma0IsWord, SmallSigma1IsWord
  <2> QED BY <2>2, <2>3, <2>4 DEF Tuple4
<1>3. CASE ~(n < ROUNDS /\ ~(n < BLOCK_WORDS))
  <2>1. ScheduleSum(w, n) = <<0, 0, 0, 0>>
    BY <1>3, Zenon DEF ScheduleSum
  <2> QED BY <1>1, <2>1 DEF Tuple4
<1> QED BY <1>2, <1>3

(* The sums of an honest row.                                              *)
LEMMA HonestSums ==
  ASSUME NEW s \in Nat, NEW seg \in 1..3, NEW n \in 0..TRACE_ROWS - 1,
         NEW st, st = StatesOf(s, seg)[n], NEW w, w = WordsOf(s, seg),
         NEW h, h = HelpersOf(st, w, n), NEW q, q = ScheduleSum(w, n)
  PROVE  /\ SmallCarries(HonestRow(s, seg, n).carries)
         /\ n # TRACE_ROWS - 1 => Sums(st, h, q, HonestRow(s, seg, n).carries)
<1> DEFINE carries == HonestRow(s, seg, n).carries
<1>1. /\ st \in States /\ w \in [1..ROUNDS -> Word] /\ HelpersAreWords(h)
      /\ carries = CarriesOf(SumsOf(st, w, n))
  BY HonestShows
<1>2. (\A i \in 1..4 : q[i] \in Word) /\ q = Tuple4(q)
  BY <1>1, ScheduleWords
<1> HIDE DEF carries
<1>3. CASE n # TRACE_ROWS - 1
  <2>1. carries = CarriesOf(Operands(st, h, Tuple4(q)))
    BY <1>1, <1>2, <1>3, Zenon DEF SumsOf
  <2> QED BY <1>1, <1>2, <2>1, OperandsSum DEF carries
<1>4. CASE n = TRACE_ROWS - 1
  <2> DEFINE z == [i \in 1..8 |-> 0]
             hz == [name \in HelperWords |-> 0]
             qz == [i \in 1..4 |-> 0]
  <2>1. z \in States /\ HelpersAreWords(hz) /\ \A i \in 1..4 : qz[i] \in Word
    BY ZeroIsWord DEF States, HelpersAreWords
  <2>2. Operands(z, hz, Tuple4(qz)) = PaddingSums(0, 0)
    <3>1. /\ hz.SIGMA1 = 0 /\ hz.CH = 0 /\ hz.K = 0 /\ hz.W = 0 /\ hz.SIGMA0 = 0 /\ hz.MAJ = 0
          /\ hz.T2 = 0 /\ hz.T1 = 0 /\ z[8] = 0 /\ z[4] = 0 /\ Tuple4(qz) = <<0, 0, 0, 0>>
      BY DEF HelperWords, Tuple4
    <3> HIDE DEF z, hz, qz
    <3> QED BY <3>1, Zenon DEF Operands, PaddingSums
  <2>3. carries = CarriesOf(Operands(z, hz, Tuple4(qz)))
    BY <1>1, <1>4, <2>2, Zenon DEF SumsOf
  <2> HIDE DEF z, hz, qz
  <2>4. SmallCarries(carries)
    BY <2>1, <2>3, OperandsSum
  <2> QED BY <1>4, <2>4 DEF carries
<1> QED BY <1>3, <1>4

(***************************************************************************)
(* The constraints of an honest row, one group after another.              *)
(***************************************************************************)
LEMMA PrepFacts ==
  ASSUME NEW seg \in 1..3, NEW n \in 0..TRACE_ROWS - 1, NEW prep,
         prep = PrepRow(verifier_template_blocks, seg, n)
  PROVE  /\ prep.start <=> n = 0
         /\ prep.transition <=> n < TRACE_ROWS - 1 /\ n # ROUNDS
         /\ prep.round <=> n < ROUNDS
         /\ prep.fixedInitW \/ prep.payload # 0 => n < ROUNDS
         /\ prep.commitFinal <=> seg = 1 /\ n = ROUNDS
         /\ prep.deriveFinal <=> seg = 2 /\ n = ROUNDS
         /\ prep.hashFinal <=> seg = 3 /\ n = ROUNDS
         /\ prep.state = EachInLimbs(INITIAL_STATE)
<1> DEFINE blocks == verifier_template_blocks
           payload == n - PAYLOAD_WORD_START + 1
           isPayload == payload \in 1..PAYLOAD_WORD_COUNT
           fixed == n < BLOCK_WORDS /\ ~isPayload
<1>1. /\ BLOCK_WORDS \in Nat /\ ROUNDS \in Nat /\ TRACE_ROWS \in Nat
      /\ PAYLOAD_WORD_START \in Nat /\ PAYLOAD_WORD_COUNT \in 1..4
      /\ BLOCK_WORDS >= PAYLOAD_WORD_START + PAYLOAD_WORD_COUNT + 2
      /\ ROUNDS > BLOCK_WORDS /\ TRACE_ROWS > ROUNDS + 1 /\ n \in Nat /\ n <= TRACE_ROWS - 1
  BY BlockSizes
<1>2. seg <= 3
  OBVIOUS
<1> HIDE DEF blocks
<1>3. /\ prep.start = (n = 0) /\ prep.round = (n < ROUNDS)
      /\ prep.transition = (n + 1 < TRACE_ROWS /\ n # ROUNDS)
      /\ prep.payload = (IF isPayload THEN payload ELSE 0) /\ prep.fixedInitW = fixed
      /\ prep.commitFinal = (seg = 1 /\ n = ROUNDS)
      /\ prep.deriveFinal = (seg = 2 /\ n = ROUNDS)
      /\ prep.hashFinal = (seg = 3 /\ n = ROUNDS)
      /\ prep.state = EachInLimbs(INITIAL_STATE)
  BY <1>2 DEF PrepRow, InstanceRow, blocks
<1>4. prep.fixedInitW \/ prep.payload # 0 => n < ROUNDS
  <2>1. fixed \/ isPayload => n < ROUNDS
    BY <1>1
  <2>2. prep.fixedInitW \/ prep.payload # 0 => fixed \/ isPayload
    BY <1>3
  <2> QED BY <2>1, <2>2
<1>5. n + 1 < TRACE_ROWS <=> n < TRACE_ROWS - 1
  BY <1>1
<1> HIDE DEF payload, isPayload, fixed
<1> QED BY <1>3, <1>4, <1>5

(* The words of an honest row.                                             *)
HonestWords(x, st, h) ==
  /\ st \in States /\ HelpersAreWords(h)
  /\ x = RowWords(LimbsOf(st, 1..8), LimbsOf(h, HelperWords))

(* The columns of an honest row, one by one.                               *)
LEMMA WordFacts ==
  ASSUME NEW x, NEW st, NEW h, HonestWords(x, st, h)
  PROVE  /\ x.A = u64_to_limbs(st[1]) /\ x.B = u64_to_limbs(st[2]) /\ x.C = u64_to_limbs(st[3])
         /\ x.D = u64_to_limbs(st[4]) /\ x.E = u64_to_limbs(st[5]) /\ x.F = u64_to_limbs(st[6])
         /\ x.G = u64_to_limbs(st[7]) /\ x.H = u64_to_limbs(st[8])
         /\ x.W = u64_to_limbs(h.W) /\ x.K = u64_to_limbs(h.K)
         /\ x.SIGMA0 = u64_to_limbs(h.SIGMA0) /\ x.SIGMA1 = u64_to_limbs(h.SIGMA1)
         /\ x.CH = u64_to_limbs(h.CH) /\ x.MAJ = u64_to_limbs(h.MAJ)
         /\ x.T1 = u64_to_limbs(h.T1) /\ x.T2 = u64_to_limbs(h.T2)
         /\ \A i \in 1..8 : StateOf(x)[i] = u64_to_limbs(st[i]) /\ st[i] \in Word
         /\ h.W \in Word /\ h.K \in Word /\ h.T1 \in Word /\ h.T2 \in Word
<1> DEFINE a == LimbsOf(st, 1..8)
           b == LimbsOf(h, HelperWords)
<1>1. /\ a[1] = u64_to_limbs(st[1]) /\ a[2] = u64_to_limbs(st[2]) /\ a[3] = u64_to_limbs(st[3])
      /\ a[4] = u64_to_limbs(st[4]) /\ a[5] = u64_to_limbs(st[5]) /\ a[6] = u64_to_limbs(st[6])
      /\ a[7] = u64_to_limbs(st[7]) /\ a[8] = u64_to_limbs(st[8])
  BY DEF LimbsOf
<1>2. /\ b.W = u64_to_limbs(h.W) /\ b.K = u64_to_limbs(h.K)
      /\ b.SIGMA0 = u64_to_limbs(h.SIGMA0) /\ b.SIGMA1 = u64_to_limbs(h.SIGMA1)
      /\ b.CH = u64_to_limbs(h.CH) /\ b.MAJ = u64_to_limbs(h.MAJ)
      /\ b.T1 = u64_to_limbs(h.T1) /\ b.T2 = u64_to_limbs(h.T2)
  BY DEF LimbsOf, HelperWords
<1>3. x = RowWords(a, b)
  BY DEF HonestWords
<1> HIDE DEF a, b
<1>4. /\ x.A = a[1] /\ x.B = a[2] /\ x.C = a[3] /\ x.D = a[4]
      /\ x.E = a[5] /\ x.F = a[6] /\ x.G = a[7] /\ x.H = a[8]
      /\ x.W = b.W /\ x.K = b.K /\ x.SIGMA0 = b.SIGMA0 /\ x.SIGMA1 = b.SIGMA1
      /\ x.CH = b.CH /\ x.MAJ = b.MAJ /\ x.T1 = b.T1 /\ x.T2 = b.T2
  BY <1>3 DEF RowWords
<1>5. /\ StateOf(x)[1] = x.A /\ StateOf(x)[2] = x.B /\ StateOf(x)[3] = x.C /\ StateOf(x)[4] = x.D
      /\ StateOf(x)[5] = x.E /\ StateOf(x)[6] = x.F /\ StateOf(x)[7] = x.G /\ StateOf(x)[8] = x.H
  BY DEF StateOf
<1>6. ASSUME NEW i \in 1..8
      PROVE  StateOf(x)[i] = u64_to_limbs(st[i]) /\ st[i] \in Word
  <2>1. st[i] \in Word
    BY DEF HonestWords, States
  <2>2. i = 1 \/ i = 2 \/ i = 3 \/ i = 4 \/ i = 5 \/ i = 6 \/ i = 7 \/ i = 8
    OBVIOUS
  <2> QED BY <1>1, <1>4, <1>5, <2>1, <2>2
<1>7. h.W \in Word /\ h.K \in Word /\ h.T1 \in Word /\ h.T2 \in Word
  BY DEF HonestWords, HelpersAreWords, HelperWords
<1> QED BY <1>1, <1>2, <1>4, <1>6, <1>7

(* All ranged words and lags have bits.                                    *)
LEMMA HonestRanges ==
  ASSUME NEW a, NEW st, NEW h, HonestWords(a.words, st, h),
         NEW lags \in [1..LAG_COUNT -> Word], a.lags = LimbsOf(lags, 1..LAG_COUNT)
  PROVE  RangesConstrained(a)
<1> DEFINE x == a.words
<1>1. /\ x.D = u64_to_limbs(st[4]) /\ x.H = u64_to_limbs(st[8])
      /\ x.W = u64_to_limbs(h.W) /\ x.K = u64_to_limbs(h.K)
      /\ x.T1 = u64_to_limbs(h.T1) /\ x.T2 = u64_to_limbs(h.T2)
      /\ st[4] \in Word /\ st[8] \in Word
      /\ h.W \in Word /\ h.K \in Word /\ h.T1 \in Word /\ h.T2 \in Word
  BY WordFacts
<1> HIDE DEF x
<1>2. \A name \in RANGED_WORDS : HasBits(x[name])
  BY <1>1, WordsAreLimbs DEF RANGED_WORDS
<1>3. \A lag \in 1..LAG_COUNT : HasBits(a.lags[lag])
  <2>1. \A lag \in 1..LAG_COUNT : a.lags[lag] = u64_to_limbs(lags[lag]) /\ lags[lag] \in Word
    BY DEF LimbsOf
  <2> QED BY <2>1, WordsAreLimbs
<1>4. LAG_SIGMA1 + 1 \in 1..LAG_COUNT /\ LAG_SIGMA0 + 1 \in 1..LAG_COUNT
  BY BlockSizes
<1> QED BY <1>2, <1>3, <1>4 DEF RangesConstrained, x

(* The words computed from bits are what the bits give.                    *)
LEMMA HonestRound ==
  ASSUME NEW st, NEW w, NEW n \in Nat, NEW h, h = HelpersOf(st, w, n), NEW x, HonestWords(x, st, h),
         NEW prep, prep.round => n < ROUNDS
  PROVE  RoundConstrained(x, prep)
<1>1. SUFFICES ASSUME n < ROUNDS
               PROVE  /\ \A name \in BitWords : HasBits(x[name])
                      /\ x.SIGMA0 = BigSigma0Limbs(limbs_to_u64(x.A))
                      /\ x.SIGMA1 = BigSigma1Limbs(limbs_to_u64(x.E))
                      /\ x.CH = ChLimbs(limbs_to_u64(x.E), limbs_to_u64(x.F), limbs_to_u64(x.G))
                      /\ x.MAJ = MajLimbs(limbs_to_u64(x.A), limbs_to_u64(x.B), limbs_to_u64(x.C))
  BY DEF RoundConstrained
<1>2. /\ x.A = u64_to_limbs(st[1]) /\ x.B = u64_to_limbs(st[2]) /\ x.C = u64_to_limbs(st[3])
      /\ x.E = u64_to_limbs(st[5]) /\ x.F = u64_to_limbs(st[6]) /\ x.G = u64_to_limbs(st[7])
      /\ x.SIGMA0 = u64_to_limbs(h.SIGMA0) /\ x.SIGMA1 = u64_to_limbs(h.SIGMA1)
      /\ x.CH = u64_to_limbs(h.CH) /\ x.MAJ = u64_to_limbs(h.MAJ)
  BY WordFacts
<1>3. st[1] \in Word /\ st[2] \in Word /\ st[3] \in Word /\ st[5] \in Word /\ st[6] \in Word
      /\ st[7] \in Word
  BY DEF HonestWords, States
<1>4. /\ h.SIGMA0 = big_sigma0(st[1]) /\ h.SIGMA1 = big_sigma1(st[5])
      /\ h.CH = ch(st[5], st[6], st[7]) /\ h.MAJ = maj(st[1], st[2], st[3])
  <2>1. h = [W |-> w[n + 1], K |-> K[n + 1], SIGMA0 |-> big_sigma0(st[1]),
             SIGMA1 |-> big_sigma1(st[5]), CH |-> ch(st[5], st[6], st[7]),
             MAJ |-> maj(st[1], st[2], st[3]),
             T1 |-> Temp1(st, K[n + 1], w[n + 1]), T2 |-> Temp2(st)]
    BY <1>1, Zenon DEF HelpersOf
  <2> QED BY <2>1
<1>5. /\ limbs_to_u64(x.A) = st[1] /\ limbs_to_u64(x.B) = st[2] /\ limbs_to_u64(x.C) = st[3]
      /\ limbs_to_u64(x.E) = st[5] /\ limbs_to_u64(x.F) = st[6] /\ limbs_to_u64(x.G) = st[7]
  BY <1>2, <1>3, WordsAreLimbs
<1>6. \A name \in BitWords : HasBits(x[name])
  BY <1>2, <1>3, WordsAreLimbs DEF BitWords
<1>7. /\ BigSigma0Limbs(st[1]) = u64_to_limbs(big_sigma0(st[1]))
      /\ BigSigma1Limbs(st[5]) = u64_to_limbs(big_sigma1(st[5]))
      /\ ChLimbs(st[5], st[6], st[7]) = u64_to_limbs(ch(st[5], st[6], st[7]))
      /\ MajLimbs(st[1], st[2], st[3]) = u64_to_limbs(maj(st[1], st[2], st[3]))
  BY <1>3, BigSigma0IsWord, BigSigma1IsWord, ChIsWord, MajIsWord
<1> QED BY <1>2, <1>4, <1>5, <1>6, <1>7, Zenon

(* The known words of the block and the payload.                           *)
LEMMA HonestBindings ==
  ASSUME NEW s \in Nat, NEW seg \in 1..3, NEW n \in 0..TRACE_ROWS - 1,
         NEW prep, prep = PrepRow(verifier_template_blocks, seg, n),
         NEW st, NEW w, w = WordsOf(s, seg), NEW h, h = HelpersOf(st, w, n),
         NEW x, HonestWords(x, st, h)
  PROVE  /\ FixedWordsBound(x, prep)
         /\ PayloadBound(x, EachInLimbs(payload_words(s)), EachInLimbs(DerivedKey(s)), prep)
<1>1. /\ x.W = u64_to_limbs(h.W) /\ x.K = u64_to_limbs(h.K) /\ st \in States
  BY WordFacts DEF HonestWords
<1>2. /\ prep.round <=> n < ROUNDS
      /\ prep.fixedInitW \/ prep.payload # 0 => n < ROUNDS
  BY PrepFacts
<1>3. CASE ~(n < ROUNDS)
  <2>1. x.W = ZeroLimbs
    <3>1. h.W = 0
      BY <1>1, <1>3, PaddingHelpers
    <3> QED BY <1>1, <3>1, ZeroIsWord
  <2> QED BY <1>2, <1>3, <2>1 DEF FixedWordsBound, PayloadBound
<1>4. CASE n < ROUNDS
  <2>1. n \in 0..ROUNDS - 1 /\ n + 1 \in 1..ROUNDS
    BY <1>4, BlockSizes
  <2>2. h.W = w[n + 1] /\ h.K = K[n + 1]
    <3>1. h = [W |-> w[n + 1], K |-> K[n + 1], SIGMA0 |-> big_sigma0(st[1]),
               SIGMA1 |-> big_sigma1(st[5]), CH |-> ch(st[5], st[6], st[7]),
               MAJ |-> maj(st[1], st[2], st[3]),
               T1 |-> Temp1(st, K[n + 1], w[n + 1]), T2 |-> Temp2(st)]
      BY <1>4, Zenon DEF HelpersOf
    <3> QED BY <3>1
  <2>3. /\ prep.round /\ prep.K = u64_to_limbs(K[n + 1])
        /\ prep.hashSegment <=> seg = 3
        /\ prep.payload # 0 =>
             /\ prep.payload \in 1..PAYLOAD_WORD_COUNT
             /\ n + 1 = PAYLOAD_WORD_START + prep.payload /\ n + 1 \in 1..BLOCK_WORDS
        /\ prep.fixedInitW =>
             n + 1 \in 1..BLOCK_WORDS /\ prep.W = u64_to_limbs(BlockOf(s, seg)[n + 1])
    BY <2>1, PrepOfRound
  <2>4. n + 1 \in 1..BLOCK_WORDS => w[n + 1] = BlockOf(s, seg)[n + 1]
    BY TraceFacts DEF Scheduled
  <2>5. FixedWordsBound(x, prep)
    BY <1>1, <2>2, <2>3, <2>4 DEF FixedWordsBound
  <2>6. PayloadBound(x, EachInLimbs(payload_words(s)), EachInLimbs(DerivedKey(s)), prep)
    <3>1. SUFFICES ASSUME prep.payload # 0
                   PROVE  x.W = (IF prep.hashSegment THEN EachInLimbs(DerivedKey(s))
                                 ELSE EachInLimbs(payload_words(s)))[prep.payload]
      BY DEF PayloadBound
    <3> DEFINE i == prep.payload
    <3>2. i \in 1..PAYLOAD_WORD_COUNT /\ n + 1 = PAYLOAD_WORD_START + i /\ n + 1 \in 1..BLOCK_WORDS
      BY <2>3, <3>1
    <3> HIDE DEF i
    <3>3. h.W = PayloadOf(s, seg)[i]
      BY <2>2, <2>4, <3>2, PayloadIsRead
    <3>4. DOMAIN PayloadOf(s, seg) = 1..PAYLOAD_WORD_COUNT
      BY PayloadOfFacts DEF Payloads
    <3>5. EachInLimbs(PayloadOf(s, seg))[i] = u64_to_limbs(PayloadOf(s, seg)[i])
      BY <3>2, <3>4 DEF EachInLimbs
    <3>6. (IF prep.hashSegment THEN EachInLimbs(DerivedKey(s)) ELSE EachInLimbs(payload_words(s)))
            = EachInLimbs(PayloadOf(s, seg))
      BY <2>3 DEF PayloadOf
    <3> QED BY <1>1, <3>3, <3>5, <3>6 DEF i
  <2> QED BY <2>5, <2>6
<1> QED BY <1>3, <1>4

(* The first row holds the initial state; the row after the rounds gives   *)
(* the public values.                                                      *)
LEMMA HonestEnds ==
  ASSUME NEW s \in Nat, NEW seg \in 1..3, NEW n \in 0..TRACE_ROWS - 1,
         NEW prep, prep = PrepRow(verifier_template_blocks, seg, n),
         NEW st, st = StatesOf(s, seg)[n], NEW h, NEW x, HonestWords(x, st, h)
  PROVE  StartBound(x, prep) /\ PublicBound(x, prep, public_values_from_statement(Claim(s)))
<1>1. \A i \in 1..8 : StateOf(x)[i] = u64_to_limbs(st[i]) /\ st[i] \in Word
  BY WordFacts
<1>2. /\ prep.start <=> n = 0
      /\ prep.commitFinal <=> seg = 1 /\ n = ROUNDS
      /\ prep.hashFinal <=> seg = 3 /\ n = ROUNDS
      /\ prep.state = EachInLimbs(INITIAL_STATE)
  BY PrepFacts
<1>3. ROUNDS \in Nat /\ n \in Nat
  BY BlockSizes
<1>4. n = 0 => st = INITIAL_STATE
  <2>1. RoundsOf(s, seg)[0] = INITIAL_STATE
    BY TraceFacts DEF RoundsFrom
  <2> QED BY <1>3, <2>1, StatesFacts
<1>5. n = ROUNDS => st = RoundsOf(s, seg)[ROUNDS]
  BY <1>3, StatesFacts
<1>6. StartBound(x, prep)
  <2>1. \A i \in 1..8 : EachInLimbs(INITIAL_STATE)[i] = u64_to_limbs(INITIAL_STATE[i])
    BY InitialState DEF EachInLimbs, States
  <2> QED BY <1>1, <1>2, <1>4, <2>1 DEF StartBound
<1> DEFINE honest == public_values_from_statement(Claim(s))
<1>7. \A i \in 1..8 : /\ honest[i] = RoundsOf(s, 1)[ROUNDS][i] % P
                      /\ honest[8 + i] = RoundsOf(s, 3)[ROUNDS][i] % P
  BY StatementValues DEF Claim
<1> HIDE DEF honest
<1>8. \A i \in 1..8 : pack_word_from_limbs(StateOf(x)[i]) = st[i] % P
  BY <1>1, WordsAreLimbs DEF pack_word_from_limbs
<1>9. PublicBound(x, prep, honest)
  BY <1>2, <1>5, <1>7, <1>8 DEF PublicBound
<1> QED BY <1>6, <1>9 DEF honest

(* Carries within their columns.                                           *)
LEMMA CarriesFit ==
  ASSUME NEW c
  PROVE  /\ (\A l \in 1..4 : c[l] \in 0..4) => CarriesWithin(c, "T1", 4)
         /\ \A col \in {"T1", "T2", "A", "E"} :
              (\A l \in 1..4 : c[l] \in 0..1) => CarriesWithin(c, col, 1)
         /\ (\A l \in 1..4 : c[l] \in 0..4) => CarriesWithin(c, "T1", 1)
         /\ (\A l \in 1..4 : c[l] \in 0..3) => CarriesWithin(c, "SCHED", 3)
<1>1. /\ Pow2[carry_bit_width("T1")] - 1 = 7 /\ Pow2[carry_bit_width("T2")] - 1 = 1
      /\ Pow2[carry_bit_width("A")] - 1 = 1 /\ Pow2[carry_bit_width("E")] - 1 = 1
      /\ Pow2[carry_bit_width("SCHED")] - 1 = 3
  BY SmallPowers DEF carry_bit_width
<1>2. /\ \A k : k \in 0..4 => k \in 0..7 /\ k <= 4
      /\ \A k : k \in 0..1 => k \in 0..7 /\ k <= 4
  OBVIOUS
<1>3. 1 # 4 /\ 3 # 4
  OBVIOUS
<1>4. (\A l \in 1..4 : c[l] \in 0..4) => CarriesWithin(c, "T1", 4) /\ CarriesWithin(c, "T1", 1)
  BY <1>1, <1>2 DEF CarriesWithin, constrain_carry_max, LIMBS_PER_WORD
<1>5. ASSUME NEW col \in {"T1", "T2", "A", "E"}, \A l \in 1..4 : c[l] \in 0..1
      PROVE  CarriesWithin(c, col, 1)
  <2>1. col = "T1" \/ col = "T2" \/ col = "A" \/ col = "E"
    OBVIOUS
  <2>2. Pow2[carry_bit_width(col)] - 1 \in {1, 7}
    BY <1>1, <2>1
  <2>3. \A l \in 1..4 : c[l] \in 0..Pow2[carry_bit_width(col)] - 1
    BY <1>2, <1>5, <2>2
  <2> QED BY <1>3, <2>3 DEF CarriesWithin, constrain_carry_max, LIMBS_PER_WORD
<1>6. (\A l \in 1..4 : c[l] \in 0..3) => CarriesWithin(c, "SCHED", 3)
  BY <1>1, <1>3 DEF CarriesWithin, constrain_carry_max, LIMBS_PER_WORD
<1> QED BY <1>4, <1>5, <1>6

(* The operands of the schedule that the constraints read from the lags.   *)
LEMMA HonestSchedule ==
  ASSUME NEW s \in Nat, NEW seg \in 1..3, NEW n \in 0..ROUNDS - 1, n + 1 > BLOCK_WORDS,
         NEW w, w = WordsOf(s, seg), NEW lags, lags = LimbsOf(LagsAt(w, n), 1..LAG_COUNT),
         NEW q, q = ScheduleSum(w, n)
  PROVE  /\ ScheduleOperands(lags) = <<u64_to_limbs(q[1]), u64_to_limbs(q[2]),
                                       u64_to_limbs(q[3]), u64_to_limbs(q[4])>>
         /\ w[n + 1] = (q[1] + q[2] + q[3] + q[4]) % WORDS
<1> DEFINE p == w[n - LAG_SIGMA1]
           y == w[n - LAG_ADDED]
           x == w[n - LAG_SIGMA0]
           z == w[n - LAG_LAST]
<1>1. /\ w \in [1..ROUNDS -> Word] /\ Scheduled(w, BlockOf(s, seg))
  BY TraceFacts DEF Scheduled
<1>2. /\ n < ROUNDS /\ ~(n < BLOCK_WORDS) /\ n + 1 \in BLOCK_WORDS + 1..ROUNDS
  BY BlockSizes
<1>3. \A lag \in 1..BLOCK_WORDS - 1 :
        /\ n - lag \in 1..ROUNDS /\ lag + 1 \in 1..LAG_COUNT
        /\ n - (lag + 1) \in 0..ROUNDS - 1 /\ n - (lag + 1) + 1 = n - lag
        /\ (n + 1) - lag - 1 = n - lag
  BY <1>2, BlockSizes
<1>4. \A lag \in 1..BLOCK_WORDS - 1 :
        lags[lag + 1] = u64_to_limbs(w[n - lag]) /\ w[n - lag] \in Word
  <2>1. ASSUME NEW lag \in 1..BLOCK_WORDS - 1
        PROVE  lags[lag + 1] = u64_to_limbs(w[n - lag]) /\ w[n - lag] \in Word
    <3> DEFINE m == lag + 1
    <3>1. /\ m \in 1..LAG_COUNT /\ n - m \in 0..ROUNDS - 1
          /\ n - m + 1 = n - lag /\ n - lag \in 1..ROUNDS
      BY <1>3
    <3> HIDE DEF m
    <3>2. lags[m] = u64_to_limbs(LagsAt(w, n)[m])
      BY <3>1 DEF LimbsOf
    <3>3. LagsAt(w, n)[m] = w[n - lag]
      BY <3>1 DEF LagsAt
    <3> QED BY <1>1, <3>1, <3>2, <3>3 DEF m
  <2> QED BY <2>1
<1>5. LAG_LAST \in 1..BLOCK_WORDS - 1
  BY BlockSizes
<1>6. /\ lags[LAG_SIGMA1 + 1] = u64_to_limbs(p) /\ lags[LAG_ADDED + 1] = u64_to_limbs(y)
      /\ lags[LAG_SIGMA0 + 1] = u64_to_limbs(x) /\ lags[LAG_LAST + 1] = u64_to_limbs(z)
      /\ p \in Word /\ x \in Word
  BY <1>4, <1>5, BlockSizes
<1>7. q = <<small_sigma1(p), y, small_sigma0(x), z>>
  BY <1>2, Zenon DEF ScheduleSum
<1>8. w[n + 1] = (small_sigma1(p) + y + small_sigma0(x) + z) % WORDS
  <2>1. w[n + 1] = ScheduleWord(w, n + 1)
    BY <1>1, <1>2 DEF Scheduled
  <2>2. /\ (n + 1) - LAG_SIGMA1 - 1 = n - LAG_SIGMA1 /\ (n + 1) - LAG_ADDED - 1 = n - LAG_ADDED
        /\ (n + 1) - LAG_SIGMA0 - 1 = n - LAG_SIGMA0 /\ (n + 1) - LAG_LAST - 1 = n - LAG_LAST
    BY <1>3, <1>5, BlockSizes
  <2> QED BY <2>1, <2>2 DEF ScheduleWord
<1> HIDE DEF p, y, x, z
<1>9. q[1] = small_sigma1(p) /\ q[2] = y /\ q[3] = small_sigma0(x) /\ q[4] = z
  BY <1>7
<1>10. /\ pack_small_sigma1_limb(limbs_to_u64(u64_to_limbs(p))) = u64_to_limbs(small_sigma1(p))
       /\ pack_small_sigma0_limb(limbs_to_u64(u64_to_limbs(x))) = u64_to_limbs(small_sigma0(x))
  BY <1>6, WordsAreLimbs, SmallSigma0IsWord, SmallSigma1IsWord
<1>11. ScheduleOperands(lags) = <<u64_to_limbs(small_sigma1(p)), u64_to_limbs(y),
                                  u64_to_limbs(small_sigma0(x)), u64_to_limbs(z)>>
  BY <1>6, <1>10, Zenon DEF ScheduleOperands
<1> QED BY <1>8, <1>9, <1>11, Zenon

(* A row with the words, lags and carries of an honest one.                *)
Copies(a, r) == a.words = r.words /\ a.lags = r.lags

(* From an honest row to the next one.                                     *)
LEMMA HonestTransition ==
  ASSUME NEW s \in Nat, NEW seg \in 1..3, NEW n \in 0..TRACE_ROWS - 1,
         NEW prep, prep = PrepRow(verifier_template_blocks, seg, n),
         NEW a, Copies(a, HonestRow(s, seg, n)),
         n # ROUNDS => a.carries = HonestRow(s, seg, n).carries,
         NEW b, n # TRACE_ROWS - 1 => Copies(b, HonestRow(s, seg, n + 1))
  PROVE  TransitionConstrained(a, b, prep)
<1>1. SUFFICES ASSUME prep.transition
               PROVE  TransitionConstrained(a, b, prep)
  BY DEF TransitionConstrained
<1> DEFINE st == StatesOf(s, seg)[n]
           su == StatesOf(s, seg)[n + 1]
           w == WordsOf(s, seg)
           h == HelpersOf(st, w, n)
           g == HelpersOf(su, w, n + 1)
           q == ScheduleSum(w, n)
           x == a.words
           y == b.words
           c == a.carries
<1>2. /\ n # TRACE_ROWS - 1 /\ n # ROUNDS /\ n \in 0..TRACE_ROWS - 2 /\ n + 1 \in 0..TRACE_ROWS - 1
  BY <1>1, PrepFacts, BlockSizes
<1>3. /\ RowShows(a, st, h, LagsAt(w, n)) /\ RowShows(b, su, g, LagsAt(w, n + 1))
      /\ c = HonestRow(s, seg, n).carries
      /\ HonestWords(x, st, h) /\ HonestWords(y, su, g)
  <2>1. /\ st \in States /\ HelpersAreWords(h)
        /\ RowShows(HonestRow(s, seg, n), st, h, LagsAt(w, n))
    BY HonestShows
  <2>2. /\ su \in States /\ HelpersAreWords(g)
        /\ RowShows(HonestRow(s, seg, n + 1), su, g, LagsAt(w, n + 1))
    BY <1>2, HonestShows
  <2> HIDE DEF st, su, w, h, g
  <2>3. Copies(b, HonestRow(s, seg, n + 1))
    BY <1>2
  <2> QED BY <1>2, <2>1, <2>2, <2>3 DEF Copies, RowShows, HonestWords
<1>4. /\ su = Shifted(st, h.T1, h.T2)
      /\ h.T1 = (st[8] + h.SIGMA1 + h.CH + h.K + h.W) % WORDS
      /\ h.T2 = (h.SIGMA0 + h.MAJ) % WORDS
      /\ LagsAt(w, n + 1) = advance_lags(LagsAt(w, n), h.W)
  BY <1>2, HonestNext
<1>5. SmallCarries(c) /\ Sums(st, h, q, c)
  BY <1>2, <1>3, HonestSums
<1>6. constrain_schedule_recurrence(a, prep)
  <2>1. CarriesWithin(a.carries.SCHED, "SCHED", 3)
    BY <1>5, CarriesFit DEF SmallCarries
  <2>2. ASSUME prep.round, ~prep.fixedInitW, prep.payload = 0
        PROVE  constrain_add(ScheduleOperands(a.lags), a.words.W, a.carries.SCHED)
    <3>1. n \in 0..ROUNDS - 1 /\ n + 1 > BLOCK_WORDS /\ n < ROUNDS
      <4>1. n < ROUNDS /\ n \in 0..ROUNDS - 1
        BY <2>2, PrepFacts, BlockSizes
      <4>2. n + 1 \in BLOCK_WORDS + 1..ROUNDS
        BY <2>2, <4>1, PrepOfRound
      <4> QED BY <4>1, <4>2, BlockSizes
    <3>2. a.lags = LimbsOf(LagsAt(w, n), 1..LAG_COUNT)
      BY <1>3 DEF RowShows
    <3>3. /\ ScheduleOperands(a.lags) = <<u64_to_limbs(q[1]), u64_to_limbs(q[2]),
                                         u64_to_limbs(q[3]), u64_to_limbs(q[4])>>
          /\ w[n + 1] = (q[1] + q[2] + q[3] + q[4]) % WORDS
      BY <3>1, <3>2, HonestSchedule
    <3>4. a.words.W = u64_to_limbs(w[n + 1])
      <4>1. h.W = w[n + 1]
        <5>1. h = [W |-> w[n + 1], K |-> K[n + 1], SIGMA0 |-> big_sigma0(st[1]),
                   SIGMA1 |-> big_sigma1(st[5]), CH |-> ch(st[5], st[6], st[7]),
                   MAJ |-> maj(st[1], st[2], st[3]),
                   T1 |-> Temp1(st, K[n + 1], w[n + 1]), T2 |-> Temp2(st)]
          BY <3>1, Zenon DEF HelpersOf
        <5> QED BY <5>1
      <4> HIDE DEF h, st, w
      <4> QED BY <1>3, <4>1, WordFacts
    <3> HIDE DEF q, w
    <3> QED BY <1>5, <3>3, <3>4 DEF Sums
  <2> QED BY <2>1, <2>2 DEF constrain_schedule_recurrence
<1> HIDE DEF st, su, w, h, g, q
<1>7. /\ x.A = u64_to_limbs(st[1]) /\ x.B = u64_to_limbs(st[2]) /\ x.C = u64_to_limbs(st[3])
      /\ x.D = u64_to_limbs(st[4]) /\ x.E = u64_to_limbs(st[5]) /\ x.F = u64_to_limbs(st[6])
      /\ x.G = u64_to_limbs(st[7]) /\ x.H = u64_to_limbs(st[8])
      /\ x.W = u64_to_limbs(h.W) /\ x.K = u64_to_limbs(h.K)
      /\ x.SIGMA0 = u64_to_limbs(h.SIGMA0) /\ x.SIGMA1 = u64_to_limbs(h.SIGMA1)
      /\ x.CH = u64_to_limbs(h.CH) /\ x.MAJ = u64_to_limbs(h.MAJ)
      /\ x.T1 = u64_to_limbs(h.T1) /\ x.T2 = u64_to_limbs(h.T2)
  BY <1>3, WordFacts
<1>8. /\ y.A = u64_to_limbs(su[1]) /\ y.B = u64_to_limbs(su[2]) /\ y.C = u64_to_limbs(su[3])
      /\ y.D = u64_to_limbs(su[4]) /\ y.E = u64_to_limbs(su[5]) /\ y.F = u64_to_limbs(su[6])
      /\ y.G = u64_to_limbs(su[7]) /\ y.H = u64_to_limbs(su[8])
  BY <1>3, WordFacts
<1>9. /\ su[1] = (h.T1 + h.T2) % WORDS /\ su[2] = st[1] /\ su[3] = st[2] /\ su[4] = st[3]
      /\ su[5] = (st[4] + h.T1) % WORDS /\ su[6] = st[5] /\ su[7] = st[6] /\ su[8] = st[7]
  BY <1>4 DEF Shifted, WrappingAdd
<1>10. b.lags = advance_lags(a.lags, x.W)
  <2> DEFINE lags == LagsAt(w, n)
             next == LagsAt(w, n + 1)
  <2>1. /\ next = advance_lags(lags, h.W) /\ x.W = u64_to_limbs(h.W)
        /\ a.lags = LimbsOf(lags, 1..LAG_COUNT) /\ b.lags = LimbsOf(next, 1..LAG_COUNT)
    BY <1>3, <1>4, <1>7 DEF RowShows
  <2> HIDE DEF lags, next, x
  <2>2. ASSUME NEW lag \in 1..LAG_COUNT
        PROVE  u64_to_limbs(next[lag]) = IF lag = 1 THEN x.W ELSE a.lags[lag - 1]
    <3>1. next[lag] = IF lag = 1 THEN h.W ELSE lags[lag - 1]
      BY <2>1 DEF advance_lags
    <3>2. lag # 1 => lag - 1 \in 1..LAG_COUNT
      BY BlockSizes
    <3>3. lag # 1 => a.lags[lag - 1] = u64_to_limbs(lags[lag - 1])
      BY <2>1, <3>2 DEF LimbsOf
    <3> QED BY <2>1, <3>1, <3>3
  <2> QED BY <2>1, <2>2 DEF LimbsOf, advance_lags
<1>11. /\ constrain_add(<<x.H, x.SIGMA1, x.CH, x.K, x.W>>, x.T1, c.T1)
       /\ constrain_add(<<x.SIGMA0, x.MAJ>>, x.T2, c.T2)
       /\ constrain_add(<<x.T1, x.T2>>, y.A, c.A)
       /\ constrain_add(<<x.D, x.T1>>, y.E, c.E)
  BY <1>4, <1>5, <1>7, <1>8, <1>9, Zenon DEF Sums
<1>12. /\ CarriesWithin(c.T1, "T1", 4) /\ CarriesWithin(c.T2, "T2", 1)
       /\ CarriesWithin(c.A, "A", 1) /\ CarriesWithin(c.E, "E", 1)
  BY <1>5, CarriesFit DEF SmallCarries
<1>13. \A col \in {"T2", "A", "E"} : CarriesWithin(c[col], col, 1)
  BY <1>12
<1> QED BY <1>6, <1>7, <1>8, <1>9, <1>10, <1>11, <1>12, <1>13, Zenon DEF TransitionConstrained

(* The private key, from the carries put in place of those of other sums.  *)
LEMMA HonestKey ==
  ASSUME NEW s \in Nat, NEW seg \in 1..3, NEW n \in 0..TRACE_ROWS - 1,
         NEW prep, prep = PrepRow(verifier_template_blocks, seg, n),
         NEW st, st = StatesOf(s, seg)[n], NEW h, NEW a, HonestWords(a.words, st, h),
         a.sk = EachInLimbs(DerivedKey(s)),
         NEW r, r = HonestRow(s, seg, n),
         a.carries = IF seg = 2 /\ n = ROUNDS
                     THEN set_private_seed_chain_derive_final_carries(r, st).carries
                     ELSE r.carries
  PROVE  constrain_private_sk_from_derive_final(a, prep)
<1>1. /\ prep.deriveFinal <=> seg = 2 /\ n = ROUNDS
      /\ prep.state = EachInLimbs(INITIAL_STATE)
  BY PrepFacts
<1>2. SmallCarries(r.carries)
  BY HonestSums
<1>3. ASSUME NEW i \in 1..PAYLOAD_WORD_COUNT
      PROVE  /\ i \in 1..4 /\ i \in 1..8
             /\ SkCarryColumns[i] \in {"T1", "T2", "A", "E"} /\ SkCarryColumns[i] \in CarryColumns
  BY BlockSizes DEF SkCarryColumns, CarryColumns
<1>4. CASE ~(seg = 2 /\ n = ROUNDS)
  <2>1. a.carries = r.carries
    BY <1>4
  <2>2. \A col \in {"T1", "T2", "A", "E"} : CarriesWithin(r.carries[col], col, 1)
    <3>1. /\ CarriesWithin(r.carries.T1, "T1", 1) /\ CarriesWithin(r.carries.T2, "T2", 1)
          /\ CarriesWithin(r.carries.A, "A", 1) /\ CarriesWithin(r.carries.E, "E", 1)
      BY <1>2, CarriesFit DEF SmallCarries
    <3> QED BY <3>1
  <2> QED BY <1>1, <1>3, <1>4, <2>1, <2>2 DEF constrain_private_sk_from_derive_final
<1>5. CASE seg = 2 /\ n = ROUNDS
  <2> DEFINE own(i) == add_with_carries(EachInLimbs(<<st[i], INITIAL_STATE[i]>>))
             mine(col) == \E i \in 1..PAYLOAD_WORD_COUNT : SkCarryColumns[i] = col
             pick(col) == CHOOSE i \in 1..PAYLOAD_WORD_COUNT : SkCarryColumns[i] = col
  <2>1. a.carries = [col \in CarryColumns |-> IF mine(col) THEN own(pick(col)) ELSE r.carries[col]]
    <3>1. r.carries = [col \in CarryColumns |-> r.carries[col]]
      <4>1. r.carries = CarriesOf(SumsOf(st, WordsOf(s, seg), n))
        BY HonestShows
      <4> QED BY <4>1 DEF CarriesOf
    <3>2. DOMAIN r = {"words", "lags", "carries"}
      BY DEF HonestRow, AirRow
    <3> QED BY <1>5, <3>2 DEF set_private_seed_chain_derive_final_carries
  <2>2. st = RoundsOf(s, 2)[ROUNDS] /\ st \in States
    <3>1. n \in 0..ROUNDS
      BY <1>5, BlockSizes
    <3> QED BY <1>5, <3>1, StatesFacts
  <2>3. ASSUME NEW i \in 1..PAYLOAD_WORD_COUNT
        PROVE  /\ CarriesWithin(a.carries[SkCarryColumns[i]], SkCarryColumns[i], 1)
               /\ constrain_add(<<StateOf(a.words)[i], prep.state[i]>>, a.sk[i],
                                a.carries[SkCarryColumns[i]])
    <3> DEFINE col == SkCarryColumns[i]
               x == st[i]
               y == INITIAL_STATE[i]
               c == a.carries[col]
    <3>1. /\ i \in 1..4 /\ i \in 1..8 /\ col \in {"T1", "T2", "A", "E"} /\ col \in CarryColumns
      BY <1>3
    <3>2. mine(col) /\ pick(col) = i
      <4>1. \A j \in 1..4, k \in 1..4 : SkCarryColumns[j] = SkCarryColumns[k] => j = k
        BY DEF SkCarryColumns
      <4>2. \A j \in 1..PAYLOAD_WORD_COUNT : j \in 1..4
        BY BlockSizes
      <4>3. mine(col)
        OBVIOUS
      <4>4. pick(col) \in 1..PAYLOAD_WORD_COUNT /\ SkCarryColumns[pick(col)] = SkCarryColumns[i]
        OBVIOUS
      <4> HIDE DEF pick, mine
      <4> QED BY <4>1, <4>2, <4>3, <4>4
    <3>3. c = own(i)
      <4> HIDE DEF mine, pick, own, col
      <4> QED BY <2>1, <3>1, <3>2
    <3>4. x \in Word /\ y \in Word
      BY <2>2, <3>1, InitialState DEF States
    <3>5. /\ StateOf(a.words)[i] = u64_to_limbs(x) /\ prep.state[i] = u64_to_limbs(y)
      <4>1. EachInLimbs(INITIAL_STATE)[i] = u64_to_limbs(INITIAL_STATE[i])
        BY <3>1, InitialState DEF EachInLimbs, States
      <4> QED BY <1>1, <3>1, <4>1, WordFacts
    <3>6. a.sk[i] = u64_to_limbs((x + y) % WORDS)
      <4>1. DerivedKey(s)[i] = WrappingAdd(y, x)
        BY <2>2, DerivedKeyFacts
      <4>2. DOMAIN DerivedKey(s) = 1..PAYLOAD_WORD_COUNT
        BY DerivedKeyFacts DEF Payloads
      <4>3. y + x = x + y
        BY <3>4, WordIsNat
      <4> QED BY <4>1, <4>2, <4>3 DEF EachInLimbs, WrappingAdd
    <3>7. own(i) = add_with_carries(<<u64_to_limbs(x), u64_to_limbs(y)>>)
      BY LimbsOfSums
    <3> HIDE DEF own, mine, pick, col, x, y, c
    <3>8. /\ constrain_add(<<u64_to_limbs(x), u64_to_limbs(y)>>, u64_to_limbs((x + y) % WORDS), c)
          /\ \A l \in 1..4 : c[l] \in 0..1
      <4> DEFINE ops == <<u64_to_limbs(x), u64_to_limbs(y)>>
                 total == x + y
                 k == 2
      <4>1. SumsTo(ops, k, total) /\ c = add_with_carries(ops) /\ k - 1 = 1
        BY <3>3, <3>4, <3>7, TwoWords
      <4> HIDE DEF ops, total, k
      <4>2. /\ constrain_add(ops, u64_to_limbs(total % WORDS), c)
            /\ \A l \in 1..4 : c[l] \in 0..k - 1
        BY <4>1, SumComplete
      <4> QED BY <4>1, <4>2 DEF ops, total
    <3>9. CarriesWithin(c, col, 1)
      BY <3>1, <3>8, CarriesFit
    <3> QED BY <3>5, <3>6, <3>8, <3>9, Zenon DEF c, col
  <2> QED BY <2>3 DEF constrain_private_sk_from_derive_final
<1> QED BY <1>4, <1>5

(* A row of one of the three segments, with the seed and the key.          *)
OfSegment(a, s, seg, n) ==
  LET r == HonestRow(s, seg, n)
      laid == IF seg = 2 /\ n = ROUNDS
              THEN set_private_seed_chain_derive_final_carries(r, RoundsOf(s, seg)[ROUNDS])
              ELSE r
  IN  a = set_private_seed_chain_words(laid, payload_words(s), DerivedKey(s))

(* What a row of the whole trace keeps of its segment's row.               *)
LEMMA SegmentRow ==
  ASSUME NEW s \in Nat, NEW seg \in 1..3, NEW n \in 0..TRACE_ROWS - 1,
         NEW a, OfSegment(a, s, seg, n), NEW r, r = HonestRow(s, seg, n),
         NEW st, st = StatesOf(s, seg)[n]
  PROVE  /\ Copies(a, r)
         /\ a.seed = EachInLimbs(payload_words(s)) /\ a.sk = EachInLimbs(DerivedKey(s))
         /\ a.carries = IF seg = 2 /\ n = ROUNDS
                        THEN set_private_seed_chain_derive_final_carries(r, st).carries
                        ELSE r.carries
<1> DEFINE last == RoundsOf(s, seg)[ROUNDS]
           final == set_private_seed_chain_derive_final_carries(r, last)
           laid == IF seg = 2 /\ n = ROUNDS THEN final ELSE r
<1>1. final.words = r.words /\ final.lags = r.lags
  <2>1. DOMAIN r = {"words", "lags", "carries"}
    BY DEF HonestRow, AirRow
  <2> HIDE DEF last
  <2> QED BY <2>1 DEF set_private_seed_chain_derive_final_carries
<1>2. n = ROUNDS => st = last
  BY StatesFacts, BlockSizes
<1>3. a = set_private_seed_chain_words(laid, payload_words(s), DerivedKey(s))
  BY DEF OfSegment
<1> HIDE DEF final, laid
<1>4. /\ a.words = laid.words /\ a.lags = laid.lags /\ a.carries = laid.carries
      /\ a.seed = EachInLimbs(payload_words(s)) /\ a.sk = EachInLimbs(DerivedKey(s))
  BY <1>3 DEF set_private_seed_chain_words
<1>5. CASE seg = 2 /\ n = ROUNDS
  <2>1. laid = final /\ st = last
    BY <1>2, <1>5 DEF laid
  <2> QED BY <1>1, <1>4, <1>5, <2>1 DEF Copies, final
<1>6. CASE ~(seg = 2 /\ n = ROUNDS)
  BY <1>4, <1>6 DEF laid, Copies
<1> QED BY <1>5, <1>6

(* All constraints of a row of one of the three segments.                  *)
Holds(a, b, prep, pub) ==
  /\ FixedWordsBound(a.words, prep) /\ PayloadBound(a.words, a.seed, a.sk, prep)
  /\ constrain_private_sk_from_derive_final(a, prep)
  /\ StartBound(a.words, prep) /\ PublicBound(a.words, prep, pub)
  /\ RoundConstrained(a.words, prep) /\ RangesConstrained(a)
  /\ TransitionConstrained(a, b, prep)

(* A row of a segment satisfies every constraint that looks at it and the  *)
(* row after it.                                                           *)
LEMMA SegmentHolds ==
  ASSUME NEW s \in Nat, NEW seg \in 1..3, NEW n \in 0..TRACE_ROWS - 1,
         NEW prep, prep = PrepRow(verifier_template_blocks, seg, n),
         NEW a, OfSegment(a, s, seg, n),
         NEW b, n # TRACE_ROWS - 1 => OfSegment(b, s, seg, n + 1)
  PROVE  Holds(a, b, prep, public_values_from_statement(Claim(s)))
<1> DEFINE st == StatesOf(s, seg)[n]
           w == WordsOf(s, seg)
           h == HelpersOf(st, w, n)
           r == HonestRow(s, seg, n)
<1>1. /\ Copies(a, r)
      /\ a.seed = EachInLimbs(payload_words(s)) /\ a.sk = EachInLimbs(DerivedKey(s))
      /\ a.carries = IF seg = 2 /\ n = ROUNDS
                     THEN set_private_seed_chain_derive_final_carries(r, st).carries
                     ELSE r.carries
  BY SegmentRow
<1>2. n # TRACE_ROWS - 1 => Copies(b, HonestRow(s, seg, n + 1))
  <2>1. n # TRACE_ROWS - 1 => n + 1 \in 0..TRACE_ROWS - 1
    BY BlockSizes
  <2> QED BY <2>1, SegmentRow
<1>3. /\ st \in States /\ HelpersAreWords(h) /\ LagsAt(w, n) \in [1..LAG_COUNT -> Word]
      /\ RowShows(r, st, h, LagsAt(w, n))
  BY HonestShows
<1>4. n \in Nat
  OBVIOUS
<1>5. (prep.round => n < ROUNDS) /\ (n # ROUNDS => a.carries = r.carries)
  BY <1>1, PrepFacts
<1> HIDE DEF st, w, h, r
<1>6. HonestWords(a.words, st, h) /\ a.lags = LimbsOf(LagsAt(w, n), 1..LAG_COUNT)
  BY <1>1, <1>3 DEF Copies, RowShows, HonestWords
<1>7. /\ FixedWordsBound(a.words, prep) /\ PayloadBound(a.words, a.seed, a.sk, prep)
  BY <1>1, <1>6, HonestBindings DEF w, h
<1>8. /\ StartBound(a.words, prep)
      /\ PublicBound(a.words, prep, public_values_from_statement(Claim(s)))
  BY <1>6, HonestEnds DEF st
<1>9. RoundConstrained(a.words, prep)
  BY <1>4, <1>5, <1>6, HonestRound DEF h
<1>10. RangesConstrained(a)
  BY <1>3, <1>6, HonestRanges
<1>11. constrain_private_sk_from_derive_final(a, prep)
  BY <1>1, <1>6, HonestKey DEF st, r
<1>12. TransitionConstrained(a, b, prep)
  BY <1>1, <1>2, <1>5, HonestTransition DEF r
<1> QED BY <1>7, <1>8, <1>9, <1>10, <1>11, <1>12 DEF Holds

(***************************************************************************)
(* The rows of the padding segment, all zero.                              *)
(***************************************************************************)
LEMMA ZeroLimb ==
  /\ \A l \in 1..4 : u64_to_limbs(0)[l] = 0
  /\ u64_to_limbs(0) = <<0, 0, 0, 0>>
<1>1. /\ LIMB_VALUES \in Nat /\ LIMB_VALUES >= 2
  BY Sizes
<1>2. /\ u64_to_limbs(0) \in [1..4 -> Limbs]
      /\ u64_to_limbs(0)[1] = 0 % LIMB_VALUES
      /\ u64_to_limbs(0)[2] = (0 \div LIMB_VALUES) % LIMB_VALUES
      /\ u64_to_limbs(0)[3] = ((0 \div LIMB_VALUES) \div LIMB_VALUES) % LIMB_VALUES
      /\ u64_to_limbs(0)[4] =
           (((0 \div LIMB_VALUES) \div LIMB_VALUES) \div LIMB_VALUES) % LIMB_VALUES
  BY LimbQuotients
<1>3. 0 % LIMB_VALUES = 0 /\ 0 \div LIMB_VALUES = 0
  BY <1>1
<1> DEFINE z == u64_to_limbs(0)
<1>4. z[1] = 0 /\ z[2] = 0 /\ z[3] = 0 /\ z[4] = 0 /\ z = [l \in 1..4 |-> z[l]]
  BY <1>2, <1>3
<1> HIDE DEF z
<1>5. \A l \in 1..4 : z[l] = 0
  BY <1>4
<1>6. z = <<0, 0, 0, 0>>
  BY <1>4
<1> QED BY <1>5, <1>6 DEF z

(* Empty columns have no carries.                                          *)
LEMMA NoCarries ==
  ASSUME NEW ops, \A l \in 1..4 : ColumnSum(ops, l) = 0
  PROVE  add_with_carries(ops) = <<0, 0, 0, 0>>
<1>1. LIMB_VALUES \in Nat /\ LIMB_VALUES >= 2
  BY Sizes
<1>2. 0 \div LIMB_VALUES = 0 /\ 0 + 0 = 0
  BY <1>1
<1>3. /\ ColumnSum(ops, 1) = 0 /\ ColumnSum(ops, 2) = 0 /\ ColumnSum(ops, 3) = 0
      /\ ColumnSum(ops, 4) = 0
  OBVIOUS
<1> QED BY <1>2, <1>3, Zenon DEF add_with_carries

ZeroState == [i \in 1..8 |-> 0]
ZeroLags == [lag \in 1..LAG_COUNT |-> 0]

(* An empty row is the row of an empty state.                              *)
LEMMA ZeroRowShows ==
  /\ ZeroState \in States /\ HelpersAreWords(NoHelpers.helpers)
  /\ ZeroLags \in [1..LAG_COUNT -> Word]
  /\ RowShows(ZeroRow, ZeroState, NoHelpers.helpers, ZeroLags)
  /\ ZeroRow.carries = [col \in CarryColumns |-> ZeroLimbs]
<1> DEFINE hz == NoHelpers.helpers
           sums == NoHelpers.sums
           o == u64_to_limbs(0)
<1>1. hz = [name \in HelperWords |-> 0] /\ sums = PaddingSums(0, 0)
  BY DEF NoHelpers
<1> HIDE DEF hz, sums
<1>2. ZeroState \in States /\ HelpersAreWords(hz) /\ ZeroLags \in [1..LAG_COUNT -> Word]
  BY <1>1, ZeroIsWord DEF States, HelpersAreWords, ZeroState, ZeroLags
<1>3. /\ EachInLimbs(ZeroState) = LimbsOf(ZeroState, 1..8)
      /\ EachInLimbs(hz) = LimbsOf(hz, HelperWords)
      /\ EachInLimbs(ZeroLags) = LimbsOf(ZeroLags, 1..LAG_COUNT)
  <2>1. DOMAIN ZeroState = 1..8 /\ DOMAIN hz = HelperWords /\ DOMAIN ZeroLags = 1..LAG_COUNT
    BY <1>1 DEF ZeroState, ZeroLags
  <2> QED BY <2>1, Zenon DEF EachInLimbs, LimbsOf
<1>4. ZeroRow = [words |-> RowWords(LimbsOf(ZeroState, 1..8), LimbsOf(hz, HelperWords)),
                 lags |-> LimbsOf(ZeroLags, 1..LAG_COUNT), carries |-> CarriesOf(sums)]
  BY <1>3, Zenon DEF ZeroRow, AirRow, CarriesOf, ZeroState, ZeroLags, hz, sums
<1>5. ASSUME NEW col \in CarryColumns
      PROVE  add_with_carries(EachInLimbs(sums[col])) = ZeroLimbs
  <2>1. \A l \in 1..4 : o[l] = 0 /\ o[l] \in Int
    BY ZeroLimb
  <2>2. /\ EachInLimbs(<<0, 0>>) = <<o, o>> /\ EachInLimbs(<<0, 0, 0, 0>>) = <<o, o, o, o>>
    BY LimbsOfSums
  <2>3. EachInLimbs(<<0, 0, 0, 0, 0>>) = <<o, o, o, o, o>>
    <3> HIDE DEF o
    <3> QED BY DEF EachInLimbs, o
  <2>4. ZeroLimbs = <<0, 0, 0, 0>>
    BY ZeroLimb DEF ZeroLimbs
  <2> HIDE DEF o
  <2>5. /\ \A l \in 1..4 : ColumnSum(<<o, o>>, l) = 0
        /\ \A l \in 1..4 : ColumnSum(<<o, o, o, o>>, l) = 0
        /\ \A l \in 1..4 : ColumnSum(<<o, o, o, o, o>>, l) = 0
    <3>1. ASSUME NEW l \in 1..4
          PROVE  /\ ColumnSum(<<o, o>>, l) = 0 /\ ColumnSum(<<o, o, o, o>>, l) = 0
                 /\ ColumnSum(<<o, o, o, o, o>>, l) = 0
      <4>1. o[l] = 0 /\ o[l] \in Int
        BY <2>1
      <4>2. ColumnSum(<<o, o>>, l) = o[l] + o[l]
        BY <4>1, SumOfTwo
      <4>3. ColumnSum(<<o, o, o, o>>, l) = o[l] + o[l] + o[l] + o[l]
        BY <4>1, SumOfFour
      <4>4. ColumnSum(<<o, o, o, o, o>>, l) = o[l] + o[l] + o[l] + o[l] + o[l]
        BY <4>1, SumOfFive
      <4> QED BY <4>1, <4>2, <4>3, <4>4
    <3> QED BY <3>1
  <2>6. /\ add_with_carries(<<o, o>>) = ZeroLimbs /\ add_with_carries(<<o, o, o, o>>) = ZeroLimbs
        /\ add_with_carries(<<o, o, o, o, o>>) = ZeroLimbs
    <3>1. add_with_carries(<<o, o>>) = <<0, 0, 0, 0>>
      BY <2>5, NoCarries, Zenon
    <3>2. add_with_carries(<<o, o, o, o>>) = <<0, 0, 0, 0>>
      BY <2>5, NoCarries, Zenon
    <3>3. add_with_carries(<<o, o, o, o, o>>) = <<0, 0, 0, 0>>
      BY <2>5, NoCarries, Zenon
    <3> QED BY <2>4, <3>1, <3>2, <3>3, Zenon
  <2>7. /\ sums["T1"] = <<0, 0, 0, 0, 0>> /\ sums["T2"] = <<0, 0>> /\ sums["A"] = <<0, 0>>
        /\ sums["E"] = <<0, 0>> /\ sums["SCHED"] = <<0, 0, 0, 0>>
    BY <1>1 DEF PaddingSums
  <2>8. col = "T1" \/ col = "T2" \/ col = "A" \/ col = "E" \/ col = "SCHED"
    BY DEF CarryColumns
  <2> QED BY <2>2, <2>3, <2>6, <2>7, <2>8, Zenon
<1>6. ZeroRow.carries = [col \in CarryColumns |-> ZeroLimbs]
  BY <1>4, <1>5 DEF CarriesOf
<1>7. RowShows(ZeroRow, ZeroState, hz, ZeroLags)
  BY <1>4 DEF RowShows
<1> QED BY <1>2, <1>6, <1>7 DEF hz

(* In the padding segment nothing is on but the ranges and, in the very    *)
(* last row, that all is zero.                                             *)
LEMMA PaddingPrep ==
  ASSUME NEW n, NEW prep, prep = PrepRow(verifier_template_blocks, 4, n)
  PROVE  /\ ~prep.start /\ ~prep.transition /\ ~prep.round /\ ~prep.fixedInitW
         /\ prep.payload = 0 /\ ~prep.commitFinal /\ ~prep.deriveFinal /\ ~prep.hashFinal
<1> DEFINE blocks == verifier_template_blocks
<1>1. ~(4 <= 3) /\ 4 # 1 /\ 4 # 2 /\ 4 # 3
  OBVIOUS
<1> HIDE DEF blocks
<1> QED BY <1>1 DEF PrepRow, blocks

(* A row of the padding segment satisfies every constraint, those on the   *)
(* last row included.                                                      *)
LEMMA PaddingHolds ==
  ASSUME NEW n, NEW prep, prep = PrepRow(verifier_template_blocks, 4, n),
         NEW a, Copies(a, ZeroRow), a.carries = ZeroRow.carries, NEW b, NEW pub
  PROVE  Holds(a, b, prep, pub) /\ LastRowConstrained(a)
<1> DEFINE st == ZeroState
           h == NoHelpers.helpers
<1>1. /\ ~prep.start /\ ~prep.transition /\ ~prep.round /\ ~prep.fixedInitW
      /\ prep.payload = 0 /\ ~prep.commitFinal /\ ~prep.deriveFinal /\ ~prep.hashFinal
  BY PaddingPrep
<1>2. /\ HonestWords(a.words, st, h) /\ a.lags = LimbsOf(ZeroLags, 1..LAG_COUNT)
      /\ ZeroLags \in [1..LAG_COUNT -> Word]
      /\ a.carries = [col \in CarryColumns |-> ZeroLimbs]
  BY ZeroRowShows DEF Copies, RowShows, HonestWords
<1>3. h = [name \in HelperWords |-> 0]
  BY DEF NoHelpers
<1> HIDE DEF st, h
<1>4. /\ a.words.W = u64_to_limbs(h.W) /\ a.words.K = u64_to_limbs(h.K)
      /\ a.words.SIGMA0 = u64_to_limbs(h.SIGMA0) /\ a.words.SIGMA1 = u64_to_limbs(h.SIGMA1)
      /\ a.words.CH = u64_to_limbs(h.CH) /\ a.words.MAJ = u64_to_limbs(h.MAJ)
      /\ a.words.T1 = u64_to_limbs(h.T1) /\ a.words.T2 = u64_to_limbs(h.T2)
  BY <1>2, WordFacts
<1>5. /\ h.W = 0 /\ h.K = 0 /\ h.SIGMA0 = 0 /\ h.SIGMA1 = 0 /\ h.CH = 0 /\ h.MAJ = 0 /\ h.T1 = 0
      /\ h.T2 = 0
  BY <1>3 DEF HelperWords
<1>6. \A name \in HelperWords : a.words[name] = ZeroLimbs
  BY <1>4, <1>5, ZeroIsWord DEF HelperWords
<1>7. \A lag \in 1..LAG_COUNT : a.lags[lag] = ZeroLimbs
  BY <1>2, ZeroIsWord DEF LimbsOf, ZeroLags
<1>8. \A col \in CarryColumns : a.carries[col] = ZeroLimbs
  BY <1>2
<1>9. LastRowConstrained(a)
  BY <1>6, <1>7, <1>8 DEF LastRowConstrained
<1>10. FixedWordsBound(a.words, prep) /\ PayloadBound(a.words, a.seed, a.sk, prep)
  BY <1>1, <1>6 DEF FixedWordsBound, PayloadBound, HelperWords
<1>11. constrain_private_sk_from_derive_final(a, prep)
  <2>1. \A col \in {"T1", "T2", "A", "E"} : a.carries[col] = ZeroLimbs
    BY <1>8 DEF CarryColumns
  <2>2. \A l \in 1..4 : ZeroLimbs[l] \in 0..1
    BY ZeroLimb DEF ZeroLimbs
  <2>3. \A col \in {"T1", "T2", "A", "E"} : CarriesWithin(ZeroLimbs, col, 1)
    BY <2>2, CarriesFit
  <2>4. \A i \in 1..PAYLOAD_WORD_COUNT : SkCarryColumns[i] \in {"T1", "T2", "A", "E"}
    BY BlockSizes DEF SkCarryColumns
  <2> QED BY <1>1, <2>1, <2>3, <2>4 DEF constrain_private_sk_from_derive_final
<1>12. StartBound(a.words, prep) /\ PublicBound(a.words, prep, pub)
  BY <1>1 DEF StartBound, PublicBound
<1>13. RoundConstrained(a.words, prep) /\ TransitionConstrained(a, b, prep)
  BY <1>1 DEF RoundConstrained, TransitionConstrained
<1>14. RangesConstrained(a)
  BY <1>2, HonestRanges
<1> QED BY <1>9, <1>10, <1>11, <1>12, <1>13, <1>14 DEF Holds

(* The segment of a row of the whole trace, and its place there.           *)
SegmentAt(n) == (n - 1) \div TRACE_ROWS + 1
PlaceAt(n) == (n - 1) % TRACE_ROWS

(* Rows follow one another in a segment, and the last segment is the       *)
(* fourth.                                                                 *)
LEMMA TracePlace ==
  ASSUME NEW n \in 1..4 * TRACE_ROWS
  PROVE  /\ SegmentAt(n) \in 1..4 /\ PlaceAt(n) \in 0..TRACE_ROWS - 1
         /\ PlaceAt(n) # TRACE_ROWS - 1 =>
              /\ n + 1 \in 1..4 * TRACE_ROWS
              /\ SegmentAt(n + 1) = SegmentAt(n) /\ PlaceAt(n + 1) = PlaceAt(n) + 1
         /\ n + 1 \notin 1..4 * TRACE_ROWS => SegmentAt(n) = 4
<1> DEFINE q == (n - 1) \div TRACE_ROWS
           r == (n - 1) % TRACE_ROWS
<1>1. TRACE_ROWS \in Nat /\ TRACE_ROWS >= 1
  BY BlockSizes
<1>2. q \in Int /\ r \in 0..TRACE_ROWS - 1 /\ n - 1 = TRACE_ROWS * q + r
  <2> DEFINE x == n - 1
  <2>1. x \in Int /\ TRACE_ROWS \in Int /\ TRACE_ROWS > 0
    BY <1>1
  <2> HIDE DEF x
  <2>2. /\ x \div TRACE_ROWS \in Int /\ x % TRACE_ROWS \in 0..TRACE_ROWS - 1
        /\ x = TRACE_ROWS * (x \div TRACE_ROWS) + (x % TRACE_ROWS)
    BY <2>1
  <2> QED BY <2>2 DEF x
<1> HIDE DEF q, r
<1>3. q \in 0..3
  <2>1. TRACE_ROWS * q < TRACE_ROWS * 4 /\ TRACE_ROWS * q > TRACE_ROWS * (-1)
    BY <1>1, <1>2
  <2>2. CASE q <= -1
    <3>1. TRACE_ROWS * q <= TRACE_ROWS * (-1)
      BY <1>1, <1>2, <2>2
    <3> QED BY <1>1, <1>2, <2>1, <3>1
  <2>3. CASE q >= 4
    <3>1. TRACE_ROWS * q >= TRACE_ROWS * 4
      BY <1>1, <1>2, <2>3
    <3> QED BY <1>1, <1>2, <2>1, <3>1
  <2> QED BY <1>2, <2>2, <2>3
<1>4. SegmentAt(n) = q + 1 /\ PlaceAt(n) = r
  BY DEF SegmentAt, PlaceAt, q, r
<1>5. ASSUME r # TRACE_ROWS - 1
      PROVE  /\ n + 1 \in 1..4 * TRACE_ROWS
             /\ SegmentAt(n + 1) = SegmentAt(n) /\ PlaceAt(n + 1) = PlaceAt(n) + 1
  <2>1. r + 1 \in 0..TRACE_ROWS - 1
    BY <1>1, <1>2, <1>5
  <2>2. (n + 1) - 1 = TRACE_ROWS * q + (r + 1) /\ (n + 1) - 1 \in Int
    BY <1>1, <1>2
  <2>3. ((n + 1) - 1) \div TRACE_ROWS = q /\ ((n + 1) - 1) % TRACE_ROWS = r + 1
    BY <1>1, <1>2, <2>1, <2>2, DivUnique
  <2>4. TRACE_ROWS * q <= TRACE_ROWS * 3
    BY <1>1, <1>3
  <2>5. n + 1 \in 1..4 * TRACE_ROWS
    BY <1>1, <1>2, <1>3, <2>1, <2>4
  <2> QED BY <1>4, <2>3, <2>5 DEF SegmentAt, PlaceAt
<1>6. ASSUME n + 1 \notin 1..4 * TRACE_ROWS
      PROVE  q = 3
  <2>1. n = 4 * TRACE_ROWS
    BY <1>1, <1>6
  <2>2. n - 1 = TRACE_ROWS * 3 + (TRACE_ROWS - 1) /\ n - 1 \in Int
        /\ TRACE_ROWS - 1 \in 0..TRACE_ROWS - 1
    BY <1>1, <2>1
  <2>3. (n - 1) \div TRACE_ROWS = 3
    BY <1>1, <2>2, DivUnique
  <2> QED BY <2>3 DEF q
<1> QED BY <1>2, <1>3, <1>4, <1>5, <1>6

(* The trace the honest prover builds.                                     *)
MainOf(s) == build_private_seed_chain_air_bundle(WitnessOf(s)).main

(* A row of it is the row of its segment, or a row of padding.             *)
PaddingOf(a, s) == a = set_private_seed_chain_words(ZeroRow, payload_words(s), DerivedKey(s))
RowFits(a, s, seg, at) ==
  /\ seg \in 1..3 => OfSegment(a, s, seg, at)
  /\ seg = 4 => PaddingOf(a, s)

(* Every row of the honest trace is the row of its segment, or padding.    *)
LEMMA MainRows ==
  ASSUME NEW s \in Nat
  PROVE  /\ DOMAIN MainOf(s) = 1..4 * TRACE_ROWS
         /\ \A n \in 1..4 * TRACE_ROWS : RowFits(MainOf(s)[n], s, SegmentAt(n), PlaceAt(n))
<1> DEFINE blocks == WitnessOf(s)
           payload(seg) == [i \in 1..PAYLOAD_WORD_COUNT |-> blocks[seg][PAYLOAD_WORD_START + i]]
           trace == [seg \in 1..3 |-> compress_block(INITIAL_STATE, blocks[seg])]
           rows == [seg \in 1..3 |-> build_plonky3_air_trace(trace[seg])]
           laid(seg, n) ==
             IF seg = 4 THEN ZeroRow
             ELSE IF seg = 2 /\ n = ROUNDS
             THEN set_private_seed_chain_derive_final_carries(rows[seg][n],
                                                              trace[seg].round_states[ROUNDS])
             ELSE rows[seg][n]
<1>1. MainOf(s) = [n \in 1..4 * TRACE_ROWS |->
         set_private_seed_chain_words(laid(SegmentAt(n), PlaceAt(n)), payload(1), payload(3))]
  BY DEF MainOf, build_private_seed_chain_air_bundle, SegmentAt, PlaceAt
<1>2. \A seg \in 1..3 : blocks[seg] = BlockOf(s, seg)
  BY BlocksAre DEF WitnessOf
<1>3. \A seg \in {1, 3} : payload(seg) = PayloadOf(s, seg)
  <2>1. ASSUME NEW seg \in {1, 3}
        PROVE  payload(seg) = PayloadOf(s, seg)
    <3>1. \A i \in 1..PAYLOAD_WORD_COUNT :
            blocks[seg][PAYLOAD_WORD_START + i] = PayloadOf(s, seg)[i]
      BY <1>2, PayloadIsRead
    <3>2. PayloadOf(s, seg) = [i \in 1..PAYLOAD_WORD_COUNT |-> PayloadOf(s, seg)[i]]
      BY PayloadOfFacts DEF Payloads
    <3> QED BY <3>1, <3>2
  <2> QED BY <2>1
<1>4. payload(1) = payload_words(s) /\ payload(3) = DerivedKey(s)
  BY <1>3 DEF PayloadOf
<1>5. \A seg \in 1..3 : trace[seg] = TraceOf(s, seg)
  BY <1>2 DEF TraceOf
<1> HIDE DEF payload, trace
<1>6. \A seg \in 1..3 : rows[seg] = build_plonky3_air_trace(TraceOf(s, seg))
  BY <1>5
<1> HIDE DEF rows
<1>7. ASSUME NEW seg \in 1..3, NEW at \in 0..TRACE_ROWS - 1
      PROVE  OfSegment(set_private_seed_chain_words(laid(seg, at), payload(1), payload(3)),
                       s, seg, at)
  <2>1. rows[seg][at] = HonestRow(s, seg, at)
    BY <1>6, RowsAreHonest
  <2>2. trace[seg].round_states[ROUNDS] = RoundsOf(s, seg)[ROUNDS]
    BY <1>5 DEF RoundsOf
  <2>3. laid(seg, at) = IF seg = 2 /\ at = ROUNDS
                        THEN set_private_seed_chain_derive_final_carries(HonestRow(s, seg, at),
                               RoundsOf(s, seg)[ROUNDS])
                        ELSE HonestRow(s, seg, at)
    BY <2>1, <2>2
  <2> HIDE DEF laid
  <2> QED BY <1>4, <2>3 DEF OfSegment
<1>8. \A at : laid(4, at) = ZeroRow
  OBVIOUS
<1> HIDE DEF laid
<1>9. ASSUME NEW n \in 1..4 * TRACE_ROWS
      PROVE  RowFits(MainOf(s)[n], s, SegmentAt(n), PlaceAt(n))
  <2> DEFINE seg == SegmentAt(n)
             at == PlaceAt(n)
  <2>1. seg \in 1..4 /\ at \in 0..TRACE_ROWS - 1
    BY TracePlace
  <2>2. MainOf(s)[n] = set_private_seed_chain_words(laid(seg, at), payload(1), payload(3))
    BY <1>1
  <2> HIDE DEF seg, at
  <2>3. RowFits(MainOf(s)[n], s, seg, at)
    BY <1>4, <1>7, <1>8, <2>1, <2>2 DEF RowFits, PaddingOf
  <2> QED BY <2>3 DEF seg, at
<1>10. DOMAIN MainOf(s) = 1..4 * TRACE_ROWS
  BY <1>1
<1> QED BY <1>9, <1>10

(* Every row repeats the seed and the private key.                         *)
LEMMA FittingRow ==
  ASSUME NEW s \in Nat, NEW seg \in 1..4, NEW at \in 0..TRACE_ROWS - 1,
         NEW a, RowFits(a, s, seg, at)
  PROVE  /\ a.seed = EachInLimbs(payload_words(s)) /\ a.sk = EachInLimbs(DerivedKey(s))
         /\ seg = 4 => Copies(a, ZeroRow) /\ a.carries = ZeroRow.carries
<1>1. CASE seg \in 1..3
  <2>1. OfSegment(a, s, seg, at)
    BY <1>1 DEF RowFits
  <2> QED BY <1>1, <2>1, SegmentRow
<1>2. CASE seg = 4
  BY <1>2 DEF RowFits, PaddingOf, set_private_seed_chain_words, Copies
<1> QED BY <1>1, <1>2

(* Every row of the honest trace satisfies every constraint.               *)
LEMMA HonestRowEvaluates ==
  ASSUME NEW s \in Nat, NEW n \in 1..4 * TRACE_ROWS
  PROVE  eval(MainOf(s), PrepRowAt(verifier_template_blocks, n),
              public_values_from_statement(Claim(s)), n)
<1> DEFINE main == MainOf(s)
           seg == SegmentAt(n)
           at == PlaceAt(n)
           a == main[n]
           b == main[n + 1]
           pub == public_values_from_statement(Claim(s))
           prep == PrepRowAt(verifier_template_blocks, n)
<1>1. /\ seg \in 1..4 /\ at \in 0..TRACE_ROWS - 1
      /\ at # TRACE_ROWS - 1 =>
           n + 1 \in 1..4 * TRACE_ROWS /\ SegmentAt(n + 1) = seg /\ PlaceAt(n + 1) = at + 1
      /\ n + 1 \notin 1..4 * TRACE_ROWS => seg = 4
  BY TracePlace
<1>2. prep = PrepRow(verifier_template_blocks, seg, at)
  BY DEF PrepRowAt, SegmentAt, PlaceAt
<1>3. DOMAIN main = 1..4 * TRACE_ROWS /\ RowFits(a, s, seg, at)
  BY MainRows
<1>4. n + 1 \in DOMAIN main => RowFits(b, s, SegmentAt(n + 1), PlaceAt(n + 1))
  BY <1>3, MainRows
<1>5. n + 1 \in DOMAIN main => b.seed = a.seed /\ b.sk = a.sk
  <2>1. SUFFICES ASSUME n + 1 \in 1..4 * TRACE_ROWS
                 PROVE  b.seed = a.seed /\ b.sk = a.sk
    BY <1>3
  <2>2. SegmentAt(n + 1) \in 1..4 /\ PlaceAt(n + 1) \in 0..TRACE_ROWS - 1
    BY <2>1, TracePlace
  <2>3. b.seed = EachInLimbs(payload_words(s)) /\ b.sk = EachInLimbs(DerivedKey(s))
    BY <1>3, <1>4, <2>1, <2>2, FittingRow
  <2>4. a.seed = EachInLimbs(payload_words(s)) /\ a.sk = EachInLimbs(DerivedKey(s))
    BY <1>1, <1>3, FittingRow
  <2> QED BY <2>3, <2>4
<1> HIDE DEF main, seg, at, a, b, pub, prep
<1>6. Holds(a, b, prep, pub) /\ (seg = 4 => LastRowConstrained(a))
  <2>1. CASE seg \in 1..3
    <3>1. OfSegment(a, s, seg, at)
      BY <1>3, <2>1 DEF RowFits
    <3>2. at # TRACE_ROWS - 1 => OfSegment(b, s, seg, at + 1)
      BY <1>1, <1>3, <1>4, <2>1 DEF RowFits
    <3> QED BY <1>1, <1>2, <2>1, <3>1, <3>2, SegmentHolds DEF pub
  <2>2. CASE seg = 4
    <3>1. Copies(a, ZeroRow) /\ a.carries = ZeroRow.carries
      BY <1>1, <1>3, <2>2, FittingRow
    <3>2. prep = PrepRow(verifier_template_blocks, 4, at)
      BY <1>2, <2>2
    <3> QED BY <3>1, <3>2, PaddingHolds
  <2> QED BY <1>1, <2>1, <2>2
<1>7. n + 1 \notin DOMAIN main => LastRowConstrained(a)
  BY <1>1, <1>3, <1>6
<1>8. eval(main, prep, pub, n)
  BY <1>5, <1>6, <1>7, Zenon DEF eval, Holds, a, b
<1> QED BY <1>8 DEF main, prep, pub

(* The honest trace is accepted.                                           *)
HonestBundle(s) == build_private_seed_chain_air_bundle(WitnessOf(s))
BundleIsHonest ==
  /\ provers = [s \in Seeds |-> Prover(s)] /\ seed \in Seeds
  /\ bundle = None \/ bundle = HonestBundle(seed)

(* The honest trace satisfies every constraint and shows the public values *)
(* of the owner's statement.                                               *)
LEMMA HonestBundleSatisfies ==
  ASSUME NEW s \in Nat
  PROVE  /\ Satisfied(HonestBundle(s), verifier_template_blocks)
         /\ HonestBundle(s).public = public_values_from_statement(Claim(s))
<1>1. HonestBundle(s).public = public_values_from_statement(Claim(s))
  BY PublicIsClaimed DEF HonestBundle
<1>2. HonestBundle(s).main = MainOf(s)
  BY DEF HonestBundle, MainOf
<1>3. Satisfied(HonestBundle(s), verifier_template_blocks)
  BY <1>1, <1>2, HonestRowEvaluates DEF Satisfied
<1> QED BY <1>1, <1>3

(* The trace in hand is the honest one of the seed in play.                *)
LEMMA BundleForever == Spec => []BundleIsHonest
<1>1. Init => BundleIsHonest
  BY DEF Init, BundleIsHonest
<1>2. BundleIsHonest /\ [Next]_vars => BundleIsHonest'
  <2> SUFFICES ASSUME BundleIsHonest, [Next]_vars
               PROVE  BundleIsHonest'
    OBVIOUS
  <2>1. /\ provers = [s \in Seeds |-> Prover(s)] /\ seed \in Seeds
        /\ bundle = None \/ bundle = HonestBundle(seed)
    BY DEF BundleIsHonest
  <2>2. CASE UNCHANGED <<provers, seed, bundle>>
    BY <2>1, <2>2 DEF BundleIsHonest
  <2>3. CASE BuildBundle
    <3>1. BlocksOf(seed) = WitnessOf(seed)
      BY <2>1, HonestIsEnvelope
    <3> QED BY <2>1, <2>3, <3>1 DEF BuildBundle, BundleIsHonest, HonestBundle
  <2>4. CASE Send
    BY <2>1, <2>4 DEF Send, BundleIsHonest
  <2>5. CASE LayRow
    BY <2>2, <2>5 DEF LayRow
  <2>6. CASE FinishSegment
    BY <2>2, <2>6 DEF FinishSegment
  <2>7. CASE Fault
    BY <2>2, <2>7 DEF Fault
  <2>8. CASE Receive
    BY <2>2, <2>8 DEF Receive
  <2>9. CASE UNCHANGED vars
    BY <2>2, <2>9 DEF vars
  <2>10. CASE Finished
    BY <2>9, <2>10 DEF Finished
  <2> QED BY <2>3, <2>4, <2>5, <2>6, <2>7, <2>8, <2>9, <2>10 DEF Next
<1> QED BY <1>1, <1>2, PTL DEF Spec

(* HonestTraceSatisfies: whatever the sizes and the constants of the hash, *)
(* the trace an honest owner builds satisfies every constraint in every    *)
(* row, under the preprocessed rows the verifier derives without the       *)
(* payload, and shows the public values of the owner's statement.          *)
THEOREM HonestTraceSatisfied == Spec => []HonestTraceSatisfies
<1>1. BundleIsHonest => HonestTraceSatisfies
  <2> SUFFICES ASSUME BundleIsHonest, bundle # None
               PROVE  /\ Satisfied(bundle, verifier_template_blocks)
                      /\ bundle.public = public_values_from_statement(provers[seed].statement)
    BY DEF HonestTraceSatisfies
  <2>1. /\ provers[seed] = Prover(seed) /\ seed \in Nat /\ bundle = HonestBundle(seed)
    BY ConstantsAssumption DEF BundleIsHonest
  <2> QED BY <2>1, HonestBundleSatisfies DEF Claim
<1> QED BY <1>1, BundleForever, PTL
============================================================================

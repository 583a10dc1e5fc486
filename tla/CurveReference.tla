--------------------------- MODULE CurveReference ---------------------------
(***************************************************************************)
(* The field modulo p = 2^FieldBits - Offset with its inverses and square  *)
(* roots; the curve -x^2 + y^2 = 1 + d x^2 y^2 over it, its basepoint, the *)
(* scalars it is multiplied with and the hash of messages that are mapped  *)
(* to it; and what the calls on points promise, over affine points (x, y)  *)
(* and the complete addition law, with square roots and quotients found by *)
(* search.                                                                 *)
(***************************************************************************)
EXTENDS Powers, Sequences

CONSTANTS
  FieldBits,  (* 255                                                       *)
  Offset      (* 19                                                        *)

p == Pow2[FieldBits] - Offset
Fp == 0 .. p - 1

(* p is a prime of the form 8k + 5, not below the tail of the additions    *)
(* chain of pow22501.                                                      *)
ASSUME FieldAssumption ==
  /\ FieldBits \in Nat /\ Offset \in 1 .. 29 /\ FieldBits > 5 /\ p > Offset
  /\ p % 8 = 5
  /\ \A x \in 2 .. p - 1 : p % x # 0

x ++ y == (x + y) % p
x -- y == (x - y) % p
x ** y == (x * y) % p
Minus(x) == (-x) % p
Square(x) == x ** x

IsNegative(x) == x % 2 = 1
Magnitude(x) == IF IsNegative(x) THEN Minus(x) ELSE x

(* pow2k: n squarings *)
Pow2k(x, n) ==
  LET sq[k \in 0 .. n] == IF k = 0 THEN x ELSE Square(sq[k - 1])
  IN  sq[n]

(* x^(2^n - 1) *)
PowOnes(x, n) ==
  LET t[k \in 0 .. n] == IF k = 0 THEN 1 ELSE x ** Square(t[k - 1])
  IN  t[n]

PowNat(x, n) == LET t[k \in 0 .. n] == IF k = 0 THEN 1 ELSE x ** t[k - 1] IN t[n]

(* pow22501: the power of FieldBits - 5 ones, and the small power that     *)
(* completes it to p - 2.                                                  *)
Pow22501(x) == <<PowOnes(x, FieldBits - 5), PowNat(x, 30 - Offset)>>

(* x^(p-2), which is 0 for 0. *)
PowP2(t) == Pow2k(t[1], 5) ** t[2]
Inverse == [x \in Fp |-> PowP2(Pow22501(x))]
Invert(x) == Inverse[x]

(* x^((p-5)/8) *)
PowP58 ==
  [x \in Fp |-> Pow2k(Pow22501(x)[1], 2) ** PowNat(x, 4 - (Offset + 5) \div 8)]

(* internal_invert_batch: the products of the non-zero elements before     *)
(* each place, one inversion, and a walk back.                             *)
InvertBatch(xs) ==
  LET n == DOMAIN xs
      last == IF xs = <<>> THEN 0 ELSE CHOOSE k \in n : \A j \in n : j <= k
      before[k \in 1 .. last + 1] ==
        IF k = 1 THEN 1
        ELSE IF xs[k - 1] = 0 THEN before[k - 1] ELSE before[k - 1] ** xs[k - 1]
      acc[k \in 0 .. last] ==
        IF k = last THEN Invert(before[last + 1])
        ELSE IF xs[k + 1] = 0 THEN acc[k + 1] ELSE acc[k + 1] ** xs[k + 1]
  IN  [k \in n |-> IF xs[k] = 0 THEN 0 ELSE acc[k] ** before[k]]

(* The constants of backend/serial/u64/constants.rs: roots are chosen by   *)
(* their parity.                                                           *)
EvenRoot(x) == CHOOSE r \in Fp : Square(r) = x /\ ~ IsNegative(r)
SQRT_M1 == EvenRoot(p - 1)

(* sqrt_ratio_i: whether u / v is a square, and the nonnegative root of it *)
(* or of i * u / v.                                                        *)
RootOfRatio(u, r, check) ==
  LET correct == check = u
      flipped == check = Minus(u)
      rotate  == flipped \/ check = Minus(u) ** SQRT_M1
  IN  [square |-> correct \/ flipped,
       root   |-> Magnitude(IF rotate THEN SQRT_M1 ** r ELSE r)]
SqrtRatioI(u, v) ==
  LET v3 == Square(v) ** v
      v7 == Square(v3) ** v
      r  == (u ** v3) ** PowP58[u ** v7]
  IN  RootOfRatio(u, r, v ** Square(r))

InvSqrt(x) == SqrtRatioI(1, x)

(* from_bytes drops the highest bit and reduces, to_bytes is canonical. *)
FromBytes(s) == (s % Pow2[FieldBits]) % p

(* from_bytes_wide: twice as many bits.  The highest bit of each half is   *)
(* cut off and put back as what it stands for modulo p.                    *)
FromBytesWide(f, g) ==
  LET topF == f \div Pow2[FieldBits]
      topG == g \div Pow2[FieldBits]
  IN  FromBytes(f) ++ ((topF * Offset + topG * 2 * Offset * Offset) % p)
        ++ ((2 * Offset) ** FromBytes(g))
-----------------------------------------------------------------------------
CONSTANTS
  EDWARDS_D,
  BasepointOrder,
  BasepointCode,  (* the Edwards encoding of the basepoint                 *)
  MulBits,        (* bits of a scalar, 256                                 *)
  HashOf(_, _, _),  (* digests, of four units: of a content, a number    *)
                  (* and a separator                                     *)
  MaxSeparator    (* length of the longest domain separator, 255           *)

(* d is not a square, which makes the addition formulas complete.          *)
ASSUME CurveAssumption ==
  /\ EDWARDS_D \in Fp /\ \A x \in Fp : Square(x) # EDWARDS_D
  /\ BasepointOrder \in Nat
  /\ MulBits \in Nat /\ MulBits % 8 = 0 /\ MulBits % 7 # 0 /\ MulBits >= 16

(* A unit is half as long as an encoding and a quarter of a digest. *)
UnitBits == (FieldBits + 1) \div 2
-----------------------------------------------------------------------------
Quotients == [b \in Fp \ {0} |-> CHOOSE c \in Fp : b ** c = 1]
Over(a, b) == IF b = 0 THEN 0 ELSE a ** Quotients[b]
Squares == {Square(x) : x \in Fp}
RootOf == [s \in Squares |-> CHOOSE r \in Fp : Square(r) = s /\ r % 2 = 0]

Affine(x, y) == [x |-> x, y |-> y]
IsOnCurve(x, y) ==
  Square(y) -- Square(x) = 1 ++ (EDWARDS_D ** (Square(x) ** Square(y)))
Curve == UNION {{Affine(x, y) : y \in {b \in Fp : IsOnCurve(x, b)}} : x \in Fp}
Zero == Affine(0, 1)
Opposite(e) == Affine(Minus(e.x), e.y)

Plus(a, b) ==
  LET xx == a.x ** b.x  yy == a.y ** b.y
      t  == EDWARDS_D ** (xx ** yy)
  IN  Affine(Over((a.x ** b.y) ++ (b.x ** a.y), 1 ++ t), Over(yy ++ xx, 1 -- t))

(* A table, for TLC *)
Sums == [a, b \in Curve |-> Plus(a, b)]
Times(n, e) ==
  LET m[k \in Nat] ==
        IF k = 0 THEN Zero
        ELSE IF k % 2 = 0 THEN LET half == m[k \div 2] IN Sums[half, half]
        ELSE Sums[m[k - 1], e]
  IN  m[n]
TotalOf(es) ==
  LET sum[k \in 0 .. Len(es)] == IF k = 0 THEN Zero ELSE Sums[sum[k - 1], es[k]]
  IN  sum[Len(es)]

CofactorOf == [e \in Curve |-> Times(8, e)]
InSubgroup == [e \in Curve |-> Times(BasepointOrder, e) = Zero]
(* A cyclic group of order 8 * BasepointOrder *)
FourTorsion == {Times(2 * BasepointOrder, e) : e \in Curve}
Doubles == {Plus(e, e) : e \in Curve}
Coset(e) == {Plus(e, t) : t \in FourTorsion}
Generator == CHOOSE e \in Curve : e.y = BasepointCode % Pow2[FieldBits]
                                  /\ e.x % 2 = BasepointCode \div Pow2[FieldBits]
(* s_1 P_1 + s_2 P_2 + ... *)
Combined(s, P) == TotalOf([k \in DOMAIN s |-> Times(s[k], P[k])])
(* The three lowest bits of a scalar cleared, its two highest 0 and 1 *)
Clamped(s) == Pow2[MulBits - 2] + ((s % Pow2[MulBits - 2]) \div 8) * 8
-----------------------------------------------------------------------------
(* RFC 9380, 5.2 and 5.3.1: as many field elements, of three units each,   *)
(* the highest first, of two digests of a message.                         *)
Odd(a, k) == (a \div Pow2[k]) % 2 = 1
Xor(a, b) ==
  LET t[k \in 0 .. UnitBits] ==
        IF k = 0 THEN 0
        ELSE LET low == t[k - 1]
             IN  IF Odd(a, k - 1) <=> Odd(b, k - 1) THEN low ELSE low + Pow2[k - 1]
  IN  t[UnitBits]
Uniform(msg, separator, outlen) ==
  LET b0 == HashOf(<<"msg", msg, outlen>>, 0, separator)
      b1 == HashOf(b0, 1, separator)
  IN  b1 \o HashOf([k \in 1 .. 4 |-> Xor(b0[k], b1[k])], 2, separator)
FieldElements(msg, separator, count) ==
  LET u == Uniform(msg, separator, 3 * count)
      base == Pow2[UnitBits]
  IN  [k \in 1 .. count |->
         (u[3 * k] + base * u[3 * k - 1] + base * base * u[3 * k - 2]) % p]
-----------------------------------------------------------------------------
(* Edwards encodings: y, and the parity of x in the bit above it.  Any y   *)
(* that is congruent to one of a point decodes; the sign of 0 is free.     *)
YOf(s) == (s % Pow2[FieldBits]) % p
SignOf(s) == s \div Pow2[FieldBits]
Decoded(s) == {e \in Curve : e.y = YOf(s) /\ (e.x = 0 \/ e.x % 2 = SignOf(s))}
Encoded(e) == e.y + Pow2[FieldBits] * (e.x % 2)

(* Ristretto encodings, of doubles: for the point of the coset whose x and *)
(* xy are even, xy not being 0, the even root of (1 - y) / (1 + y).        *)
RistrettoCode ==
  [e \in Doubles |->
     LET chosen == {f \in Coset(e) : f.x % 2 = 0 /\ (f.x ** f.y) % 2 = 0
                                      /\ f.x ** f.y # 0}
     IN  IF e \in FourTorsion THEN 0
         ELSE RootOf[LET f == CHOOSE f \in chosen : TRUE IN Over(1 -- f.y, 1 ++ f.y)]]
RistrettoDecoded(s) ==
  {e \in Doubles : RistrettoCode[e] = s /\ e.x % 2 = 0 /\ (e.x ** e.y) % 2 = 0
                 /\ (s = 0 => e = Zero)}
-----------------------------------------------------------------------------
(* The Montgomery curve B v^2 = u^3 + A u^2 + u, B = 1, and its twist,     *)
(* B = 2: u and v of a point; every u belongs to one of the two.           *)
CurveA == Over(2 ** (1 -- EDWARDS_D), 1 ++ EDWARDS_D)
UOf(e) == Over(1 ++ e.y, 1 -- e.y)
OnMontgomery(u) == (Square(u) ++ (CurveA ** u) ++ 1) ** u

(* The points with that u, apart from the identity, and that sign of x. *)
WithU(u, sign) ==
  {e \in Curve : e # Zero /\ UOf(e) = u /\ (e.x = 0 \/ e.x % 2 = sign)}

Infinity == <<>>
Chord(B, P, Q) ==
  IF P = Infinity THEN Q
  ELSE IF Q = Infinity THEN P
  ELSE IF P[1] = Q[1] /\ P[2] = Minus(Q[2]) THEN Infinity
  ELSE LET slope == IF P[1] = Q[1]
                    THEN Over((3 ** Square(P[1])) ++ ((2 ** CurveA) ** P[1]) ++ 1,
                              2 ** (B ** P[2]))
                    ELSE Over(Q[2] -- P[2], Q[1] -- P[1])
           u == ((B ** Square(slope)) -- CurveA) -- (P[1] ++ Q[1])
       IN  <<u, (slope ** (P[1] -- u)) -- P[2]>>
TimesU(n, u) ==
  LET B == IF OnMontgomery(u) \in Squares THEN 1 ELSE 2
      P == <<u, RootOf[Over(OnMontgomery(u), B)]>>
      m[k \in 0 .. n] ==
        IF k = 0 THEN Infinity
        ELSE IF k % 2 = 0 THEN LET half == m[k \div 2] IN Chord(B, half, half)
        ELSE Chord(B, m[k - 1], P)
  IN  IF m[n] = Infinity THEN 0 ELSE m[n][1]

(* The birational map from B = 1 back to the Edwards curve, and the same   *)
(* from the Weierstrass form, whose x is u + A/3 and whose y is v.         *)
FromMontgomery(u, v) ==
  Affine(Over(RootOf[Minus(CurveA ++ 2)] ** u, v), Over(u -- 1, u ++ 1))
FromWeierstrass(x, y) ==
  LET u == x -- Over(CurveA, 3)
  IN  IF x = 0 /\ y = 0 THEN {Zero}
      ELSE IF y = 0 \/ u = Minus(1) \/ Square(y) # OnMontgomery(u) THEN {}
      ELSE {FromMontgomery(u, y)}

Weierstrass(e) ==
  LET u == UOf(e)
  IN  IF e = Zero THEN <<0, 0>>
      ELSE <<u ++ Over(CurveA, 3), Over(RootOf[Minus(CurveA ++ 2)] ** u, e.x)>>

(* Elligator 2: the first of -A / (1 + 2r^2) and the sum of its negative   *)
(* and -A that is a u of the curve, with an odd v if it is the first and   *)
(* an even one if not; the exceptional points go to the identity.          *)
Elligator2 ==
  [r \in Fp |->
     LET u1 == Over(Minus(CurveA), 1 ++ (2 ** Square(r)))
         first == OnMontgomery(u1) \in Squares
         u  == IF first THEN u1 ELSE Minus(u1) -- CurveA
         w  == RootOf[OnMontgomery(u)]
         v  == IF first THEN Minus(w) ELSE w
     IN  IF v = 0 \/ u = Minus(1) THEN Zero
         ELSE FromMontgomery(u, v)]
=============================================================================

--------------------------- MODULE MontgomeryForm ---------------------------
(***************************************************************************)
(* MontgomeryPoint: the u-coordinate of a point of v^2 = u^3 + A u^2 + u,  *)
(* or of its twist, and the Elligator 2 map onto the curve. SwPoint:       *)
(* affine points of the short Weierstrass form the CUDA code computes on,  *)
(* and the way there and back.                                             *)
(***************************************************************************)
EXTENDS EdwardsPoints

CONSTANTS
  MONTGOMERY_A,      (* 486662                                             *)
  APLUS2_OVER_FOUR   (* 121666                                             *)

ASSUME MontgomeryAssumption ==
  /\ MONTGOMERY_A = (2 ** (1 -- EDWARDS_D)) ** Invert(1 ++ EDWARDS_D)
  /\ 4 ** APLUS2_OVER_FOUR = MONTGOMERY_A ++ 2

ED25519_SQRTAM2 == EvenRoot(Minus(MONTGOMERY_A ++ 2))
FE_C2 == SQRT_M1 ++ 1

(* to_montgomery: the identity goes to 0, as the point of order two does. *)
ToMontgomery(P) == (P.Z ++ P.Y) ** Invert(P.Z -- P.Y)
ToMontgomeryBatch(Ps) ==
  LET d == InvertBatch([k \in DOMAIN Ps |-> Ps[k].Z -- Ps[k].Y])
  IN  [k \in DOMAIN Ps |-> (Ps[k].Z ++ Ps[k].Y) ** d[k]]

(* to_edwards: y = (u - 1) / (u + 1), with u = -1 rejected early *)
MontgomeryToEdwards(bytes, sign) ==
  LET u == FromBytes(bytes)
      y == (u -- 1) ** Invert(u ++ 1)
  IN  IF u = p - 1 THEN None ELSE DecompressEdwards(y + sign * Pow2[FieldBits])

(* The ladder's points (U : W) *)
Kummer(U, W) == [U |-> U, W |-> W]
KummerAsAffine(P) == P.U ** Invert(P.W)

(* differential_add_and_double: [2]P and P + Q from P, Q and u(P - Q) *)
DifferentialAddAndDouble(P, Q, affine_PmQ) ==
  LET t0 == P.U ++ P.W
      t1 == P.U -- P.W
      t4 == Square(t0)
      t5 == Square(t1)
      t6 == t4 -- t5
      t7 == t0 ** (Q.U -- Q.W)
      t8 == t1 ** (Q.U ++ Q.W)
  IN  <<Kummer(t4 ** t5, t6 ** ((APLUS2_OVER_FOUR ** t6) ++ t5)),
        Kummer(Square(t7 ++ t8), affine_PmQ ** Square(t7 -- t8))>>

(* mul_bits_be: the pair is swapped when a bit differs from the one before *)
(* it, and once more after the last.                                       *)
SwapIf(condition, pair) == IF condition THEN <<pair[2], pair[1]>> ELSE pair
MulBitsBE(bytes, bits) ==
  LET affine_u == FromBytes(bytes)
      bit(k) == IF k = 0 THEN 0 ELSE bits[k]
      step(pair) == DifferentialAddAndDouble(pair[1], pair[2], affine_u)
      x[k \in 0 .. Len(bits)] ==
        IF k = 0 THEN <<Kummer(1, 0), Kummer(affine_u, 1)>>
        ELSE step(SwapIf(bit(k - 1) # bit(k), x[k - 1]))
  IN  KummerAsAffine(SwapIf(bit(Len(bits)) = 1, x[Len(bits)])[1])

(* elligator_encode: numerator and denominator of u, and v, of r, its      *)
(* denominator 1 + tv1 and the two parts gx1 / gxd of the curve's equation *)
ElligatorRoot(r, tv1, xd, gxd, gx1) ==
  LET x1n == Minus(MONTGOMERY_A)
      tv3 == (Square(gxd) ** gxd) ** gx1
      y11 == PowP58[Square(Square(gxd)) ** tv3] ** tv3
      root(y, gx) == IF Square(y) ** gxd = gx THEN y ELSE y ** SQRT_M1
      y1  == root(y11, gx1)
      y2  == root((y11 ** r) ** FE_C2, gx1 ** tv1)
      e3  == Square(y1) ** gxd = gx1
      y   == IF e3 THEN y1 ELSE y2
  IN  [xn |-> IF e3 THEN x1n ELSE x1n ** tv1, xd |-> xd,
       y  |-> IF e3 # IsNegative(y) THEN Minus(y) ELSE y]
ElligatorEncode(r) ==
  LET tv1 == 2 ** Square(r)
      xd  == 1 ++ tv1
      x1n == Minus(MONTGOMERY_A)
  IN  ElligatorRoot(r, tv1, xd, Square(xd) ** xd,
                    (((MONTGOMERY_A ** tv1) ** x1n) ++ Square(xd)) ** x1n)

(* EdwardsPoint::map_to_curve: the exceptional points go to the identity *)
MontgomeryAsEdwards(m) ==
  LET xn == m.xn ** ED25519_SQRTAM2
      xd == m.xd ** m.y
      yn == m.xn -- m.xd
      yd == m.xn ++ m.xd
  IN  IF xd ** yd = 0 THEN IdentityPoint
      ELSE Extended(xn ** yd, xd ** yn, xd ** yd, xn ** yn)
EdwardsMapToCurve(r) == MontgomeryAsEdwards(ElligatorEncode(r))

(* encode_to_curve and hash_to_curve, of the field elements the message    *)
(* hashes to                                                               *)
EncodeToCurve(r) == EdwardsMulByCofactor(EdwardsMapToCurve(r))
HashToCurve(r0, r1) ==
  EdwardsMulByCofactor(AddEdwards(EdwardsMapToCurve(r0), EdwardsMapToCurve(r1)))
-----------------------------------------------------------------------------
SwIdentity == [identity |-> TRUE]
SwAffine(x, y) == [x |-> x, y |-> y]

MontgomeryAOverThree == MONTGOMERY_A ** Invert(3)
sw_a == 1 -- (Square(MONTGOMERY_A) ** Invert(3))
sw_b == ((Square(MONTGOMERY_A) ** MONTGOMERY_A)
           ** (2 ** (Invert(3) ** Square(Invert(3))))) -- MontgomeryAOverThree
MontgomeryBSqrt == ED25519_SQRTAM2

SwFromEdwards(P) ==
  LET a == ToAffine(P)
      u == (1 ++ a.y) ** Invert(1 -- a.y)
  IN  IF IsIdentityPoint(P) THEN SwIdentity
      ELSE SwAffine(u ++ MontgomeryAOverThree,
                    MontgomeryBSqrt ** (u ** Invert(a.x)))

(* The point of order two, whose y is 0, has no image. *)
SwToEdwards(S) ==
  LET u == S.x -- MontgomeryAOverThree
      x == u ** Invert(S.y ** Invert(MontgomeryBSqrt))
      y == (u -- 1) ** Invert(u ++ 1)
  IN  IF S = SwIdentity THEN IdentityPoint
      ELSE IF S.y = 0 \/ u ++ 1 = 0 THEN None
      ELSE Extended(x, y, 1, x ** y)

SwIsOnCurve(S) ==
  S # SwIdentity =>
    Square(S.y) = ((Square(S.x) ** S.x) ++ (sw_a ** S.x)) ++ sw_b

(* from_affine_le_bytes: two zeros are the identity. *)
SwFromBytes(x, y) ==
  LET S == SwAffine(FromBytes(x), FromBytes(y))
  IN  IF x = 0 /\ y = 0 THEN SwIdentity
      ELSE IF SwIsOnCurve(S) THEN S ELSE None

(* The chord or tangent through two points, cut with the curve. *)
SwThirdPoint(x1, y1, x2, slope) ==
  LET x3 == (Square(slope) -- x1) -- x2
  IN  SwAffine(x3, (slope ** (x1 -- x3)) -- y1)

SwDoubleAffine(x, y) ==
  IF y = 0 THEN SwIdentity
  ELSE SwThirdPoint(x, y, x, ((3 ** Square(x)) ++ sw_a) ** Invert(2 ** y))

SwAdd(S, R) ==
  CASE S = SwIdentity -> R
    [] S # SwIdentity /\ R = SwIdentity -> S
    [] OTHER ->
         IF S.x = R.x /\ S.y = Minus(R.y) THEN SwIdentity
         ELSE IF S.x = R.x /\ S.y = R.y THEN SwDoubleAffine(S.x, S.y)
         ELSE SwThirdPoint(S.x, S.y, R.x, (R.y -- S.y) ** Invert(R.x -- S.x))
=============================================================================

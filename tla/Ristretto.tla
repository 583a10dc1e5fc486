----------------------------- MODULE Ristretto ------------------------------
(***************************************************************************)
(* RistrettoPoint: an EdwardsPoint that stands for its coset by the        *)
(* four-torsion, with the encoding, the equality and the Elligator map of  *)
(* that quotient, the inverse of that map and the Lizard encoding of data  *)
(* in a point.                                                             *)
(***************************************************************************)
EXTENDS MontgomeryForm, FiniteSets

INVSQRT_A_MINUS_D == EvenRoot(Invert(Minus(1 ++ EDWARDS_D)))
SQRT_AD_MINUS_ONE == Minus(EvenRoot(Minus(1 ++ EDWARDS_D)))
ONE_MINUS_EDWARDS_D_SQUARED == 1 -- Square(EDWARDS_D)
EDWARDS_D_MINUS_ONE_SQUARED == Square(EDWARDS_D -- 1)

(* decompress: only the canonical, nonnegative s of a point whose xy is    *)
(* nonnegative and whose y is not zero is accepted.                        *)
RistrettoV(u1, u2) == (Minus(EDWARDS_D) ** Square(u1)) -- Square(u2)
RistrettoPointOf(s, u1, u2, root) ==
  LET Dx == root ** u2
      x  == Magnitude((s ++ s) ** Dx)
      y  == u1 ** (root ** (Dx ** RistrettoV(u1, u2)))
  IN  Extended(x, y, 1, x ** y)
RistrettoStep1(bytes) == FromBytes(bytes) = bytes /\ ~ IsNegative(FromBytes(bytes))
RistrettoStep2With(s, u1, u2, I) ==
  [ok |-> I.square, res |-> RistrettoPointOf(s, u1, u2, I.root)]
RistrettoStep2(s) ==
  LET u1 == 1 -- Square(s)
      u2 == 1 ++ Square(s)
  IN  RistrettoStep2With(s, u1, u2, InvSqrt(RistrettoV(u1, u2) ** Square(u2)))
RistrettoVerdict(step2) ==
  IF ~ step2.ok \/ IsNegative(step2.res.T) \/ step2.res.Y = 0 THEN None ELSE step2.res
DecompressRistretto(bytes) ==
  IF RistrettoStep1(bytes) THEN RistrettoVerdict(RistrettoStep2(FromBytes(bytes)))
  ELSE None

CompressOf(P, den, X, Y, z_inv) ==
  Magnitude(den ** (P.Z -- IF IsNegative(X ** z_inv) THEN Minus(Y) ELSE Y))
CompressRotated(P, i1, i2, z_inv) ==
  IF IsNegative(P.T ** z_inv)
  THEN CompressOf(P, i1 ** INVSQRT_A_MINUS_D, P.Y ** SQRT_M1, P.X ** SQRT_M1, z_inv)
  ELSE CompressOf(P, i2, P.X, P.Y, z_inv)
CompressFrom(P, i1, i2) == CompressRotated(P, i1, i2, i1 ** (i2 ** P.T))
CompressRistretto(P) ==
  LET u1 == (P.Z ++ P.Y) ** (P.Z -- P.Y)
      u2 == P.X ** P.Y
      i  == InvSqrt(u1 ** Square(u2)).root
  IN  CompressFrom(P, i ** u1, i ** u2)

(* double_and_compress_batch: the encodings of the doubles, with one       *)
(* inversion for all of them.                                              *)
BatchCompressState(P) ==
  LET ZZ  == Square(P.Z)
      dTT == Square(P.T) ** EDWARDS_D
      e == P.X ** (P.Y ++ P.Y)
      f == ZZ ++ dTT
      g == Square(P.Y) ++ Square(P.X)
      h == ZZ -- dTT
  IN  [e |-> e, f |-> f, g |-> g, h |-> h, eg |-> e ** g, fh |-> f ** h]
CompressState(st, inv) ==
  LET Zinv   == st.eg ** inv
      Tinv   == st.fh ** inv
      rotate == IsNegative(st.eg ** Zinv)
      e      == IF rotate THEN st.g ELSE st.e
      g      == IF rotate THEN Minus(st.e) ELSE st.g
      h      == IF rotate THEN st.f ** SQRT_M1 ELSE st.h
      magic  == IF rotate THEN SQRT_M1 ELSE INVSQRT_A_MINUS_D
      gs     == IF IsNegative((h ** e) ** Zinv) THEN Minus(g) ELSE g
  IN  Magnitude((h -- gs) ** (magic ** (gs ** Tinv)))
DoubleAndCompressBatch(Ps) ==
  LET st   == [k \in DOMAIN Ps |-> BatchCompressState(Ps[k])]
      invs == InvertBatch([k \in DOMAIN Ps |-> st[k].eg ** st[k].fh])
  IN  [k \in DOMAIN Ps |-> CompressState(st[k], invs[k])]

(* Mutant of EqRistretto: the second comparison is left out. *)
EqRistrettoByOne(P, Q) == P.X ** Q.Y = P.Y ** Q.X
(* PartialEq: the points differ by a four-torsion point. *)
EqRistretto(P, Q) ==
  \/ P.X ** Q.Y = P.Y ** Q.X
  \/ P.X ** Q.X = P.Y ** Q.Y

(* elligator_ristretto_flavor *)
ElligatorPoint(r, D, c, s) ==
  LET N_t == ((c ** (r -- 1)) ** EDWARDS_D_MINUS_ONE_SQUARED) -- D
      ss  == Square(s)
  IN  CompletedAsExtended([X |-> (s ++ s) ** D, Z |-> N_t ** SQRT_AD_MINUS_ONE,
                           Y |-> 1 -- ss, T |-> 1 ++ ss])
ElligatorWith(r0, r, D, q) ==
  IF q.square THEN ElligatorPoint(r, D, Minus(1), q.root)
  ELSE ElligatorPoint(r, D, r, Minus(Magnitude(q.root ** r0)))
ElligatorRistretto(r0) ==
  LET r   == SQRT_M1 ** Square(r0)
      N_s == (r ++ 1) ** ONE_MINUS_EDWARDS_D_SQUARED
      D   == (Minus(1) -- (EDWARDS_D ** r)) ** (r ++ EDWARDS_D)
  IN  ElligatorWith(r0, r, D, SqrtRatioI(N_s, D))

(* map_to_curve and from_uniform_bytes *)
RistrettoMapToCurve(bytes) == ElligatorRistretto(FromBytes(bytes))
FromUniformBytes(b1, b2) ==
  AddEdwards(RistrettoMapToCurve(b1), RistrettoMapToCurve(b2))
-----------------------------------------------------------------------------
SQRT_ID == EvenRoot(SQRT_M1 ** EDWARDS_D)
DP1_OVER_DM1 == (EDWARDS_D ++ 1) ** Invert(EDWARDS_D -- 1)
MDOUBLE_INVSQRT_A_MINUS_D == Minus(INVSQRT_A_MINUS_D ++ INVSQRT_A_MINUS_D)
MIDOUBLE_INVSQRT_A_MINUS_D == MDOUBLE_INVSQRT_A_MINUS_D ** SQRT_M1
MINVSQRT_ONE_PLUS_D == SQRT_M1 ** INVSQRT_A_MINUS_D

Undefined == -1

(* Mutant of EInvPositive: the sign of s is not looked at. *)
EInvPositiveUnsigned(J) ==
  LET a   == (J.T ++ 1) ** DP1_OVER_DM1
      s2  == Square(J.S)
      y   == InvSqrt((Square(s2) -- Square(a)) ** SQRT_M1)
  IN  IF J.S = 0 THEN IF J.T = 1 THEN SQRT_ID ELSE 0
      ELSE IF y.square THEN Magnitude((a ++ s2) ** y.root) ELSE Undefined
(* JacobiPoint::e_inv_positive and dual *)
EInvPositive(J) ==
  LET a   == (J.T ++ 1) ** DP1_OVER_DM1
      s2  == Square(J.S)
      y   == InvSqrt((Square(s2) -- Square(a)) ** SQRT_M1)
      pms == IF IsNegative(J.S) THEN Minus(s2) ELSE s2
  IN  IF J.S = 0 THEN IF J.T = 1 THEN SQRT_ID ELSE 0
      ELSE IF y.square THEN Magnitude((a ++ pms) ** y.root) ELSE Undefined
Dual(J) == [S |-> Minus(J.S), T |-> Minus(J.T)]

(* to_jacobi_quartic_ristretto: a point of the quartic for each of the     *)
(* four points of the coset                                                *)
QuarticPoints(P, y2, zy, gamma) ==
  LET den  == gamma ** y2
      s_x  == den ** (P.Z -- P.Y)
      sp_x == den ** (P.Z ++ P.Y)
      m    == MDOUBLE_INVSQRT_A_MINUS_D ** P.Z
      den2 == (Minus(zy) ** MINVSQRT_ONE_PLUS_D) ** gamma
      iz   == SQRT_M1 ** P.Z
      s_y  == den2 ** (iz -- P.X)
      sp_y == den2 ** (iz ++ P.X)
      mi   == MDOUBLE_INVSQRT_A_MINUS_D ** iz
      zero == P.X = 0 \/ P.Y = 0
      J(s, t) == [S |-> s, T |-> t]
      first == <<s_x ** P.X, Minus(sp_x) ** P.X>>
  IN  IF zero
      THEN <<J(first[1], 1), J(first[2], 1), J(1, MIDOUBLE_INVSQRT_A_MINUS_D),
             J(Minus(1), MIDOUBLE_INVSQRT_A_MINUS_D)>>
      ELSE <<J(first[1], m ** s_x), J(first[2], m ** sp_x),
             J(s_y ** P.Y, mi ** s_y), J(Minus(sp_y) ** P.Y, mi ** sp_y)>>
ToJacobiQuartic(P) ==
  LET y2 == Square(P.Y)
      zy == Square(P.Z) -- y2
  IN  QuarticPoints(P, y2, zy, InvSqrt((Square(y2) ** Square(P.X)) ** zy).root)

(* elligator_ristretto_flavor_inverse: eight inverses, then their          *)
(* negatives; an undefined one stays undefined.                            *)
WithNegatives(pos) ==
  pos \o [k \in 1 .. 8 |-> IF pos[k] = Undefined THEN Undefined ELSE Minus(pos[k])]
InversesOf(jcs) ==
  WithNegatives([k \in 1 .. 8 |->
    LET J == jcs[(k + 1) \div 2] IN EInvPositive(IF k % 2 = 1 THEN J ELSE Dual(J))])
ElligatorInverses(P) == InversesOf(ToJacobiQuartic(P))

(* The layout of a Lizard element: data between two parts of its digest,   *)
(* the lowest bit and those above the field's clear.                       *)
CONSTANTS
  DataBits,  (* 128                                                        *)
  LowBits,   (* bits below the data, 64                                    *)
  Digest     (* the digest of each datum, of FieldBits + 1 bits            *)

LizardAssumption ==
  /\ DataBits \in Nat /\ LowBits \in Nat /\ DataBits + LowBits < FieldBits - 1
  /\ Digest \in [0 .. Pow2[DataBits] - 1 -> 0 .. Pow2[FieldBits + 1] - 1]

LizardData == 0 .. Pow2[DataBits] - 1
LizardElement(data) ==
  LET digest == Digest[data]
      low    == digest % Pow2[LowBits]
      high   == digest \div Pow2[LowBits + DataBits]
      mixed  == low + Pow2[LowBits] * (data + Pow2[DataBits] * high)
  IN  (mixed % Pow2[FieldBits - 1]) - (mixed % 2)

LizardEncode(data) == RistrettoMapToCurve(LizardElement(data))

(* lizard_decode: the last inverse that is well formed, if just one is.    *)
DataIn(fes) ==
  LET dataOf(f) == (f \div Pow2[LowBits]) % Pow2[DataBits]
      found   == {k \in 1 .. 16 : fes[k] # Undefined
                                  /\ fes[k] = LizardElement(dataOf(fes[k]))}
  IN  IF Cardinality(found) = 1 THEN dataOf(fes[CHOOSE k \in found : TRUE])
      ELSE Undefined
LizardDecode(P) == DataIn(ElligatorInverses(P))
=============================================================================

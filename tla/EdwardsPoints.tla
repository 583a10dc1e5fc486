--------------------------- MODULE EdwardsPoints ----------------------------
(***************************************************************************)
(* The serial back end's coordinates of a point (x, y) of the curve -x^2 + *)
(* y^2 = 1 + d x^2 y^2: extended (x = X/Z, y = Y/Z, xy = T/Z), projective  *)
(* (x = X/Z, y = Y/Z), completed (x = X/Z, y = Y/T), projective Niels (Y + *)
(* X, Y - X, Z and 2dT, of extended coordinates) and affine Niels (y + x,  *)
(* y - x and 2dxy). An EdwardsPoint has extended coordinates; a            *)
(* CompressedEdwardsY is a string of FieldBits for y and, above them, the  *)
(* sign of x.                                                              *)
(***************************************************************************)
EXTENDS CurveReference

EDWARDS_D2 == EDWARDS_D ++ EDWARDS_D

Extended(X, Y, Z, T) == [X |-> X, Y |-> Y, Z |-> Z, T |-> T]
IdentityPoint == Extended(0, 1, 1, 0)

(* ValidityCheck of ProjectivePoint and of EdwardsPoint *)
IsValidProjective(P) ==
  LET XX == Square(P.X) YY == Square(P.Y) ZZ == Square(P.Z)
  IN  (YY -- XX) ** ZZ = Square(ZZ) ++ (EDWARDS_D ** (XX ** YY))
IsValidExtended(P) == IsValidProjective(P) /\ P.X ** P.Y = P.Z ** P.T

AsProjective(P) == [X |-> P.X, Y |-> P.Y, Z |-> P.Z]
AsProjectiveNiels(P) ==
  [Y_plus_X |-> P.Y ++ P.X, Y_minus_X |-> P.Y -- P.X, Z |-> P.Z,
   T2d |-> P.T ** EDWARDS_D2]
NielsOf(x, y) ==
  [Y_plus_X |-> y ++ x, Y_minus_X |-> y -- x, T2d |-> (x ** y) ** EDWARDS_D2]
AsAffineNiels(P) ==
  LET recip == Invert(P.Z) IN NielsOf(P.X ** recip, P.Y ** recip)

ProjectiveAsExtended(P) ==
  Extended(P.X ** P.Z, P.Y ** P.Z, Square(P.Z), P.X ** P.Y)
CompletedAsProjective(P) ==
  [X |-> P.X ** P.T, Y |-> P.Y ** P.Z, Z |-> P.Z ** P.T]
(* Mutant of CompletedAsExtended: T is X * T. *)
CompletedAsExtendedByT(P) ==
  Extended(P.X ** P.T, P.Y ** P.Z, P.Z ** P.T, P.X ** P.T)
CompletedAsExtended(P) ==
  Extended(P.X ** P.T, P.Y ** P.Z, P.Z ** P.T, P.X ** P.Y)

(* ProjectivePoint::double *)
DoubleProjective(P) ==
  LET XX == Square(P.X)
      YY == Square(P.Y)
      ZZ2 == 2 ** Square(P.Z)
      sum == YY ++ XX
      difference == YY -- XX
  IN  Extended(Square(P.X ++ P.Y) -- sum, sum, difference, ZZ2 -- difference)

(* The four additions and subtractions: of a point whose denominator is    *)
(* other, Z for projective Niels and 1 for affine Niels coordinates.       *)
AddScaled(P, N, other) ==
  LET PP == (P.Y ++ P.X) ** N.Y_plus_X
      MM == (P.Y -- P.X) ** N.Y_minus_X
      TT2d == P.T ** N.T2d
      ZZ == P.Z ** other
  IN  Extended(PP -- MM, PP ++ MM, (ZZ ++ ZZ) ++ TT2d, (ZZ ++ ZZ) -- TT2d)
SubScaled(P, N, other) ==
  LET PM == (P.Y ++ P.X) ** N.Y_minus_X
      MP == (P.Y -- P.X) ** N.Y_plus_X
      TT2d == P.T ** N.T2d
      ZZ == P.Z ** other
  IN  Extended(PM -- MP, PM ++ MP, (ZZ ++ ZZ) -- TT2d, (ZZ ++ ZZ) ++ TT2d)

AddProjectiveNiels(P, N) == AddScaled(P, N, N.Z)
AddAffineNiels(P, N) == AddScaled(P, N, 1)
SubProjectiveNiels(P, N) == SubScaled(P, N, N.Z)
SubAffineNiels(P, N) == SubScaled(P, N, 1)

(* Neg of the Niels coordinates *)
NegNiels(N) == [N EXCEPT !.Y_plus_X = N.Y_minus_X, !.Y_minus_X = N.Y_plus_X,
                         !.T2d = Minus(N.T2d)]
-----------------------------------------------------------------------------
None == [none |-> TRUE]

SignBit(s) == s \div Pow2[FieldBits]

(* decompress::step_1 and step_2: y is reduced modulo p, and the sign of a *)
(* zero x is not looked at.                                                *)
DecompressStep1(Y) == SqrtRatioI(Square(Y) -- 1, (Square(Y) ** EDWARDS_D) ++ 1)
DecompressStep2(s, Y, root) ==
  LET x == IF SignBit(s) = 1 THEN Minus(root) ELSE root IN Extended(x, Y, 1, x ** Y)
DecompressWith(s, X) ==
  IF X.square THEN DecompressStep2(s, FromBytes(s), X.root) ELSE None
DecompressEdwards(s) == DecompressWith(s, DecompressStep1(FromBytes(s)))

(* AffinePoint *)
Dehomogenize(P, recip) == [x |-> P.X ** recip, y |-> P.Y ** recip]
ToAffine(P) == Dehomogenize(P, Invert(P.Z))
AffineToEdwards(a) == Extended(a.x, a.y, 1, a.x ** a.y)
CompressAffine(a) == a.y + (IF IsNegative(a.x) THEN Pow2[FieldBits] ELSE 0)

CompressEdwards(P) == CompressAffine(ToAffine(P))

(* compress_batch: one inversion for all the points. *)
CompressBatch(Ps) ==
  LET zs == InvertBatch([k \in DOMAIN Ps |-> Ps[k].Z])
  IN  [k \in DOMAIN Ps |-> CompressAffine([x |-> Ps[k].X ** zs[k],
                                           y |-> Ps[k].Y ** zs[k]])]

(* PartialEq: equality of X/Z and Y/Z without an inversion *)
EqEdwards(P, Q) == P.X ** Q.Z = Q.X ** P.Z /\ P.Y ** Q.Z = Q.Y ** P.Z
IsIdentityPoint(P) == EqEdwards(P, IdentityPoint)

DoubleEdwards(P) == CompletedAsExtended(DoubleProjective(AsProjective(P)))
AddEdwards(P, Q) ==
  CompletedAsExtended(AddProjectiveNiels(P, AsProjectiveNiels(Q)))
SubEdwards(P, Q) ==
  CompletedAsExtended(SubProjectiveNiels(P, AsProjectiveNiels(Q)))
NegEdwards(P) == [P EXCEPT !.X = Minus(P.X), !.T = Minus(P.T)]

(* Sum: a fold from the identity *)
SumEdwards(Ps) ==
  LET sum[k \in 0 .. Len(Ps)] ==
        IF k = 0 THEN IdentityPoint ELSE AddEdwards(sum[k - 1], Ps[k])
  IN  sum[Len(Ps)]

(* mul_by_pow_2: k - 1 doublings through projective coordinates, the last  *)
(* one to extended ones                                                    *)
(* A step of a loop, from a value that has been computed: TLC would put    *)
(* off all of them to the end.                                             *)
Then(v, step(_)) == CHOOSE w \in {step(u) : u \in {v}} : TRUE

(* From start, a step for each place from top down to 0, in four parts:    *)
(* TLC's stack holds one.                                                  *)
Descend(top, start, step(_, _)) ==
  LET part(v, hi, lo) ==
        LET r[i \in lo .. hi + 1] ==
              IF i = hi + 1 THEN v ELSE Then(r[i + 1], LAMBDA u : step(u, i))
        IN  r[lo]
      cut(n) == (n * (top + 1)) \div 4
  IN  Then(Then(Then(part(start, top, cut(3)),
                     LAMBDA u : part(u, cut(3) - 1, cut(2))),
                LAMBDA u : part(u, cut(2) - 1, cut(1))),
           LAMBDA u : part(u, cut(1) - 1, 0))

EdwardsMulByPow2(P, k) ==
  CompletedAsExtended(DoubleProjective(
    Descend(k - 2, AsProjective(P),
            LAMBDA Q, i : CompletedAsProjective(DoubleProjective(Q)))))

EdwardsMulByCofactor(P) == EdwardsMulByPow2(P, 3)
IsSmallOrder(P) == IsIdentityPoint(EdwardsMulByCofactor(P))

(* Multiplication by a scalar; module ScalarMul shows that the loops that  *)
(* compute it are equivalent to this double-and-add.                       *)
MulEdwards(n, P) ==
  LET m[k \in Nat] ==
        IF k = 0 THEN IdentityPoint
        ELSE IF k % 2 = 0 THEN DoubleEdwards(m[k \div 2])
        ELSE AddEdwards(DoubleEdwards(m[k \div 2]), P)
  IN  m[n]

IsTorsionFree(P) == IsIdentityPoint(MulEdwards(BasepointOrder, P))

(* CofactorGroup: into_subgroup *)
IntoSubgroup(P) == IF IsTorsionFree(P) THEN P ELSE None

(* random: the first string the generator gives that decodes to a point    *)
(* that is not the identity                                                *)
IsRandomAccepted(s) ==
  LET P == DecompressEdwards(s) IN P # None /\ ~ IsIdentityPoint(P)
=============================================================================

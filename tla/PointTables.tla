---------------------------- MODULE PointTables -----------------------------
(***************************************************************************)
(* The AVX2 back end's points: four lanes A, B, C, D of field elements,    *)
(* moved by shuffles and blends. An ExtendedPoint holds (X, Y, Z, T); a    *)
(* CachedPoint holds (Y - X, Y + X, 2Z, 2dT) times n, where d is -(n -     *)
(* 1)/n and n = (A + 2)/4. And the lookup tables of both back ends:        *)
(* multiples P, 2P, ... for centered digits and odd multiples P, 3P, ...   *)
(* for non-adjacent forms, in projective Niels, affine Niels or cached     *)
(* coordinates, and those generated for the basepoint.                     *)
(***************************************************************************)
EXTENDS MontgomeryForm, Powers

Vector(a, b, c, d) == <<a, b, c, d>>

(* shuffle and blend: a permutation of the lanes, written as the sources   *)
(* of lanes A to D; the lanes of a set taken from another vector.          *)
Shuffle(v, control) == <<v[control[1]], v[control[2]], v[control[3]], v[control[4]]>>
Blend(v, other, lanes) ==
  <<IF 1 \in lanes THEN other[1] ELSE v[1], IF 2 \in lanes THEN other[2] ELSE v[2],
    IF 3 \in lanes THEN other[3] ELSE v[3], IF 4 \in lanes THEN other[4] ELSE v[4]>>
VAdd(v, u) == <<v[1] ++ u[1], v[2] ++ u[2], v[3] ++ u[3], v[4] ++ u[4]>>
VMul(v, u) == <<v[1] ** u[1], v[2] ** u[2], v[3] ** u[3], v[4] ** u[4]>>
VNeg(v) == <<Minus(v[1]), Minus(v[2]), Minus(v[3]), Minus(v[4])>>
VZero == <<0, 0, 0, 0>>

(* diff_sum: (B - A, B + A, D - C, D + C) *)
DiffSum(v) == VAdd(Shuffle(v, <<2, 1, 4, 3>>), Blend(v, VNeg(v), {1, 3}))
SquareAndNegateD(v) == Blend(VMul(v, v), VNeg(VMul(v, v)), {4})

FromEdwards(P) == Vector(P.X, P.Y, P.Z, P.T)
ToEdwards(v) == Extended(v[1], v[2], v[3], v[4])
ExtendedPointIdentity == Vector(0, 1, 1, 0)

(* ExtendedPoint::double *)
ProductOf(sum, left, right) == VMul(Shuffle(sum, left), Shuffle(sum, right))
DoubleSums(tmp1) ==
  LET S_1  == Shuffle(tmp1, <<1, 1, 1, 1>>)
      S_2  == Shuffle(tmp1, <<2, 2, 2, 2>>)
      base == Blend(Blend(VZero, VAdd(tmp1, tmp1), {3}), tmp1, {4})
  IN  VAdd(VAdd(VAdd(base, S_1), Blend(VZero, S_2, {1, 4})),
           Blend(VZero, VNeg(S_2), {2, 3}))
VectorDouble(v) ==
  LET ABAB == Shuffle(v, <<1, 2, 1, 2>>)
      tmp0 == Blend(v, VAdd(ABAB, Shuffle(ABAB, <<2, 1, 4, 3>>)), {4})
  IN  ProductOf(DoubleSums(SquareAndNegateD(tmp0)), <<3, 1, 3, 1>>, <<4, 2, 2, 4>>)

VectorMulByPow2(v, n) == Descend(n - 1, v, LAMBDA u, i : VectorDouble(u))

(* From<ExtendedPoint> for CachedPoint *)
Cache(v) ==
  LET n == APLUS2_OVER_FOUR
      x == VMul(Blend(v, DiffSum(v), {1, 2}),
                Vector(n, n, 2 ** n, 2 ** (n -- 1)))
  IN  Blend(x, VNeg(x), {4})

(* Mutant of NegCached: 2dT keeps its sign. *)
NegCachedKeepsT(c) == Shuffle(c, <<2, 1, 3, 4>>)
NegCached(c) ==
  LET swapped == Shuffle(c, <<2, 1, 3, 4>>) IN Blend(swapped, VNeg(swapped), {4})

(* Add<CachedPoint> for ExtendedPoint, and Sub as the sum with a negative *)
VectorAdd(v, c) ==
  LET prod == VMul(Blend(v, DiffSum(v), {1, 2}), c)
      tmp  == DiffSum(Shuffle(prod, <<1, 2, 4, 3>>))
  IN  ProductOf(tmp, <<1, 4, 4, 1>>, <<3, 2, 3, 2>>)
VectorSub(v, c) == VectorAdd(v, NegCached(c))
-----------------------------------------------------------------------------
CONSTANTS
  NafWidth,       (* of NafLookupTable5, 5                                 *)
  BigWidth,       (* of NafLookupTable8, 8                                 *)
  ED25519_BASEPOINT_POINT, ED25519_BASEPOINT_128_POINT

Half == MulBits \div 2   (* where mul_128_128_256 cuts its long scalar *)

(* Coordinates of the point e *)
Represents(P, e) ==
  P.Z # 0 /\ e.x ** P.Z = P.X /\ e.y ** P.Z = P.Y /\ P.X ** P.Y = P.Z ** P.T

(* The basepoint is the one that is encoded; the second is its multiple.   *)
ASSUME TablesAssumption ==
  /\ NafWidth \in 2 .. 8 /\ BigWidth \in NafWidth .. 8
  /\ InSubgroup[Generator]
  /\ Represents(ED25519_BASEPOINT_POINT, Generator)
  /\ Represents(ED25519_BASEPOINT_128_POINT, Times(2^Half, Generator))

(* The identities of the entries *)
ProjectiveNielsIdentity == [Y_plus_X |-> 1, Y_minus_X |-> 1, Z |-> 1, T2d |-> 0]
AffineNielsIdentity == [Y_plus_X |-> 1, Y_minus_X |-> 1, T2d |-> 0]
CachedPointIdentity == Vector(APLUS2_OVER_FOUR, APLUS2_OVER_FOUR, 2 ** APLUS2_OVER_FOUR, 0)

(* conditional_select of every type of coordinates goes field by field.    *)
ChooseField(a, b, choice) == IF choice THEN b ELSE a
ChooseProjectiveNiels(a, b, choice) ==
  [Y_plus_X |-> ChooseField(a.Y_plus_X, b.Y_plus_X, choice),
   Y_minus_X |-> ChooseField(a.Y_minus_X, b.Y_minus_X, choice),
   Z |-> ChooseField(a.Z, b.Z, choice), T2d |-> ChooseField(a.T2d, b.T2d, choice)]
ChooseAffineNiels(a, b, choice) ==
  [Y_plus_X |-> ChooseField(a.Y_plus_X, b.Y_plus_X, choice),
   Y_minus_X |-> ChooseField(a.Y_minus_X, b.Y_minus_X, choice),
   T2d |-> ChooseField(a.T2d, b.T2d, choice)]
ChooseCached(a, b, choice) ==
  <<ChooseField(a[1], b[1], choice), ChooseField(a[2], b[2], choice),
    ChooseField(a[3], b[3], choice), ChooseField(a[4], b[4], choice)>>

(* select: every entry is looked at, and the one of |d| is kept. *)
Select(table, d, identity, choose(_, _, _), negate(_)) ==
  LET xabs == Abs(d)
      t[k \in 0 .. Len(table)] ==
        IF k = 0 THEN identity ELSE choose(t[k - 1], table[k], xabs = k)
  IN  IF d < 0 THEN negate(t[Len(table)]) ELSE t[Len(table)]

(* n entries, each made of the one before it *)
Entries(n, first, next(_)) ==
  LET t[k \in 1 .. n] ==
        IF k = 1 THEN <<first>>
        ELSE Then(t[k - 1], LAMBDA prior : Append(prior, next(prior[k - 1])))
  IN  t[n]

ProjectiveMultiples(P, n) ==
  Entries(n, AsProjectiveNiels(P),
    LAMBDA e : AsProjectiveNiels(CompletedAsExtended(AddProjectiveNiels(P, e))))
AffineMultiples(P, n) ==
  Entries(n, AsAffineNiels(P),
    LAMBDA e : AsAffineNiels(CompletedAsExtended(AddAffineNiels(P, e))))
CachedMultiples(P, n) ==
  Entries(n, Cache(FromEdwards(P)), LAMBDA e : Cache(VectorAdd(FromEdwards(P), e)))

ProjectiveOdds5(P) ==
  LET A2 == DoubleEdwards(P)
  IN  Entries(2^(NafWidth - 2), AsProjectiveNiels(P),
        LAMBDA e : AsProjectiveNiels(CompletedAsExtended(AddProjectiveNiels(A2, e))))
ProjectiveOdds8(P) ==
  LET A2 == DoubleEdwards(P)
  IN  Entries(2^(BigWidth - 2), AsProjectiveNiels(P),
        LAMBDA e : AsProjectiveNiels(CompletedAsExtended(AddProjectiveNiels(A2, e))))
AffineOdds5(P) ==
  LET A2 == DoubleEdwards(P)
  IN  Entries(2^(NafWidth - 2), AsAffineNiels(P),
        LAMBDA e : AsAffineNiels(CompletedAsExtended(AddAffineNiels(A2, e))))
AffineOdds8(P) ==
  LET A2 == DoubleEdwards(P)
  IN  Entries(2^(BigWidth - 2), AsAffineNiels(P),
        LAMBDA e : AsAffineNiels(CompletedAsExtended(AddAffineNiels(A2, e))))
CachedOdds5(P) ==
  LET A2 == VectorDouble(FromEdwards(P))
  IN  Entries(2^(NafWidth - 2), Cache(FromEdwards(P)),
              LAMBDA e : Cache(VectorAdd(A2, e)))
CachedOdds8(P) ==
  LET A2 == VectorDouble(FromEdwards(P))
  IN  Entries(2^(BigWidth - 2), Cache(FromEdwards(P)),
              LAMBDA e : Cache(VectorAdd(A2, e)))

(* The generated constants; the one of the name AFFINE_.._128 is in *)
(* projective coordinates.                                                 *)
AFFINE_ODD_MULTIPLES_OF_BASEPOINT == AffineOdds8(ED25519_BASEPOINT_POINT)
AFFINE_ODD_MULTIPLES_OF_BASEPOINT_128 == ProjectiveOdds5(ED25519_BASEPOINT_128_POINT)
BASEPOINT_ODD_LOOKUP_TABLE == CachedOdds8(ED25519_BASEPOINT_POINT)
BASEPOINT_128_ODD_LOOKUP_TABLE == CachedOdds5(ED25519_BASEPOINT_128_POINT)

(* BasepointTable: entry k is for place 2k of digits of n bits. *)
CreateTable(P, n) ==
  LET t[k \in 1 .. MulBits \div 8] ==
        IF k = 1 THEN P ELSE Then(t[k - 1], LAMBDA at : EdwardsMulByPow2(at, n + n))
  IN  [k \in 1 .. MulBits \div 8 |-> AffineMultiples(t[k], 2^(n - 1))]
SelectAffine(table, d) ==
  Select(table, d, AffineNielsIdentity, ChooseAffineNiels, NegNiels)
TableBasepoint(tables) ==
  CompletedAsExtended(AddAffineNiels(IdentityPoint, SelectAffine(tables[1], 1)))
ED25519_BASEPOINT_TABLE == CreateTable(ED25519_BASEPOINT_POINT, 4)
=============================================================================

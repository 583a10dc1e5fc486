----------------------------- MODULE PointTypes -----------------------------
(***************************************************************************)
(* The scalar multiplications of both back ends on their coordinates: the  *)
(* loops of module ScalarMul, from an accumulator's coordinates to         *)
(* another's, where a back end differs in them, in its tables and in where *)
(* it starts, and each function of backend.rs takes the one that           *)
(* get_selected_backend finds. And what EdwardsPoint, SubgroupPoint,       *)
(* RistrettoPoint, AffinePoint and MontgomeryPoint offer on top of them:   *)
(* multiplications, tables, selections, identities, encodings from slices  *)
(* and sequences, and hashing of messages.                                 *)
(***************************************************************************)
EXTENDS PointTables, Ristretto

Panic == [panic |-> TRUE]
Serial == "serial"
Avx2 == "avx2"
Backends == {Serial, Avx2}

SizeHint(w) == ((MulBits + w - 1) \div w) + (IF w = 8 THEN 1 ELSE 0)
RadixOf(n, w) == Radix(n, w, SizeHint(w))
NafOf(n, w) == Naf(n, w, MulBits)
Each(f(_), xs) == [k \in DOMAIN xs |-> f(xs[k])]

(* Over non-adjacent forms: double, then an addition or a subtraction for  *)
(* each digit that is not zero.                                            *)
NafLoop(nafs, tables, top, zero, double(_), plus(_, _), less(_, _)) ==
  LET column(sum, i) ==
        LET t[k \in 0 .. Len(tables)] ==
              IF k = 0 THEN double(sum)
              ELSE LET d == nafs[k][i] IN
                   Then(t[k - 1], LAMBDA prior :
                     IF d > 0 THEN plus(prior, tables[k][d \div 2 + 1])
                     ELSE IF d < 0 THEN less(prior, tables[k][Abs(d) \div 2 + 1])
                     ELSE prior)
        IN  t[Len(tables)]
  IN  Descend(top, zero, column)
TopPlace(nafs, limit) ==
  LET used == {i \in 0 .. limit : \E k \in DOMAIN nafs : nafs[k][i] # 0}
  IN  IF used = {} THEN 0 ELSE CHOOSE i \in used : \A j \in used : j <= i

(* Over centered digits: shift, then the entry of each digit *)
RadixLoop(digits, tables, top, start, shift(_), plus(_, _)) ==
  LET column(sum, j) ==
        LET t[k \in 0 .. Len(tables)] ==
              IF k = 0 THEN shift(sum)
              ELSE Then(t[k - 1], LAMBDA prior : plus(prior, <<tables[k], digits[k][j]>>))
        IN  t[Len(tables)]
  IN  Descend(top, start, column)

(* Pippenger's column: the buckets, and the sum of their running sums.     *)
BucketColumn(rows, pts, j, w, zero, plus(_, _), less(_, _), merge(_, _)) ==
  LET last == 2^(w - 1)
      bucket(b) ==
        LET t[k \in 0 .. Len(pts)] ==
              IF k = 0 THEN zero
              ELSE Then(t[k - 1], LAMBDA sum :
                     IF rows[k][j] = b THEN plus(sum, pts[k])
                     ELSE IF rows[k][j] = -b THEN less(sum, pts[k]) ELSE sum)
        IN  t[Len(pts)]
      both(u) == <<u, u>>
      grown(prior, running) == <<running, merge(prior[2], running)>>
      s[b \in 1 .. last] ==
        IF b = last THEN both(bucket(b))
        ELSE Then(s[b + 1], LAMBDA prior : grown(prior, merge(prior[1], bucket(b))))
  IN  s[1][2]

(* The columns, of weights 1, 2^w, 2^2w, .. *)
Horner(columns, top, shift(_), merge(_, _)) ==
  LET total[j \in 0 .. top] ==
        IF j = top THEN columns[j] ELSE merge(shift(total[j + 1]), columns[j])
  IN  total[0]
-----------------------------------------------------------------------------
(* Serial: an accumulator is completed when it leaves a step; entries are  *)
(* projective Niels or, from the basepoint's table, affine Niels points.   *)
AddEntry(P, e) ==
  IF "Z" \in DOMAIN e THEN AddProjectiveNiels(P, e) ELSE AddAffineNiels(P, e)
SubEntry(P, e) ==
  IF "Z" \in DOMAIN e THEN SubProjectiveNiels(P, e) ELSE SubAffineNiels(P, e)
CompletedIdentity == Extended(0, 1, 1, 1)
SerialNafs(nafs, tables, top) ==
  ProjectiveAsExtended(CompletedAsProjective(
    NafLoop(nafs, tables, top, CompletedIdentity,
            LAMBDA t : DoubleProjective(CompletedAsProjective(t)),
            LAMBDA t, e : AddEntry(CompletedAsExtended(t), e),
            LAMBDA t, e : SubEntry(CompletedAsExtended(t), e))))
SerialNafsFromTop(nafs, tables, limit) == SerialNafs(nafs, tables, TopPlace(nafs, limit))
SelectProjective(table, d) ==
  Select(table, d, ProjectiveNielsIdentity, ChooseProjectiveNiels, NegNiels)

(* The top column of variable_base is unrolled. *)
SerialVariableBase(P, n) ==
  LET table  == ProjectiveMultiples(P, 8)
      digits == RadixOf(n, 4)
      plus(Q, s) == AddProjectiveNiels(Q, SelectProjective(s[1], s[2]))
      times16(t) == LET d[k \in 0 .. 4] ==
                          IF k = 0 THEN t
                          ELSE DoubleProjective(CompletedAsProjective(d[k - 1]))
                    IN  CompletedAsExtended(d[4])
      top == SizeHint(4) - 1
  IN  CompletedAsExtended(
        RadixLoop(<<digits>>, <<table>>, top - 1,
                  plus(IdentityPoint, <<table, digits[top]>>), times16, plus))

SerialStraus(ns, Ps) ==
  RadixLoop(Each(LAMBDA n : RadixOf(n, 4), ns),
            Each(LAMBDA P : ProjectiveMultiples(P, 8), Ps), SizeHint(4) - 1,
            IdentityPoint, LAMBDA Q : EdwardsMulByPow2(Q, 4),
            LAMBDA Q, s : CompletedAsExtended(
                            AddProjectiveNiels(Q, SelectProjective(s[1], s[2]))))
SerialOptionalStraus(ns, Ps) ==
  SerialNafs(Each(LAMBDA n : NafOf(n, NafWidth), ns), Each(ProjectiveOdds5, Ps),
             MulBits - 1)
SerialPrecomputed(static, ss, ns, Ps) ==
  SerialNafs(Each(LAMBDA n : NafOf(n, NafWidth), ns \o ss),
             Each(ProjectiveOdds5, Ps)
               \o SubSeq(Each(ProjectiveOdds8, static), 1, Len(ss)), MulBits - 1)

SerialPippenger(ns, Ps, w) ==
  LET rows == Each(LAMBDA n : RadixOf(n, w), ns)
      pts  == Each(AsProjectiveNiels, Ps)
      column(j) ==
        BucketColumn(rows, pts, j, w, IdentityPoint,
                     LAMBDA b, e : CompletedAsExtended(AddProjectiveNiels(b, e)),
                     LAMBDA b, e : CompletedAsExtended(SubProjectiveNiels(b, e)),
                     AddEdwards)
  IN  Horner([j \in 0 .. SizeHint(w) - 1 |-> column(j)], SizeHint(w) - 1,
             LAMBDA P : EdwardsMulByPow2(P, w), AddEdwards)

DoubleNafs(a, b, precomputed) ==
  <<NafOf(a, NafWidth), NafOf(b, IF precomputed THEN BigWidth ELSE NafWidth)>>
SerialDoubleBase(a, A, b, precomputed) ==
  SerialNafsFromTop(DoubleNafs(a, b, precomputed),
    <<ProjectiveOdds5(A),
      IF precomputed THEN AFFINE_ODD_MULTIPLES_OF_BASEPOINT
      ELSE ProjectiveOdds5(ED25519_BASEPOINT_POINT)>>, MulBits - 1)

(* The digits of both back ends' mul_128_128_256 *)
TripleNafs(a1, a2, b, precomputed) ==
  <<NafOf(a1, NafWidth), NafOf(a2, NafWidth),
    NafOf(b % 2^Half, IF precomputed THEN BigWidth ELSE NafWidth),
    NafOf(b \div 2^Half, NafWidth)>>
SerialTripleBase(a1, A1, a2, A2, b, precomputed) ==
  SerialNafsFromTop(TripleNafs(a1, a2, b, precomputed),
    <<ProjectiveOdds5(A1), ProjectiveOdds5(A2)>>
      \o (IF precomputed THEN <<AFFINE_ODD_MULTIPLES_OF_BASEPOINT,
                                AFFINE_ODD_MULTIPLES_OF_BASEPOINT_128>>
          ELSE <<ProjectiveOdds5(ED25519_BASEPOINT_POINT),
                 ProjectiveOdds5(ED25519_BASEPOINT_128_POINT)>>), Half + 1)
-----------------------------------------------------------------------------
(* AVX2: extended and cached points.  The table of the basepoint's 128-bit *)
(* shift does not depend on the feature.                                   *)
VectorNafs(nafs, tables, top) ==
  ToEdwards(NafLoop(nafs, tables, top, ExtendedPointIdentity, VectorDouble,
                    VectorAdd, VectorSub))
VectorNafsFromTop(nafs, tables, limit) == VectorNafs(nafs, tables, TopPlace(nafs, limit))
AddSelected(Q, s) ==
  VectorAdd(Q, Select(s[1], s[2], CachedPointIdentity, ChooseCached, NegCached))
VectorRadix(ns, Ps) ==
  ToEdwards(RadixLoop(Each(LAMBDA n : RadixOf(n, 4), ns),
                      Each(LAMBDA P : CachedMultiples(P, 8), Ps), SizeHint(4) - 1,
                      ExtendedPointIdentity, LAMBDA Q : VectorMulByPow2(Q, 4),
                      AddSelected))

VectorVariableBase(P, n) == VectorRadix(<<n>>, <<P>>)
VectorStraus(ns, Ps) == VectorRadix(ns, Ps)
VectorOptionalStraus(ns, Ps) ==
  VectorNafs(Each(LAMBDA n : NafOf(n, NafWidth), ns), Each(CachedOdds5, Ps), MulBits - 1)
VectorPrecomputed(static, ss, ns, Ps) ==
  VectorNafs(Each(LAMBDA n : NafOf(n, NafWidth), ns \o ss),
             Each(CachedOdds5, Ps) \o SubSeq(Each(CachedOdds8, static), 1, Len(ss)),
             MulBits - 1)
VectorPippenger(ns, Ps, w) ==
  LET rows == Each(LAMBDA n : RadixOf(n, w), ns)
      pts  == Each(LAMBDA P : Cache(FromEdwards(P)), Ps)
      merge(v, u) == VectorAdd(v, Cache(u))
      column(j) == BucketColumn(rows, pts, j, w, ExtendedPointIdentity,
                                VectorAdd, VectorSub, merge)
  IN  ToEdwards(Horner([j \in 0 .. SizeHint(w) - 1 |-> column(j)], SizeHint(w) - 1,
                       LAMBDA v : VectorMulByPow2(v, w), merge))
VectorDoubleBase(a, A, b, precomputed) ==
  VectorNafsFromTop(DoubleNafs(a, b, precomputed),
    <<CachedOdds5(A), IF precomputed THEN BASEPOINT_ODD_LOOKUP_TABLE
                      ELSE CachedOdds5(ED25519_BASEPOINT_POINT)>>, MulBits - 1)
VectorTripleBase(a1, A1, a2, A2, b, precomputed) ==
  VectorNafsFromTop(TripleNafs(a1, a2, b, precomputed),
    <<CachedOdds5(A1), CachedOdds5(A2),
      IF precomputed THEN BASEPOINT_ODD_LOOKUP_TABLE
      ELSE CachedOdds5(ED25519_BASEPOINT_POINT), BASEPOINT_128_ODD_LOOKUP_TABLE>>, Half + 1)
-----------------------------------------------------------------------------
(* backend.rs *)
VariableBaseMul(back, P, n) ==
  IF back = Avx2 THEN VectorVariableBase(P, n) ELSE SerialVariableBase(P, n)
StrausMul(back, ns, Ps) ==
  IF back = Avx2 THEN VectorStraus(ns, Ps) ELSE SerialStraus(ns, Ps)
HasNone(Ps) == \E k \in DOMAIN Ps : Ps[k] = None
StrausOptionalMul(back, ns, Ps) ==
  IF HasNone(Ps) THEN None
  ELSE IF back = Avx2 THEN VectorOptionalStraus(ns, Ps) ELSE SerialOptionalStraus(ns, Ps)
PippengerOptionalMul(back, ns, Ps, w) ==
  IF HasNone(Ps) THEN None
  ELSE IF back = Avx2 THEN VectorPippenger(ns, Ps, w) ELSE SerialPippenger(ns, Ps, w)
DoubleBaseMul(back, a, A, b, precomputed) ==
  IF back = Avx2 THEN VectorDoubleBase(a, A, b, precomputed)
  ELSE SerialDoubleBase(a, A, b, precomputed)
TripleBaseMul(back, a1, A1, a2, A2, b, precomputed) ==
  IF back = Avx2 THEN VectorTripleBase(a1, A1, a2, A2, b, precomputed)
  ELSE SerialTripleBase(a1, A1, a2, A2, b, precomputed)

(* VartimePrecomputedStraus: its variant is fixed by new.                  *)
Precomputation(back, static) == [back |-> back, static |-> static]
PrecomputationLen(pre) == Len(pre.static)
PrecomputationMul(pre, ss, ns, Ps) ==
  IF HasNone(Ps) THEN None
  ELSE IF PrecomputationLen(pre) < Len(ss) \/ Len(Ps) # Len(ns) THEN Panic
  ELSE IF pre.back = Avx2 THEN VectorPrecomputed(pre.static, ss, ns, Ps)
  ELSE SerialPrecomputed(pre.static, ss, ns, Ps)
-----------------------------------------------------------------------------
CONSTANTS
  ManyPoints,      (* points from which Pippenger is taken, 190            *)
  Wider, Widest,   (* from which its digits get longer, 500 and 800        *)
  PippengerBits,   (* the bits of its shortest digits, 6                   *)
  EIGHT_TORSION    (* the multiples of a point of order eight              *)

ASSUME EightTorsionAssumption ==
  \E e \in Curve :
    /\ Times(8, e) = Zero /\ Times(4, e) # Zero
    /\ \A k \in 1 .. 8 : Represents(EIGHT_TORSION[k], Times(k - 1, e))

(* clamp_integer: of scalars that are used without a reduction. *)
ClampInteger(s) == (s % 2^(MulBits - 2)) - (s % 8) + 2^(MulBits - 2)

(* BasepointTable *)
TableMulBase(tables, w, n) ==
  LET a == RadixOf(n, w)
      add(P, i) == CompletedAsExtended(
                     AddAffineNiels(P, SelectAffine(tables[i \div 2 + 1], a[i])))
      pass(P, first) ==
        LET t[k \in 0 .. SizeHint(w) \div 2 + 1] ==
              IF k = 0 THEN P
              ELSE LET i == 2 * (k - 1) + first IN
                   Then(t[k - 1], LAMBDA sum : IF i < SizeHint(w) THEN add(sum, i) ELSE sum)
        IN  t[SizeHint(w) \div 2 + 1]
  IN  pass(EdwardsMulByPow2(pass(IdentityPoint, 1), w), 0)
TableMulBaseClamped(tables, w, s) == TableMulBase(tables, w, ClampInteger(s))
TableMul(tables, w, n) == TableMulBase(tables, w, n)
(* From: a table of another radix is made anew from its basepoint. *)
ConvertTable(tables, w) == CreateTable(TableBasepoint(tables), w)
-----------------------------------------------------------------------------
(* EdwardsPoint.  Multiplication by a scalar on either side *)
EdwardsMul(back, n, P) == VariableBaseMul(back, P, n)
EdwardsMulBase(back, n, precomputed) ==
  IF precomputed THEN TableMul(ED25519_BASEPOINT_TABLE, 4, n)
  ELSE EdwardsMul(back, n, ED25519_BASEPOINT_POINT)
EdwardsMulClamped(back, s, P) == EdwardsMul(back, ClampInteger(s), P)
EdwardsMulBaseClamped(back, s, precomputed) ==
  EdwardsMulBase(back, ClampInteger(s), precomputed)
EdwardsMultiscalarMul(back, ns, Ps) ==
  IF Len(ns) # Len(Ps) THEN Panic ELSE StrausMul(back, ns, Ps)
PippengerWidth(size) ==
  PippengerBits + (IF size < Wider THEN 0 ELSE IF size < Widest THEN 1 ELSE 2)
EdwardsOptionalMul(back, ns, Ps) ==
  IF Len(ns) # Len(Ps) THEN Panic
  ELSE IF Len(ns) < ManyPoints THEN StrausOptionalMul(back, ns, Ps)
  ELSE PippengerOptionalMul(back, ns, Ps, PippengerWidth(Len(ns)))
(* VartimeMultiscalarMul::vartime_multiscalar_mul and the two methods of   *)
(* VartimePrecomputedMultiscalarMul that expect a point                    *)
ExpectPoint(result) == IF result = None THEN Panic ELSE result
VartimeMul(back, ns, Ps) == ExpectPoint(EdwardsOptionalMul(back, ns, Ps))
EdwardsPrecomputation(back, static) == Precomputation(back, static)
EdwardsPrecomputedMul(pre, ss, ns, Ps) == PrecomputationMul(pre, ss, ns, Ps)
VartimeMixedMul(pre, ss, ns, Ps) == ExpectPoint(EdwardsPrecomputedMul(pre, ss, ns, Ps))
VartimeStaticMul(pre, ss) == VartimeMixedMul(pre, ss, <<>>, <<>>)
EdwardsDoubleBase(back, a, A, b, precomputed) ==
  DoubleBaseMul(back, a, A, b, precomputed)
EdwardsTripleBase(back, a1, A1, a2, A2, b, precomputed) ==
  TripleBaseMul(back, a1, A1, a2, A2, b, precomputed)

ChooseEdwards(P, Q, choice) ==
  Extended(ChooseField(P.X, Q.X, choice), ChooseField(P.Y, Q.Y, choice),
           ChooseField(P.Z, Q.Z, choice), ChooseField(P.T, Q.T, choice))
CompressedIdentity == 1   (* and what zeroize leaves of an encoding *)

(* A slice must have the length of an encoding; visit_seq takes a sequence *)
(* that goes on, but not one that ends before.                             *)
FromSlice(length) == length = "exact"
VisitSeq(length) == length # "short"
DecompressIf(read, s) == IF read THEN DecompressEdwards(s) ELSE None

(* GroupEncoding::from_bytes runs both steps whatever the first one says.  *)
FromBytesWith(step1, point) == IF step1.square THEN point ELSE None
FromBytesEdwards(s) ==
  LET X == DecompressStep1(FromBytes(s))
  IN  FromBytesWith(X, DecompressStep2(s, FromBytes(s), X.root))

(* msm_curve25519: the kernel's answer on the bytes of affine points, or   *)
(* the sum over chunks of points taken to the Edwards form and back.  The  *)
(* kernel is external: it may be missing, fail, or answer off the curve.   *)
MsmChunk == 2   (* 1024 or more                                            *)
SpparkBytes(S) == IF S = SwIdentity THEN <<0, 0>> ELSE <<S.x, S.y>>
SwTimes(n, S) ==
  LET t[k \in 0 .. MulBits] ==
        IF k = 0 THEN SwIdentity
        ELSE Then(t[k - 1], LAMBDA half :
               Then(SwAdd(half, half), LAMBDA whole :
                 IF (n \div 2^(MulBits - k)) % 2 = 1 THEN SwAdd(whole, S) ELSE whole))
  IN  t[MulBits]
MultPippenger(gpu, ns, bytes) ==
  LET t[k \in 0 .. Len(bytes)] ==
        IF k = 0 THEN SwIdentity
        ELSE Then(t[k - 1], LAMBDA before :
               SwAdd(before, SwTimes(ns[k], SwFromBytes(bytes[k][1], bytes[k][2]))))
  IN  CASE gpu = "works"   -> SpparkBytes(t[Len(bytes)])
        [] gpu = "wrong"   -> <<1, 0>>
        [] gpu = "missing" -> None
MsmGpu(gpu, ns, Ss) ==
  IF Len(ns) # Len(Ss) THEN None
  ELSE LET out == MultPippenger(gpu, ns, [k \in DOMAIN Ss |-> SpparkBytes(Ss[k])])
       IN  IF out = None THEN None ELSE SwFromBytes(out[1], out[2])
MsmCpu(back, ns, Ss) ==
  LET n == Len(Ss)
      Ps == [k \in 1 .. n |-> SwToEdwards(Ss[k])]
      chunk(list, k) ==
        SubSeq(list, MsmChunk * (k - 1) + 1, IF MsmChunk * k > n THEN n ELSE MsmChunk * k)
      t[k \in 0 .. (n + MsmChunk - 1) \div MsmChunk] ==
        IF k = 0 THEN IdentityPoint
        ELSE Then(t[k - 1], LAMBDA before : AddEdwards(before,
                    EdwardsOptionalMul(back, chunk(ns, k), chunk(Ps, k))))
  IN  IF Len(ns) # n \/ HasNone(Ps) THEN None
      ELSE SwFromEdwards(t[(n + MsmChunk - 1) \div MsmChunk])
MsmCurve25519(gpu, back, ns, Ss) ==
  LET out == MsmGpu(gpu, ns, Ss) IN IF out # None THEN out ELSE MsmCpu(back, ns, Ss)

(* AffinePoint *)
AffineIdentity == [x |-> 0, y |-> 1]
EqAffine(a, b) == a.x = b.x /\ a.y = b.y
ChooseAffine(a, b, choice) ==
  [x |-> ChooseField(a.x, b.x, choice), y |-> ChooseField(a.y, b.y, choice)]
MulAffine(back, n, a) == EdwardsMul(back, n, AffineToEdwards(a))

(* SubgroupPoint: its generator is the basepoint *)
SubgroupMul(back, n, P) == EdwardsMul(back, n, P)
SubgroupRandom(back, n) == SubgroupMul(back, n, ED25519_BASEPOINT_POINT)
ChooseSubgroup(P, Q, choice) == ChooseEdwards(P, Q, choice)
-----------------------------------------------------------------------------
(* RistrettoPoint: the operations of the point that stands for it *)
RistrettoAdd(P, Q) == AddEdwards(P, Q)
RistrettoSub(P, Q) == SubEdwards(P, Q)
RistrettoSum(Ps) ==
  LET t[k \in 0 .. Len(Ps)] ==
        IF k = 0 THEN IdentityPoint ELSE LET sum == t[k - 1] IN RistrettoAdd(sum, Ps[k])
  IN  t[Len(Ps)]
RistrettoNeg(P) == NegEdwards(P)
RistrettoDouble(P) == RistrettoAdd(P, P)
RistrettoMul(back, n, P) == EdwardsMul(back, n, P)
RistrettoMulBase(back, n, precomputed) == EdwardsMulBase(back, n, precomputed)
RistrettoMultiscalarMul(back, ns, Ps) == EdwardsMultiscalarMul(back, ns, Ps)
RistrettoOptionalMul(back, ns, Ps) == EdwardsOptionalMul(back, ns, Ps)
RistrettoPrecomputation(back, static) == Precomputation(back, static)
RistrettoPrecomputedMul(pre, ss, ns, Ps) == PrecomputationMul(pre, ss, ns, Ps)
RistrettoDoubleBase(back, a, A, b, precomputed) ==
  EdwardsDoubleBase(back, a, A, b, precomputed)
RistrettoTableMul(P, n) == TableMul(CreateTable(P, 4), 4, n)
RistrettoTableBasepoint(P) == TableBasepoint(CreateTable(P, 4))
ChooseRistretto(P, Q, choice) == ChooseEdwards(P, Q, choice)

Coset4(P) ==
  <<P>> \o [k \in 1 .. 3 |-> AddEdwards(P, EIGHT_TORSION[2 * k + 1])]

(* Every element is in the subgroup: the cofactor is 1. *)
RistrettoIntoSubgroup(P) == P
RistrettoClearCofactor(P) == P

(* GroupEncoding: both steps are run, and their verdicts joined.           *)
FromBytesVerdict(encoded, step2) ==
  IF encoded /\ step2.ok /\ ~ IsNegative(step2.res.T) /\ step2.res.Y # 0
  THEN step2.res ELSE None
FromBytesRistretto(bytes) ==
  FromBytesVerdict(RistrettoStep1(bytes), RistrettoStep2(FromBytes(bytes)))
DecompressRistrettoIf(read, s) == IF read THEN DecompressRistretto(s) ELSE None
SerializeRistretto(P) == CompressRistretto(P)

(* map_to_curve_restricted asserts what its argument is. *)
MapToCurveRestricted(r) ==
  IF r % 2 = 1 \/ r >= 2^(FieldBits - 1) THEN Panic ELSE RistrettoMapToCurve(r)
-----------------------------------------------------------------------------
(* MontgomeryPoint *)
MontgomeryEq(u, v) == FromBytes(u) = FromBytes(v)
MontgomeryHash(u) == FromBytes(u)
ChooseMontgomery(u, v, choice) == ChooseField(u, v, choice)
MontgomeryIdentity == 0
MontgomeryMulBase(back, n, precomputed) == ToMontgomery(EdwardsMulBase(back, n, precomputed))
MontgomeryMulBaseClamped(back, s, precomputed) ==
  MontgomeryMulBase(back, ClampInteger(s), precomputed)

(* The bits of a scalar, the highest first, as mul reads it. *)
BitsOf(n, bits) == [k \in 1 .. bits |-> (n \div 2^(bits - k)) % 2]
MontgomeryMul(n, u) == MulBitsBE(u, BitsOf(n, MulBits - 1))
MontgomeryMulClamped(s, u) == MontgomeryMul(ClampInteger(s), u)
-----------------------------------------------------------------------------
(* Hashing of messages: three units make a field element. *)
XorUnit(a, b) ==
  LET t[k \in 0 .. UnitBits] ==
        IF k = 0 THEN 0
        ELSE LET low == t[k - 1]
             IN  low + (IF (a \div 2^(k - 1)) % 2 # (b \div 2^(k - 1)) % 2
                        THEN 2^(k - 1) ELSE 0)
  IN  t[UnitBits]
XorDigest(a, b) == [k \in 1 .. 4 |-> XorUnit(a[k], b[k])]

(* expand_msg_xmd: the digests b_1, b_2, .. of the length that is asked    *)
(* for; each is hashed with its number and the separator.  Nothing stands  *)
(* for the panic that a separator of a wrong length is answered with.      *)
ExpandMsgXmd(msg, separator, outlen) ==
  LET ell == (outlen + 3) \div 4
      b_0 == HashOf(<<"msg", msg, outlen>>, 0, separator)
      b[i \in 1 .. ell] ==
        IF i = 1 THEN <<HashOf(b_0, 1, separator)>>
        ELSE LET before == b[i - 1]
             IN  Append(before, HashOf(XorDigest(b_0, before[i - 1]), i, separator))
      written[i \in 0 .. ell] == IF i = 0 THEN <<>> ELSE written[i - 1] \o b[ell][i]
  IN  IF separator = 0 \/ separator > MaxSeparator THEN <<>>
      ELSE SubSeq(written[ell], 1, outlen)

(* hash_to_field: three units for each element, reversed, then read from   *)
(* the lowest, the fourth being zero.                                      *)
HashToField(msg, separator, count) ==
  LET units == ExpandMsgXmd(msg, separator, 3 * count)
      element(k) ==
        LET u(i) == units[3 * k + 1 - i]
        IN  FromBytesWide(u(1) + 2^UnitBits * u(2), u(3))
  IN  IF units = <<>> THEN <<>> ELSE [k \in 1 .. count |-> element(k)]
EncodeMessageToCurve(msg, separator) ==
  LET r == HashToField(msg, separator, 1)
  IN  IF r = <<>> THEN Panic ELSE EncodeToCurve(r[1])
HashMessageToCurve(msg, separator) ==
  LET r == HashToField(msg, separator, 2)
  IN  IF r = <<>> THEN Panic ELSE HashToCurve(r[1], r[2])
=============================================================================

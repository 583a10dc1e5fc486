------------------------------- MODULE Points -------------------------------
(***************************************************************************)
(* Calls on points: a string, a field element or coordinates of another    *)
(* form are read as a point, an operation of the group is computed on it   *)
(* by one of the paths the code has for it, and the result is written.     *)
(***************************************************************************)
EXTENDS PointTypes

CONSTANTS
  Operands,           (* EdwardsPoints                                     *)
  SubgroupOperands,   (* EdwardsPoints that are SubgroupPoints             *)
  RistrettoOperands,  (* EdwardsPoints that stand for RistrettoPoints      *)
  Factors,            (* scalars                                           *)
  Shorts,             (* scalars below 2^(MulBits / 2)                     *)
  ScalarLists,        (* lists of scalars                                  *)
  PointLists,         (* lists of EdwardsPoints that stand for points of   *)
                      (* both kinds, with undecodable ones                 *)
  Messages, Separators,  (* what is hashed, a separator being its length   *)
  Samples             (* strings that are hashed together with any other   *)

VARIABLES call, value

Strings == 0 .. Pow2[FieldBits + 1] - 1

Call(method, n, qs) == call' = [method |-> method, n |-> n, qs |-> qs]
Point(form, P) == <<form, P>>
NoPoint == <<"none">>
Panicked == <<"panic">>
Option(form, P) ==
  IF P = None THEN NoPoint ELSE IF P = Panic THEN Panicked ELSE Point(form, P)

Init == call = [method |-> "start", n |-> <<>>, qs |-> <<>>] /\ value = NoPoint
-----------------------------------------------------------------------------
FromBytesSubgroup(s) ==
  LET P == FromBytesEdwards(s) IN IF P = None THEN None ELSE IntoSubgroup(P)

ReadString ==
  \E s \in Strings :
    \/ Call("decompress", <<s>>, <<>>)
       /\ value' = Option("edwards", DecompressEdwards(s))
    \/ Call("from_bytes_subgroup", <<s>>, <<>>)
       /\ value' = Option("subgroup", FromBytesSubgroup(s))
    \/ Call("random", <<s>>, <<>>)
       /\ value' = IF IsRandomAccepted(s) THEN Point("edwards", DecompressEdwards(s))
                   ELSE NoPoint
    \/ Call("decompress_ristretto", <<s>>, <<>>)
       /\ value' = Option("ristretto", DecompressRistretto(s))
    \/ Call("from_bytes", <<s>>, <<>>) /\ value' = Option("edwards", FromBytesEdwards(s))
    \/ Call("from_bytes_ristretto", <<s>>, <<>>)
       /\ value' = Option("ristretto", FromBytesRistretto(s))
    \/ \E length \in {"exact", "short", "long"} :
         \/ Call("from_slice", <<s, length>>, <<>>)
            /\ value' = Option("edwards", DecompressIf(FromSlice(length), s))
         \/ Call("from_slice_ristretto", <<s, length>>, <<>>)
            /\ value' = Option("ristretto", DecompressRistrettoIf(FromSlice(length), s))
         \/ Call("deserialize", <<s, length>>, <<>>)
            /\ value' = Option("edwards", DecompressIf(VisitSeq(length), s))
         \/ Call("deserialize_ristretto", <<s, length>>, <<>>)
            /\ value' = Option("ristretto", DecompressRistrettoIf(VisitSeq(length), s))
    \/ \E sign \in {0, 1} :
         Call("montgomery_to_edwards", <<s, sign>>, <<>>)
         /\ value' = Option("edwards", MontgomeryToEdwards(s, sign))

(* Strings of both coordinates, in the range, of which some are off the    *)
(* curve.                                                                  *)
ReadWeierstrass ==
  \E x \in Fp : \E y \in {y \in Fp : y < 2 \/ SwIsOnCurve(SwAffine(x, y))} :
    LET S == SwFromBytes(x, y) IN
    /\ Call("from_affine_le_bytes", <<x, y>>, <<>>)
    /\ value' = IF S = None THEN NoPoint ELSE Option("edwards", SwToEdwards(S))

(* Two strings of twice the length stand for what a message is hashed to.  *)
HashedToPoint ==
  \/ \E f \in Strings, g \in Samples :
       \/ Call("encode_to_curve", <<f, g>>, <<>>)
          /\ value' = Point("edwards", EncodeToCurve(FromBytesWide(f, g)))
       \/ Call("hash_to_curve", <<f, g>>, <<>>)
          /\ value' = Point("edwards", HashToCurve(FromBytesWide(f, g),
                                                  FromBytesWide(g, f)))
  \/ \E b1 \in Strings, b2 \in Samples :
       Call("from_uniform_bytes", <<b1, b2>>, <<>>)
       /\ value' = Point("ristretto", FromUniformBytes(b1, b2))
  \/ \E r \in Strings :
       Call("map_to_curve_restricted", <<r>>, <<>>)
       /\ value' = Option("ristretto", MapToCurveRestricted(r))
  \/ \E msg \in Messages, separator \in Separators :
       \/ Call("encode_message", <<msg, separator>>, <<>>)
          /\ value' = Option("edwards", EncodeMessageToCurve(msg, separator))
       \/ Call("hash_message", <<msg, separator>>, <<>>)
          /\ value' = Option("edwards", HashMessageToCurve(msg, separator))
  \/ \E data \in LizardData : Call("lizard_encode", <<data>>, <<>>)
                              /\ value' = Point("ristretto", LizardEncode(data))

(* Fixed points and their multiples *)
FromNothing ==
  \/ Call("identity", <<>>, <<>>)
     /\ \/ value' = Option("edwards", DecompressEdwards(CompressedIdentity))
        \/ value' = Point("edwards", AffineToEdwards(AffineIdentity))
        \/ value' = Option("ristretto", DecompressRistretto(0))
  \/ \E n \in Factors, back \in Backends, precomputed \in BOOLEAN :
       \/ Call("mul_base", <<n>>, <<>>)
          /\ \/ value' = Point("edwards", EdwardsMulBase(back, n, precomputed))
             \/ value' = Point("ristretto", RistrettoMulBase(back, n, precomputed))
             \/ value' = Point("subgroup", SubgroupRandom(back, n))
       \/ Call("mul_base_clamped", <<n>>, <<>>)
          /\ \/ value' = Point("edwards", EdwardsMulBaseClamped(back, n, precomputed))
             \/ \E w \in 4 .. 8 :
                  value' = Point("edwards", TableMulBaseClamped(
                                   ConvertTable(ED25519_BASEPOINT_TABLE, w), w, n))

Read == call.method = "start"
          /\ (ReadString \/ ReadWeierstrass \/ HashedToPoint \/ FromNothing)
-----------------------------------------------------------------------------
(* Multiplications of lists of points, as RistrettoPoints if they are *)
AllRistretto(Ps) == \A k \in DOMAIN Ps : Ps[k] = None \/ Ps[k] \in RistrettoOperands

Multiscalar ==
  \E ns \in ScalarLists, Ps \in PointLists, back \in Backends :
    \/ /\ ~ HasNone(Ps) /\ Call("multiscalar_mul", ns, Ps)
       /\ \/ value' = Option("edwards", EdwardsMultiscalarMul(back, ns, Ps))
          \/ AllRistretto(Ps)
             /\ value' = Option("ristretto", RistrettoMultiscalarMul(back, ns, Ps))
          \/ value' = Option("edwards", VartimeMul(back, ns, Ps))
    \/ /\ Call("optional_multiscalar_mul", ns, Ps)
       /\ \/ value' = Option("edwards", EdwardsOptionalMul(back, ns, Ps))
          \/ AllRistretto(Ps)
             /\ value' = Option("ristretto", RistrettoOptionalMul(back, ns, Ps))

(* The points of a precomputation are those of the first list. *)
Precomputed ==
  \E static \in {Ps \in PointLists : ~ HasNone(Ps)}, ss \in ScalarLists,
     ns \in ScalarLists, Ps \in PointLists, back \in Backends :
    LET pre == EdwardsPrecomputation(back, static)
    IN  /\ Len(static) < 3 /\ Len(ss) < 3 /\ Len(ns) < 3 /\ Len(Ps) < 3
        /\ \/ /\ Call("mixed", <<Len(static), ss, ns>>, static \o Ps)
              /\ \/ value' = Option("edwards", EdwardsPrecomputedMul(pre, ss, ns, Ps))
                 \/ AllRistretto(static \o Ps) /\ value' = Option("ristretto",
                        RistrettoPrecomputedMul(RistrettoPrecomputation(back, static),
                                                ss, ns, Ps))
           \/ /\ ~ HasNone(Ps) /\ Call("vartime_mixed", <<Len(static), ss, ns>>, static \o Ps)
              /\ value' = Option("edwards",
                            IF ns = <<>> /\ Ps = <<>> THEN VartimeStaticMul(pre, ss)
                            ELSE VartimeMixedMul(pre, ss, ns, Ps))

WithBasepoint ==
  \E b \in Factors, back \in Backends, precomputed \in BOOLEAN :
    \/ \E a \in Factors, P \in Operands :
         /\ Call("double_base", <<a, b>>, <<P>>)
         /\ \/ value' = Point("edwards", EdwardsDoubleBase(back, a, P, b, precomputed))
            \/ P \in RistrettoOperands /\ value' = Point("ristretto",
                   RistrettoDoubleBase(back, a, P, b, precomputed))
    \/ \E a1, a2 \in Shorts, P1, P2 \in RistrettoOperands :
         /\ Call("triple_base", <<a1, a2, b>>, <<P1, P2>>)
         /\ value' = Point("edwards",
                       EdwardsTripleBase(back, a1, P1, a2, P2, b, precomputed))

WithTable ==
  \E P \in RistrettoOperands, n \in Factors :
    /\ Call("table_mul", <<n>>, <<P>>)
    /\ \/ \E w \in 4 .. 8 :
            \/ value' = Point("edwards", TableMul(CreateTable(P, w), w, n))
            \/ value' = Point("edwards",
                              TableMul(ConvertTable(CreateTable(P, w), 4), 4, n))
       \/ value' = Point("ristretto", RistrettoTableMul(RistrettoTableBasepoint(P), n))

(* The crate for graphics cards: lists of points of the Weierstrass form,  *)
(* the one of order two among them.                                        *)
WithCuda ==
  \E P \in Operands, Ps \in {Qs \in PointLists : ~ HasNone(Qs)}, ns \in ScalarLists,
     back \in Backends, gpu \in {"works", "wrong", "missing"} :
    LET list == <<P>> \o Ps
        Ss == [k \in DOMAIN list |-> SwFromEdwards(list[k])]
        sum == MsmCurve25519(gpu, back, ns, Ss)
    IN  /\ Call("msm_curve25519", <<gpu, ns>>, list)
        /\ value' = IF sum = None THEN NoPoint ELSE <<"code", SpparkBytes(sum)>>

OddMultiple ==
  \E P \in Operands, k \in 1 .. 2^(NafWidth - 2) :
    /\ Call("odd_multiple", <<2 * k - 1>>, <<P>>)
    /\ value' = Point("edwards", CompletedAsExtended(
                                   AddAffineNiels(IdentityPoint, AffineOdds5(P)[k])))

ReadMany == call.method = "start"
  /\ (Multiscalar \/ Precomputed \/ WithBasepoint \/ WithTable \/ WithCuda \/ OddMultiple)
-----------------------------------------------------------------------------
IsPoint == value[1] \in {"edwards", "subgroup", "ristretto"}
OperandsOf(form) ==
  [edwards |-> Operands, subgroup |-> SubgroupOperands, ristretto |-> RistrettoOperands][form]

(* The operations return the form they are given.  One operation, at most, *)
(* follows one of the ways to read every point and every coset, and so     *)
(* does a batch, or a ladder, if there is no operation.                    *)
Reading ==
  {"decompress", "hash_to_curve", "from_bytes_subgroup", "decompress_ristretto",
   "from_uniform_bytes"}
CanOperate == IsPoint /\ call.method \in Reading
Returns(P) == value' = Point(value[1], P)

AddOrSubtract ==
  LET P == value[2] IN
  \E Q \in OperandsOf(value[1]) :
    \/ Call("add", <<>>, <<Q>>)
       /\ Returns(IF value[1] = "ristretto" THEN RistrettoAdd(P, Q) ELSE AddEdwards(P, Q))
    \/ Call("sub", <<>>, <<Q>>)
       /\ Returns(IF value[1] = "ristretto" THEN RistrettoSub(P, Q) ELSE SubEdwards(P, Q))
    \/ Call("add_affine", <<>>, <<Q>>)
       /\ Returns(CompletedAsExtended(AddAffineNiels(P, AsAffineNiels(Q))))
    \/ Call("sub_affine", <<>>, <<Q>>)
       /\ Returns(CompletedAsExtended(SubAffineNiels(P, AsAffineNiels(Q))))
    \/ Call("sub_negated", <<>>, <<Q>>)
       /\ Returns(CompletedAsExtended(
                    AddProjectiveNiels(P, NegNiels(AsProjectiveNiels(Q)))))
    \/ Call("add_vector", <<>>, <<Q>>)
       /\ Returns(ToEdwards(VectorAdd(FromEdwards(P), Cache(FromEdwards(Q)))))
    \/ Call("sub_vector", <<>>, <<Q>>)
       /\ Returns(ToEdwards(VectorSub(FromEdwards(P), Cache(FromEdwards(Q)))))
    \/ Call("sum", <<>>, <<Q, Q>>)
       /\ Returns(IF value[1] = "ristretto" THEN RistrettoSum(<<P, Q, Q>>)
                  ELSE SumEdwards(<<P, Q, Q>>))
    \/ \E choice \in BOOLEAN :
         Call("conditional_select", <<choice>>, <<Q>>)
         /\ \/ Returns(CASE value[1] = "ristretto" -> ChooseRistretto(P, Q, choice)
                         [] value[1] = "subgroup"  -> ChooseSubgroup(P, Q, choice)
                         [] value[1] = "edwards"   -> ChooseEdwards(P, Q, choice))
            \/ Returns(AffineToEdwards(ChooseAffine(ToAffine(P), ToAffine(Q), choice)))

DoubleOrNegate ==
  LET P == value[2] IN
  \/ Call("double", <<>>, <<>>)
     /\ Returns(IF value[1] = "ristretto" THEN RistrettoDouble(P) ELSE DoubleEdwards(P))
  \/ Call("double_vector", <<>>, <<>>) /\ Returns(ToEdwards(VectorDouble(FromEdwards(P))))
  \/ Call("neg", <<>>, <<>>)
     /\ Returns(IF value[1] = "ristretto" THEN RistrettoNeg(P) ELSE NegEdwards(P))
  \/ Call("zeroize", <<>>, <<>>) /\ Returns(IdentityPoint)

Multiply ==
  LET P == value[2] IN
  \/ \E k \in 1 .. 4 :
       \/ Call("mul_by_pow_2", <<k>>, <<>>) /\ Returns(EdwardsMulByPow2(P, k))
       \/ Call("mul_by_pow_2_vector", <<k>>, <<>>)
          /\ Returns(ToEdwards(VectorMulByPow2(FromEdwards(P), k)))
  \/ \E n \in Factors, back \in Backends :
       \/ Call("mul", <<n>>, <<>>)
          /\ Returns(CASE value[1] = "ristretto" -> RistrettoMul(back, n, P)
                       [] value[1] = "subgroup"  -> SubgroupMul(back, n, P)
                       [] value[1] = "edwards"   -> EdwardsMul(back, n, P))
       \/ Call("mul", <<n>>, <<>>) /\ Returns(MulAffine(back, n, ToAffine(P)))
       \/ value[1] # "ristretto" /\ Call("mul_clamped", <<n>>, <<>>)
          /\ Returns(EdwardsMulClamped(back, n, P))

(* Two points are taken to the Weierstrass form, added and taken back.     *)
SwSum ==
  /\ value[1] = "edwards"
  /\ \E Q \in Operands :
       /\ Call("sw_sum", <<>>, <<Q>>)
       /\ value' = Option("edwards",
                     SwToEdwards(SwAdd(SwFromEdwards(value[2]), SwFromEdwards(Q))))

(* CofactorGroup: clear_cofactor and into_subgroup; and back from there.  A*)
(* RistrettoPoint is what it was.                                          *)
ChangeForm ==
  LET P == value[2] IN
  \/ value[1] = "edwards" /\ Call("clear_cofactor", <<>>, <<>>)
     /\ value' = Point("subgroup", EdwardsMulByCofactor(P))
  \/ value[1] = "edwards" /\ Call("into_subgroup", <<>>, <<>>)
     /\ value' = Option("subgroup", IntoSubgroup(P))
  \/ value[1] = "subgroup" /\ Call("from_subgroup", <<>>, <<>>)
     /\ value' = Point("edwards", P)
  \/ value[1] = "ristretto" /\ Call("same", <<>>, <<>>)
     /\ (Returns(RistrettoClearCofactor(P)) \/ Returns(RistrettoIntoSubgroup(P)))

Operate ==
  CanOperate /\ (AddOrSubtract \/ DoubleOrNegate \/ Multiply \/ SwSum \/ ChangeForm)
-----------------------------------------------------------------------------
Written(c) == value' = <<"code", c>>

WriteEdwards ==
  LET P == value[2] IN
  /\ value[1] \in {"edwards", "subgroup"}
  /\ \/ Call("compress", <<>>, <<>>) /\ Written(CompressEdwards(P))
     \/ \E Q \in SubgroupOperands :
          /\ call.method \in Reading
          /\ \/ Call("compress_batch", <<>>, <<Q, P>>)
                /\ Written(CompressBatch(<<P, Q, P>>))
             \/ Call("to_montgomery_batch", <<>>, <<Q, P>>)
                /\ Written(ToMontgomeryBatch(<<P, Q, P>>))
     \/ \E n \in Shorts :
          /\ call.method \in Reading
          /\ Call("mul_montgomery", <<n>>, <<>>)
          /\ Written(MontgomeryMul(n, ToMontgomery(P)))

WriteRistretto ==
  LET P == value[2] IN
  /\ value[1] = "ristretto"
  /\ \/ Call("compress_ristretto", <<>>, <<>>) /\ Written(SerializeRistretto(P))
     \/ Call("coset4", <<>>, <<>>)
        /\ Written({ToAffine(Coset4(P)[k]) : k \in 1 .. 4})
     \/ \E Q \in RistrettoOperands :
          /\ call.method \in Reading
          /\ Call("double_and_compress_batch", <<>>, <<Q, P>>)
          /\ Written(DoubleAndCompressBatch(<<P, Q, P>>))

(* The ladder on any string, of a point or of one of the twist. *)
Ladder ==
  \E s \in Strings, n \in Factors :
    \/ Call("ladder", <<n, s>>, <<>>) /\ Written(MontgomeryMul(n, s))
    \/ Call("ladder_clamped", <<n, s>>, <<>>) /\ Written(MontgomeryMulClamped(n, s))
    \/ \E choice \in BOOLEAN :
         Call("select_and_hash", <<n, s, choice>>, <<>>)
         /\ Written(<<MontgomeryHash(ChooseMontgomery(n, s, choice)), MontgomeryEq(n, s)>>)

MontgomeryBase ==
  \E n \in Factors, back \in Backends, precomputed \in BOOLEAN :
    \/ Call("mul_base_montgomery", <<n>>, <<>>)
       /\ Written(MontgomeryMulBase(back, n, precomputed))
    \/ Call("mul_base_clamped_montgomery", <<n>>, <<>>)
       /\ Written(MontgomeryMulBaseClamped(back, n, precomputed))

(* The product of a list is looked at as a point only. *)
OfLists == {"multiscalar_mul", "optional_multiscalar_mul", "mixed", "vartime_mixed",
            "double_base", "triple_base", "table_mul", "odd_multiple", "mul_base",
            "mul_base_clamped"}
Write == \/ IsPoint /\ call.method \notin OfLists /\ (WriteEdwards \/ WriteRistretto)
         \/ call.method = "start" /\ (Ladder \/ MontgomeryBase)

Next == Read \/ ReadMany \/ Operate \/ Write

Spec == Init /\ [][Next]_<<call, value>>
-----------------------------------------------------------------------------
(* The affine point a representation stands for *)
Stands(P) ==
  IF P = None THEN P ELSE LET e == ToAffine(P) IN [x |-> e.x, y |-> e.y]

TypeOK ==
  /\ value[1] \in {"edwards", "subgroup", "ristretto", "none", "panic", "code"}
  /\ IsPoint => value[2] \in [X : Fp, Y : Fp, Z : Fp \ {0}, T : Fp]
                /\ IsValidExtended(value[2])

R == INSTANCE PointAnswers
       WITH call <- [call EXCEPT !.qs = [k \in DOMAIN call.qs |-> Stands(call.qs[k])]],
            answer <- IF IsPoint THEN Point(value[1], Stands(value[2])) ELSE value

(* Every path computes what the curve's affine law, its encodings and its  *)
(* maps define: serial and vector, single and batched, through projective, *)
(* Niels, cached, Montgomery or Weierstrass coordinates, for every         *)
(* representation of a point.                                              *)
ImplementsReference == R!Spec

(* Equality, identity, small order and membership in the subgroup are      *)
(* decided by the point, not by its coordinates; no operation leads out of *)
(* the type of SubgroupPoints; RistrettoPoints are equal exactly when they *)
(* differ by a four-torsion point.                                         *)
VerdictsAreExact ==
  IsPoint =>
    LET P == value[2]  e == Stands(P) IN
    /\ IsSmallOrder(P) <=> CofactorOf[e] = Zero
    /\ IsTorsionFree(P) <=> InSubgroup[e]
    /\ value[1] = "subgroup" => InSubgroup[e]
    /\ IsIdentityPoint(P) <=> e = Zero
    /\ \A Q \in OperandsOf(value[1]) :
         /\ EqEdwards(P, Q) <=> e = Stands(Q)
         /\ value[1] = "ristretto" =>
              (EqRistretto(P, Q) <=> Stands(Q) \in Coset(e))

(* The inverses of the Elligator map are exactly the elements it takes to  *)
(* the point's coset, except for two of the identity's: r = -1/d makes the *)
(* denominator of the map 0 as r = -d does, and only the latter is looked  *)
(* for.  So Lizard decodes a point to the datum that encodes to it, if     *)
(* just one is found, and its element is not 0, which is found twice.      *)
Mapped == [r \in Fp |-> ElligatorRistretto(r)]
Missed == {r \in Fp : EDWARDS_D ** Square(r) = SQRT_M1}
InversesAreExact ==
  call.method \in {"decompress_ristretto", "from_uniform_bytes", "lizard_encode"}
    /\ IsPoint =>
    LET P == value[2]
        fes == ElligatorInverses(P)
        found == {d \in LizardData : LizardElement(d) \notin Missed
                                      /\ EqRistretto(Mapped[LizardElement(d)], P)}
    IN  /\ {fes[k] : k \in 1 .. 16} \ {Undefined}
             = {r \in Fp : EqRistretto(Mapped[r], P)} \ Missed
        /\ LizardDecode(P)
             = IF \E d \in LizardData : found = {d} /\ LizardElement(d) # 0
               THEN CHOOSE d \in found : TRUE ELSE Undefined

(* map_to_curve_restricted guarantees that its argument is among the first *)
(* eight inverses of the point it returns.                                 *)
RestrictedIsInverted ==
  call.method = "map_to_curve_restricted" /\ value # Panicked =>
    \E k \in 1 .. 8 : ElligatorInverses(value[2])[k] = call.n[1]
=============================================================================

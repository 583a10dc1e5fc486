---------------------------- MODULE Verification ----------------------------
(***************************************************************************)
(* A caller parses a verification key and asks it, in any order and any    *)
(* number of times, for the two verdicts on one request:                   *)
(*   verify_zebra  verify() itself: the decomposed, cofactored equation;   *)
(*   verify_dalek  the recomputed encoding of R, compared byte for byte.   *)
(* The decomposition is any that HalfSizeSplit allows; module Heea shows   *)
(* that heea_decompose returns one of them.                                *)
(***************************************************************************)
EXTENDS EdwardsGroup

CONSTANTS
  Requests,
  RhoBound, TauBound,  (* what the decomposition guarantees, 2^127 each    *)
  SplitBase,           (* where mul_128_128_256 cuts its scalars, 2^128    *)
  LegacyLarge          (* the large-order points in the legacy list        *)

ASSUME VerificationAssumption ==
  /\ \A q \in Requests :
       /\ q.A \in Encodings /\ q.R \in Encodings
       /\ q.s \in Nat /\ q.h \in 0 .. L - 1
  /\ RhoBound \in Nat /\ TauBound \in Nat /\ SplitBase \in Nat \ {0}
  /\ RhoBound <= SplitBase /\ TauBound <= SplitBase
  /\ SplitBase <= L /\ L <= SplitBase * SplitBase
  /\ LegacyLarge \subseteq Points

VARIABLES
  request,  (* the encoded key A, and R, s and the challenge scalar h      *)
  key,      (* "Unparsed", "Malformed" or "Parsed"                         *)
  minus_A,  (* VerificationKey::minus_A once parsed                        *)
  pc,       (* where the running call is, "Idle" between calls             *)
  split,    (* the running call's (rho, tau, flip_h)                       *)
  s,        (* its parsed scalar                                           *)
  neg_R,    (* its decoded and negated R                                   *)
  zebra,    (* the last verdict of verify_zebra, "Pending" before it       *)
  dalek     (* the last verdict of verify_dalek                            *)

locals == <<split, s, neg_R>>
vars == <<request, key, minus_A, pc, locals, zebra, dalek>>

Pair == INSTANCE HalfSizePair

NoSplit == [rho |-> 0, tau |-> 0, flip_h |-> FALSE]

(* Mutant of IsCanonicalScalar: no range check. *)
AnyScalar(n) == n \in Nat

(* Scalar::from_canonical_bytes *)
IsCanonicalScalar(n) == n < L

(* LEGACY_EXCLUDED_R_ENCODINGS.  The canonical encodings with a clear sign *)
(* bit of the points of order 4, 1, 8, 8 and 2; two non-canonical ones;    *)
(* and four byte strings written for a decoder that keeps the sign bit in  *)
(* y, of which two decode here to points of large order.                   *)
LegacyExcluded ==
  {Compress(P) : P \in {2 * L, 0, L, 3 * L, 4 * L} \cup LegacyLarge}
    \cup {[point |-> P, canonical |-> FALSE] : P \in {2 * L, 0}}
    \cup {Undecodable}

(* The encoding [0; 32]: y = 0, a point of order 4. *)
ZeroBytes == Compress(2 * L)

(* mul_128_128_256: a1 * A1 + a2 * A2 + b * B with b cut at SplitBase and  *)
(* the upper part applied to the precomputed SplitBase * B.                *)
TripleMul(a1, A1, a2, A2, b) ==
  LET b_lo == b % SplitBase
      b_hi == b \div SplitBase
  IN  Add(Add(Mul(a1, A1), Mul(a2, A2)),
          Add(Mul(b_lo, Basepoint), Mul(b_hi, Mul(SplitBase, Basepoint))))
-----------------------------------------------------------------------------
Init ==
  /\ request \in Requests
  /\ key = "Unparsed" /\ minus_A = 0
  /\ pc = "Idle" /\ split = NoSplit /\ s = 0 /\ neg_R = 0
  /\ zebra = "Pending" /\ dalek = "Pending"

(* VerificationKey::try_from *)
ParseKey ==
  /\ key = "Unparsed"
  /\ \/ /\ ~ IsDecodable(request.A)
        /\ key' = "Malformed" /\ UNCHANGED minus_A
     \/ /\ IsDecodable(request.A)
        /\ key' = "Parsed" /\ minus_A' = Neg(Decompress(request.A))
  /\ UNCHANGED <<request, pc, locals, zebra, dalek>>

(* VerificationKey::default, the key of the identity *)
DefaultKey ==
  /\ key = "Unparsed" /\ request.A = Compress(0)
  /\ key' = "Parsed" /\ minus_A' = Neg(0)
  /\ UNCHANGED <<request, pc, locals, zebra, dalek>>

ReturnZebra(verdict) ==
  /\ zebra' = verdict
  /\ pc' = "Idle" /\ split' = NoSplit /\ s' = 0 /\ neg_R' = 0
  /\ UNCHANGED <<request, key, minus_A, dalek>>

ReturnDalek(verdict) ==
  /\ dalek' = verdict
  /\ pc' = "Idle" /\ s' = 0
  /\ UNCHANGED <<request, key, minus_A, split, neg_R, zebra>>

(* Mutant of ZebraDecompose: the full-size pair (h, 1). *)
ZebraNoDecompose ==
  /\ pc = "Idle" /\ key = "Parsed"
  /\ split' = [rho |-> request.h, tau |-> 1, flip_h |-> FALSE]
  /\ pc' = "ZebraScalar"
  /\ UNCHANGED <<request, key, minus_A, s, neg_R, zebra, dalek>>

(* verify_zebra_prehashed starts by decomposing the challenge. *)
ZebraDecompose ==
  /\ pc = "Idle" /\ key = "Parsed"
  /\ split' \in Pair!Splits(request.h)
  /\ pc' = "ZebraScalar"
  /\ UNCHANGED <<request, key, minus_A, s, neg_R, zebra, dalek>>

ZebraScalar ==
  /\ pc = "ZebraScalar"
  /\ \/ /\ IsCanonicalScalar(request.s)
        /\ s' = request.s /\ pc' = "ZebraPoint"
        /\ UNCHANGED <<request, key, minus_A, split, neg_R, zebra, dalek>>
     \/ ~ IsCanonicalScalar(request.s) /\ ReturnZebra("InvalidSignature")

ZebraPoint ==
  /\ pc = "ZebraPoint"
  /\ \/ /\ IsDecodable(request.R)
        /\ neg_R' = Neg(Decompress(request.R)) /\ pc' = "ZebraCheck"
        /\ UNCHANGED <<request, key, minus_A, split, s, zebra, dalek>>
     \/ ~ IsDecodable(request.R) /\ ReturnZebra("InvalidSignature")

(* Mutant of ZebraResult: flip_h is not applied. *)
ZebraResultUnflipped ==
  TripleMul(split.tau, neg_R, split.rho, minus_A, (split.tau * s) % L)

(* [8]([tau](-R) + [rho](-A) + [tau * s]B) = 0, with A's sign flipped when *)
(* rho = -tau * h.                                                         *)
ZebraResult ==
  LET ts == (split.tau * s) % L
      A  == IF split.flip_h THEN Neg(minus_A) ELSE minus_A
  IN  TripleMul(split.tau, neg_R, split.rho, A, ts)

ZebraCheck ==
  /\ pc = "ZebraCheck"
  /\ ReturnZebra(IF IsIdentity(MulByCofactor(ZebraResult))
                 THEN "Ok" ELSE "InvalidSignature")

(* verify_dalek_prehashed first rejects the excluded encodings, *)
DalekExclude ==
  /\ pc = "Idle" /\ key = "Parsed"
  /\ \/ /\ request.A # ZeroBytes /\ request.R \notin LegacyExcluded
        /\ pc' = "DalekScalar"
        /\ UNCHANGED <<request, key, minus_A, locals, zebra, dalek>>
     \/ /\ request.A = ZeroBytes \/ request.R \in LegacyExcluded
        /\ ReturnDalek("InvalidSignature")

(* Mutant of DalekScalar: s is reduced instead of checked. *)
DalekScalarReduced ==
  /\ pc = "DalekScalar"
  /\ s' = request.s % L /\ pc' = "DalekCompare"
  /\ UNCHANGED <<request, key, minus_A, split, neg_R, zebra, dalek>>

DalekScalar ==
  /\ pc = "DalekScalar"
  /\ \/ /\ IsCanonicalScalar(request.s)
        /\ s' = request.s /\ pc' = "DalekCompare"
        /\ UNCHANGED <<request, key, minus_A, split, neg_R, zebra, dalek>>
     \/ ~ IsCanonicalScalar(request.s) /\ ReturnDalek("InvalidSignature")

(* then compares the encoding of [s]B - [h]A with the signature's R. *)
ExpectedR == Compress(Add(Mul(request.h, minus_A), Mul(s, Basepoint)))

(* Mutant of DalekCompare: points are compared, not their encodings. *)
DalekComparePoints ==
  /\ pc = "DalekCompare"
  /\ ReturnDalek(IF ExpectedR.point = request.R.point
                 THEN "Ok" ELSE "InvalidSignature")

DalekCompare ==
  /\ pc = "DalekCompare"
  /\ ReturnDalek(IF ExpectedR = request.R THEN "Ok" ELSE "InvalidSignature")

Next ==
  \/ ParseKey \/ DefaultKey
  \/ ZebraDecompose \/ ZebraScalar \/ ZebraPoint \/ ZebraCheck
  \/ DalekExclude \/ DalekScalar \/ DalekCompare

Spec == Init /\ [][Next]_vars
-----------------------------------------------------------------------------
Verdicts == {"Pending", "Ok", "InvalidSignature"}

TypeOK ==
  /\ request \in Requests
  /\ key \in {"Unparsed", "Malformed", "Parsed"}
  /\ pc \in {"Idle", "ZebraScalar", "ZebraPoint", "ZebraCheck",
             "DalekScalar", "DalekCompare"}
  /\ minus_A \in Points /\ neg_R \in Points
  /\ split = NoSplit \/ split \in Pair!Splits(request.h)
  /\ s \in 0 .. L - 1
  /\ zebra \in Verdicts /\ dalek \in Verdicts

(* verify_zebra decides ZIP-215: whatever decomposition the call used, and *)
(* however often it is repeated, its verdict is the one the equation       *)
(* [8][s]B = [8]R + [8][h]A and the encodings determine, and it never      *)
(* changes.                                                                *)
Criteria == INSTANCE Zip215
         WITH verdict <- IF key = "Malformed" THEN "MalformedPublicKey"
                         ELSE zebra
ImplementsZip215 == Criteria!Spec

(* The strict mode never accepts what the default mode rejects. *)
DalekImpliesZebra == dalek = "Ok" => zebra # "InvalidSignature"

(* An accepted signature satisfies the cofactorless equation and carries   *)
(* R's canonical encoding, so that no second encoding of R verifies.       *)
DalekIsStrict ==
  dalek = "Ok" =>
    /\ request.R.canonical /\ request.s < L
    /\ Mul(request.s, Basepoint) =
         Add(request.R.point, Mul(request.h, request.A.point))

(* mul_128_128_256 is only called with scalars its debug assertions and    *)
(* its two unwraps allow.                                                  *)
TripleMulOperands ==
  pc = "ZebraCheck" =>
    LET ts == (split.tau * s) % L
    IN  /\ split.tau < SplitBase /\ split.rho < SplitBase
        /\ IsCanonicalScalar(ts % SplitBase)
        /\ IsCanonicalScalar(ts \div SplitBase)

=============================================================================

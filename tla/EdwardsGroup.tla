---------------------------- MODULE EdwardsGroup ----------------------------
(***************************************************************************)
(* The group EdwardsPoint ranges over and the encodings of its points.     *)
(* The curve's group is cyclic of order 8 * L (the eight torsion points    *)
(* times the prime subgroup), so a point is its logarithm to a generator   *)
(* and the basepoint, of order L, is 8.                                    *)
(*                                                                         *)
(* A 32-byte encoding is abstracted to the point it decodes to and whether *)
(* it is the encoding compress() gives that point: a y-coordinate written  *)
(* with p added, or a sign bit on x = 0, decodes but is not canonical.     *)
(*                                                                         *)
(* The module ends with when the documentation of VerificationKey::verify  *)
(* says a signature is valid.                                              *)
(***************************************************************************)
EXTENDS Integers

CONSTANTS
  L,                  (* BASEPOINT_ORDER                                   *)
  NonCanonicalPoints  (* the points that have a second encoding            *)

(* L is an odd prime: it divides a product only if it divides a factor. *)
ASSUME GroupAssumption ==
  /\ L \in Nat /\ L > 2
  /\ \A a, b \in 1 .. L - 1 : (a * b) % L # 0
  /\ NonCanonicalPoints \subseteq 0 .. 8 * L - 1

Points == 0 .. 8 * L - 1
Basepoint == 8

Add(P, Q) == (P + Q) % (8 * L)
Neg(P) == (-P) % (8 * L)
Mul(n, P) == (n * P) % (8 * L)
MulByCofactor(P) == Mul(8, P)
IsIdentity(P) == P = 0

Compress(P) == [point |-> P, canonical |-> TRUE]
Undecodable == [point |-> -1, canonical |-> FALSE]
Encodings ==
  [point : Points, canonical : {TRUE}]
    \cup [point : NonCanonicalPoints, canonical : {FALSE}]
    \cup {Undecodable}

IsDecodable(e) == e.point \in Points
Decompress(e) == e.point
-----------------------------------------------------------------------------
(* A request q is a record of the encoded key q.A, the encoded point q.R,  *)
(* the integer q.s and the challenge scalar q.h: [8][s]B = [8]R + [8][h]A. *)
Equation(q) ==
  MulByCofactor(Mul(q.s, Basepoint)) =
    Add(MulByCofactor(q.R.point), MulByCofactor(Mul(q.h, q.A.point)))

Valid(q) == IsDecodable(q.R) /\ q.s < L /\ Equation(q)

Verdict(q) ==
  IF ~ IsDecodable(q.A) THEN "MalformedPublicKey"
  ELSE IF Valid(q) THEN "Ok" ELSE "InvalidSignature"
=============================================================================

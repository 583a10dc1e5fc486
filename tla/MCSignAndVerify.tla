-------------------------- MODULE MCSignAndVerify ---------------------------
(***************************************************************************)
(* L = 11 and Scale = 32: the real sizes are L = 2^252 + c and 4 * 2^252.  *)
(* The digests have every clamped scalar (32, 40, 48 and 56) with low bits *)
(* and top bits that clamping must clear or set, two seeds of one scalar   *)
(* with two prefixes, and a digest whose scalar would be 0 unclamped.      *)
(* Decompositions are below 4: 4 * 4 exceeds L = 11 as 2^127 * 2^127       *)
(* exceeds the real order.                                                 *)
(***************************************************************************)
EXTENDS SignAndVerify

MCNonCanonicalPoints == {0, 44}
MCDigest ==
  [seed \in 0 .. 5 |->
     [low    |-> <<0, 47, 127, 41, 88, 22>>[seed + 1],
      prefix |-> <<"P0", "P0", "P1", "P1", "P1", "P0">>[seed + 1]]]
MCRequests == [A : Encodings, R : Encodings, s : 0 .. L - 1, h : 0 .. L - 1]
=============================================================================

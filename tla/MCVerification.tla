--------------------------- MODULE MCVerification ---------------------------
(***************************************************************************)
(* Every key and every R of a group of order 8 * 5, every challenge, and   *)
(* scalars s on both sides of L.  The bounds on rho, tau and the split are *)
(* the real ones scaled: with BL = 3 and Half = 2, both are 2^2.           *)
(***************************************************************************)
EXTENDS Verification

MCL == 5
MCNonCanonicalPoints == {0, 4 * MCL, 2 * MCL, 6 * MCL, 9}
MCLegacyLarge == {16, 27}
MCRequests ==
  [A : Encodings, R : Encodings, s : {0, 1, 3, 5}, h : 0 .. MCL - 1]
=============================================================================

------------------------------- MODULE MCHeea -------------------------------
(***************************************************************************)
(* Every challenge below a small prime order of the shape 2^k + c, the     *)
(* shape of the real one, with the literals 253, 127 and 256 scaled:       *)
(* Half = (BL + 1) / 2, Width = BL + 3.  The 16 bits are four limbs of 4:  *)
(* remainders use all four limbs, cofactors three, shifts cross every limb *)
(* boundary.                                                               *)
(***************************************************************************)
EXTENDS LimbHeea

MCL == 4099          \* 2^12 + 3
MCChallenges == 0 .. MCL - 1
=============================================================================

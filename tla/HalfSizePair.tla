---------------------------- MODULE HalfSizePair ----------------------------
(***************************************************************************)
(* What HEEADecomposition promises of the triple (rho, tau, flip_h) that   *)
(* heea_decompose returns for a challenge v: both scalars are half size,   *)
(* tau is not a multiple of L, and rho = tau * v modulo L, or              *)
(* rho = -tau * v when flip_h is set.                                      *)
(***************************************************************************)
EXTENDS Integers

CONSTANTS L, RhoBound, TauBound

Splits(v) ==
  {o \in [rho : 0 .. RhoBound - 1, tau : 0 .. TauBound - 1, flip_h : BOOLEAN] :
     /\ o.tau % L # 0
     /\ IF o.flip_h THEN (o.rho + o.tau * v) % L = 0
                    ELSE (o.rho - o.tau * v) % L = 0}
=============================================================================

-------------------------------- MODULE Heea --------------------------------
(***************************************************************************)
(* The half-extended Euclidean decomposition of a challenge scalar:        *)
(* Scalar::heea_decompose (scalar.rs) and the loop it calls,               *)
(* curve25519_heea_vartime (scalar/heea.rs).                               *)
(*                                                                         *)
(* The loop starts from the rows <<L, 0>> and <<v, 1>> and subtracts (or   *)
(* adds) power-of-two multiples of the second row from the first until the *)
(* second remainder fits in Half bits.  The code's sign-magnitude I256     *)
(* values are modelled by integers: NoLimbOverflow states that no shift    *)
(* or sum of the loop leaves the Width bits the four limbs provide.        *)
(***************************************************************************)
EXTENDS Powers

CONSTANTS
  L,          (* BASEPOINT_ORDER, the order of the prime subgroup          *)
  BL,         (* the bit length of L, the literal 253 in the loop          *)
  Half,       (* the loop's threshold, the literal 127                     *)
  Width,      (* bits of an I256 magnitude, 256                            *)
  Challenges  (* the scalars to decompose, all below L                     *)

ASSUME HeeaAssumption ==
  /\ L \in Nat /\ BL \in Nat /\ Half \in Nat /\ Width \in Nat
  /\ 1 <= Half /\ Half < BL /\ BL + 3 <= Width
  /\ Pow2[BL - 1] < L /\ L < Pow2[BL]
  /\ Challenges \subseteq 0 .. L - 1

VARIABLES
  v,      (* the challenge being decomposed                                *)
  r0, r1, (* remainders, bl_r0 and bl_r1 their cached bit lengths          *)
  t0, t1, (* cofactors: r = t * v modulo L in each row                     *)
  bl_r0, bl_r1,
  done,   (* heea_decompose has returned                                   *)
  out     (* the (rho, tau, flip_h) it returned                            *)

rows == <<r0, r1, t0, t1, bl_r0, bl_r1>>
vars == <<v, rows, done, out>>

Shl(x, s) == x * Pow2[s]

(* A row operation subtracts the shifted second row when the remainders    *)
(* have the same sign and adds it when they differ.                        *)
Combine(a, b) ==
  LET s == bl_r0 - bl_r1
  IN  IF (r0 < 0) = (r1 < 0) THEN a - Shl(b, s) ELSE a + Shl(b, s)

NoOutput == [rho |-> 0, tau |-> 0, flip_h |-> FALSE]
-----------------------------------------------------------------------------
Init ==
  /\ v \in Challenges
  /\ r0 = L /\ t0 = 0 /\ bl_r0 = BL
  /\ r1 = v /\ t1 = 1 /\ bl_r1 = BitLength(v)
  /\ done = FALSE
  /\ out = NoOutput

(* The new remainder is still longer than r1: it replaces r0. *)
Keep ==
  /\ ~ done /\ bl_r1 > Half
  /\ LET r == Combine(r0, r1)
     IN  /\ BitLength(r) > bl_r1
         /\ r0' = r
         /\ t0' = Combine(t0, t1)
         /\ bl_r0' = BitLength(r)
  /\ UNCHANGED <<v, r1, t1, bl_r1, done, out>>

(* The new remainder is no longer than r1: the rows swap. *)
Swap ==
  /\ ~ done /\ bl_r1 > Half
  /\ LET r == Combine(r0, r1)
     IN  /\ BitLength(r) <= bl_r1
         /\ r1' = r
         /\ t1' = Combine(t0, t1)
         /\ bl_r1' = BitLength(r)
  /\ r0' = r1 /\ t0' = t1 /\ bl_r0' = bl_r1
  /\ UNCHANGED <<v, done, out>>

(* heea_decompose makes both halves non-negative and records in flip_h     *)
(* whether rho = tau * v or rho = -tau * v.                                *)
Return ==
  /\ ~ done /\ bl_r1 <= Half
  /\ done' = TRUE
  /\ out' = [rho    |-> Abs(r1),
             tau    |-> Abs(t1),
             flip_h |-> (r1 < 0) # (t1 < 0)]
  /\ UNCHANGED <<v, rows>>

Next == Keep \/ Swap \/ Return

Spec == Init /\ [][Next]_vars

(* The decomposition never blocks: the thread that runs it takes every     *)
(* enabled step.                                                           *)
FairSpec == Spec /\ WF_vars(Next)
-----------------------------------------------------------------------------
TypeOK ==
  /\ v \in Challenges
  /\ r0 \in Int /\ r1 \in Int /\ t0 \in Int /\ t1 \in Int
  /\ bl_r0 \in 0 .. BL /\ bl_r1 \in 0 .. BL
  /\ done \in BOOLEAN
  /\ out \in [rho : Nat, tau : Nat, flip_h : BOOLEAN]

(* The cached lengths are the remainders' lengths and are ordered, so the  *)
(* u32 subtraction bl_r0 - bl_r1 never underflows; and r0 never drops to   *)
(* the size at which the loop would have stopped.                          *)
CachedLengths ==
  /\ bl_r0 = BitLength(r0) /\ bl_r1 = BitLength(r1)
  /\ bl_r1 <= bl_r0 /\ Half < bl_r0

(* Both rows stay congruent to a multiple of the challenge modulo L. *)
CongruentRows == (r0 - t0 * v) % L = 0 /\ (r1 - t1 * v) % L = 0

Determinant == r0 * t1 - r1 * t0

(* The rows' determinant is L or -L: no row operation loses a factor. *)
UnitDeterminant == Determinant \in {L, -L}

(* The product of r0 and t1, taken with the determinant's sign, stays      *)
(* within 2L although approximate quotients let the remainders change      *)
(* sign; the two inequalities relate its excess over L, and its drop below *)
(* 0, to the leading bits of r0 and of r1.  This is what makes tau short   *)
(* when the loop stops.                                                    *)
Product == IF Determinant > 0 THEN r0 * t1 ELSE -(r0 * t1)

CofactorInv ==
  /\ Product <= 2 * L
  /\ Product * (2 * Pow2[bl_r0 - 1] - Abs(r0)) <= L * Abs(r0)
  /\ bl_r1 = 0 => 0 <= Product
  /\ bl_r1 > 0 =>
       -(Product * Pow2[bl_r1 - 1]) <= L * (Abs(r1) - Pow2[bl_r1 - 1])

(* What the two rows keep through every iteration. *)
RowsInv == CachedLengths /\ CongruentRows /\ UnitDeterminant /\ CofactorInv

(* No shift and no sum of the loop needs more than Width bits, so that the *)
(* carries add_limbs drops and the bits wrapping_shl drops are all zero.   *)
NoLimbOverflow ==
  ~ done /\ bl_r1 > Half =>
    LET s == bl_r0 - bl_r1
    IN  /\ Abs(r0) + Abs(Shl(r1, s)) < Pow2[Width]
        /\ Abs(t0) + Abs(Shl(t1, s)) < Pow2[Width]

(* What verify_zebra_prehashed relies on: the loop with its sign fix-up    *)
(* implements the one-step decomposition of HalfSizeSplit, whose step may  *)
(* only return half-size scalars, with tau not zero modulo L, and          *)
(* rho = tau * v or rho = -tau * v modulo L as flip_h tells.               *)
HS == INSTANCE HalfSizeSplit
        WITH RhoBound <- Pow2[Half], TauBound <- Pow2[BL + 1 - Half]
ImplementsSplit == HS!Spec

(* Every iteration shortens the pair of remainders: the loop needs at most *)
(* 2 * BL iterations.                                                      *)
Shortens == [][rows' # rows => bl_r0' + bl_r1' < bl_r0 + bl_r1]_vars

(* heea_decompose returns, whatever the challenge. *)
Terminates == <>done
=============================================================================

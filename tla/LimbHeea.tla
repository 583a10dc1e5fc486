------------------------------ MODULE LimbHeea ------------------------------
(***************************************************************************)
(* curve25519_heea_vartime as it is compiled: on I256 values, a sign and   *)
(* four little-endian limbs.  The operations of I256 wrap silently:        *)
(* add_limbs and sub_limbs return a last carry or borrow that no caller    *)
(* looks at, wrapping_shl drops the bits above the top limb, and a zero    *)
(* may carry either sign.  The loop runs on limbs; the variables of Heea   *)
(* read their values, so what Heea promises is checked of the limbs.       *)
(***************************************************************************)
EXTENDS Heea

CONSTANT LimbBits  (* 64 *)

(* The magnitude of an I256 is four limbs.                                 *)
ASSUME LimbAssumption == LimbBits \in Nat /\ LimbBits > 0 /\ Width = 4 * LimbBits

Base == Pow2[LimbBits]

FourLimbs(l) == <<l[1], l[2], l[3], l[4]>>
Magnitude(l) == l[1] + Base * (l[2] + Base * (l[3] + Base * l[4]))
Value(x) == IF x.negative THEN -Magnitude(x.limbs) ELSE Magnitude(x.limbs)

(* from_le_bytes of the bytes of n *)
OfNat(n) ==
  [limbs    |-> FourLimbs([i \in 1 .. 4 |-> (n \div Pow2[LimbBits * (i - 1)]) % Base]),
   negative |-> FALSE]

ZERO == OfNat(0)
ONE == OfNat(1)

IsZero(x) == \A i \in 1 .. 4 : x.limbs[i] = 0
IsNegative(x) == x.negative /\ ~ IsZero(x)

WrappingNeg(x) ==
  IF IsZero(x) THEN ZERO ELSE [x EXCEPT !.negative = ~ x.negative]
-----------------------------------------------------------------------------
(* Each limb's sum takes the carry of the limb below; the code gets it     *)
(* from two overflowing_add, of which at most one overflows.               *)
AddLimbs(a, b) ==
  LET carry[i \in 0 .. 4] ==
        IF i = 0 THEN 0 ELSE (a[i] + b[i] + carry[i - 1]) \div Base
  IN  [limbs    |-> FourLimbs([i \in 1 .. 4 |-> (a[i] + b[i] + carry[i - 1]) % Base]),
       overflow |-> carry[4]]

(* Mutant of SubLimbs: the borrow of a limb that is equal is forgotten. *)
SubLimbsBorrowOnce(a, b) ==
  LET borrow[i \in 0 .. 4] ==
        IF i = 0 THEN 0 ELSE IF a[i] < b[i] THEN 1 ELSE 0
  IN  [limbs     |-> FourLimbs([i \in 1 .. 4 |-> (a[i] - b[i] - borrow[i - 1]) % Base]),
       underflow |-> borrow[4]]

(* Each limb's difference pays the borrow of the limb below. *)
SubLimbs(a, b) ==
  LET borrow[i \in 0 .. 4] ==
        IF i = 0 THEN 0 ELSE IF a[i] < b[i] + borrow[i - 1] THEN 1 ELSE 0
  IN  [limbs     |-> FourLimbs([i \in 1 .. 4 |-> (a[i] - b[i] - borrow[i - 1]) % Base]),
       underflow |-> borrow[4]]

(* cmp_magnitude(a, b) is Greater: it looks for the highest limb in which  *)
(* they differ.                                                            *)
MagnitudeGreater(a, b) ==
  \E i \in 1 .. 4 : a[i] > b[i] /\ \A j \in i + 1 .. 4 : a[j] = b[j]

(* Equal magnitudes of opposite signs give ZERO, with its sign cleared. *)
WrappingAdd(x, y) ==
  IF x.negative = y.negative
  THEN [limbs |-> AddLimbs(x.limbs, y.limbs).limbs, negative |-> x.negative]
  ELSE IF MagnitudeGreater(x.limbs, y.limbs)
  THEN [limbs |-> SubLimbs(x.limbs, y.limbs).limbs, negative |-> x.negative]
  ELSE IF MagnitudeGreater(y.limbs, x.limbs)
  THEN [limbs |-> SubLimbs(y.limbs, x.limbs).limbs, negative |-> y.negative]
  ELSE ZERO

WrappingSub(x, y) == WrappingAdd(x, WrappingNeg(y))

(* Ord for I256: x < y.  The flags decide first, so a zero whose flag is   *)
(* set would be less than ZERO.                                            *)
Less(x, y) ==
  CASE x.negative /\ ~ y.negative   -> TRUE
    [] ~ x.negative /\ y.negative   -> FALSE
    [] ~ x.negative /\ ~ y.negative -> MagnitudeGreater(y.limbs, x.limbs)
    [] x.negative /\ y.negative     -> MagnitudeGreater(x.limbs, y.limbs)

(* A limb of the shifted array takes its low bits from the limb below,     *)
(* none when the shift is a whole number of limbs: the code treats that    *)
(* case apart because l >> 64 is not a shift.                              *)
WrappingShl(x, shift) ==
  LET limb_shift == shift \div LimbBits
      bit_shift == shift % LimbBits
      l == x.limbs
  IN  IF shift = 0 THEN x
      ELSE IF shift >= 4 * LimbBits THEN ZERO
      ELSE [x EXCEPT !.limbs =
        FourLimbs([i \in 1 .. 4 |->
          LET j == i - limb_shift
              below == IF j > 1 THEN l[j - 1] ELSE 0
          IN  IF j < 1 THEN 0
              ELSE ((l[j] * Pow2[bit_shift]) % Base)
                     + (below \div Pow2[LimbBits - bit_shift])])]

(* bit_length_i256: the top limb that is not zero decides. *)
BitLengthI256(x) ==
  IF IsZero(x) THEN 0
  ELSE LET i == CHOOSE i \in 1 .. 4 :
                  x.limbs[i] # 0 /\ \A j \in i + 1 .. 4 : x.limbs[j] = 0
       IN  LimbBits * (i - 1) + BitLength(x.limbs[i])
-----------------------------------------------------------------------------
VARIABLE limbs  (* the I256 values of r0, r1, t0 and t1                    *)

limbVars == <<limbs, vars>>

LimbInit ==
  /\ v \in Challenges
  /\ limbs = [r0 |-> OfNat(L), t0 |-> ZERO, r1 |-> OfNat(v), t1 |-> ONE]
  /\ r0 = Value(limbs.r0) /\ t0 = Value(limbs.t0) /\ bl_r0 = BL
  /\ r1 = Value(limbs.r1) /\ t1 = Value(limbs.t1)
  /\ bl_r1 = BitLengthI256(limbs.r1)
  /\ done = FALSE
  /\ out = NoOutput

(* Mutants of LimbCombine: deciding by the signs of its own arguments;     *)
(* adding whatever the signs.                                              *)
LimbCombineOwnSigns(a, b) ==
  LET shifted == WrappingShl(b, bl_r0 - bl_r1)
  IN  IF IsNegative(a) = IsNegative(b)
      THEN WrappingSub(a, shifted) ELSE WrappingAdd(a, shifted)

LimbCombine(a, b) ==
  LET shifted == WrappingShl(b, bl_r0 - bl_r1)
  IN  IF IsNegative(limbs.r0) = IsNegative(limbs.r1)
      THEN WrappingSub(a, shifted) ELSE WrappingAdd(a, shifted)

SetRows(rs, bl0, bl1) ==
  /\ limbs' = rs
  /\ r0' = Value(limbs'.r0) /\ t0' = Value(limbs'.t0) /\ bl_r0' = bl0
  /\ r1' = Value(limbs'.r1) /\ t1' = Value(limbs'.t1) /\ bl_r1' = bl1

(* Mutant of Iterate: the cached length of r0 is not refreshed. *)
IterateStale ==
  /\ ~ done /\ bl_r1 > Half
  /\ \E r \in {LimbCombine(limbs.r0, limbs.r1)},
        t \in {LimbCombine(limbs.t0, limbs.t1)} :
       LET bl_r == BitLengthI256(r)
       IN  \/ /\ bl_r > bl_r1
              /\ SetRows([limbs EXCEPT !.r0 = r, !.t0 = t], bl_r0, bl_r1)
           \/ /\ bl_r <= bl_r1
              /\ SetRows([r0 |-> limbs.r1, t0 |-> limbs.t1, r1 |-> r, t1 |-> t], bl_r1, bl_r)
  /\ UNCHANGED <<v, done, out>>

(* The new remainder replaces r0 while it is longer than r1; once it is    *)
(* not, the rows swap.                                                     *)
Iterate ==
  /\ ~ done /\ bl_r1 > Half
  /\ \E r \in {LimbCombine(limbs.r0, limbs.r1)},
        t \in {LimbCombine(limbs.t0, limbs.t1)} :
       LET bl_r == BitLengthI256(r)
       IN  \/ /\ bl_r > bl_r1
              /\ SetRows([limbs EXCEPT !.r0 = r, !.t0 = t], bl_r, bl_r1)
           \/ /\ bl_r <= bl_r1
              /\ SetRows([r0 |-> limbs.r1, t0 |-> limbs.t1, r1 |-> r, t1 |-> t], bl_r1, bl_r)
  /\ UNCHANGED <<v, done, out>>

(* -x when x is less than ZERO: the Scalar made of it takes the limbs only.*)
Positive(x) == IF Less(x, ZERO) THEN WrappingNeg(x) ELSE x

(* Mutants of LimbReturn: the cofactor keeps its sign; the sign of tau is  *)
(* not recorded.                                                           *)
LimbReturnSignedTau ==
  /\ ~ done /\ bl_r1 <= Half
  /\ done' = TRUE
  /\ out' = [rho |-> Magnitude(limbs.r1.limbs), tau |-> Value(limbs.t1),
             flip_h |-> Less(limbs.r1, ZERO)]
  /\ UNCHANGED <<v, rows, limbs>>

LimbReturnRhoSign ==
  /\ ~ done /\ bl_r1 <= Half
  /\ done' = TRUE
  /\ out' = [rho    |-> Magnitude(Positive(limbs.r1).limbs),
             tau    |-> Magnitude(Positive(limbs.t1).limbs),
             flip_h |-> Less(limbs.r1, ZERO)]
  /\ UNCHANGED <<v, rows, limbs>>

LimbReturn ==
  /\ ~ done /\ bl_r1 <= Half
  /\ done' = TRUE
  /\ out' = [rho    |-> Magnitude(Positive(limbs.r1).limbs),
             tau    |-> Magnitude(Positive(limbs.t1).limbs),
             flip_h |-> Less(limbs.r1, ZERO) # Less(limbs.t1, ZERO)]
  /\ UNCHANGED <<v, rows, limbs>>

LimbNext == Iterate \/ LimbReturn

(* The thread that runs the loop takes every enabled step. *)
LimbSpec == LimbInit /\ [][LimbNext]_limbVars /\ WF_limbVars(LimbNext)
-----------------------------------------------------------------------------
(* The limbs hold what the integers of Heea are: no carry, borrow or       *)
(* shifted-out bit that the code ignores is ever set, and the comparisons  *)
(* of signs and of limbs decide as those of integers do.                   *)
ImplementsHeea == Spec
=============================================================================

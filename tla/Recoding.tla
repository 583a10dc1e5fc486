------------------------------ MODULE Recoding ------------------------------
(***************************************************************************)
(* Scalar::non_adjacent_form, as_radix_16 and as_radix_2w: a scalar in     *)
(* signed digits, which every multiplication reads.                        *)
(*                                                                         *)
(* non_adjacent_form is a scan that rewrites the scalar in odd digits of   *)
(* width w, at most one in any w consecutive places.  It never subtracts a *)
(* negative digit from the scalar: it leaves a carry for the next window.  *)
(*                                                                         *)
(* The other two give centered digits of w bits, as the fixed-window       *)
(* multiplications (w = 4), the basepoint tables (w = 4 to 8) and          *)
(* Pippenger's buckets (w = 6 to 8) read them.  Width 4 recenters an array *)
(* of nibbles in place; the other widths fold the last carry into a digit. *)
(*                                                                         *)
(* Windows are cut out of 64-bit limbs, and digits are stored as i8.       *)
(***************************************************************************)
EXTENDS Powers

CONSTANTS
  LimbBits,  (* bits of a limb, 64                                         *)
  Limbs,     (* limbs of a scalar, 4                                       *)
  Scalars,   (* the scalars to recode                                      *)
  Widths     (* the widths of non-adjacent forms, 2 to 8                   *)

Bits == LimbBits * Limbs

(* The two debug assertions of non_adjacent_form on w, and the invariant   *)
(* #1 of Scalar; and a window of 7 bits never ends at the top, where its   *)
(* carry would not fit an i8.                                              *)
ASSUME RecodingAssumption ==
  /\ LimbBits \in Nat /\ LimbBits > 8 /\ Limbs \in Nat \ {0}
  /\ Widths \subseteq 2 .. 8
  /\ Bits % 8 = 0 /\ Bits % 7 # 0 /\ Bits >= 16
  /\ Scalars \subseteq 0 .. Pow2[Bits - 1] - 1

VARIABLES
  method,  (* "naf" or "radix"                                             *)
  x, w,    (* the arguments                                                *)
  at,      (* the place of a scan, or the index of the next centered digit *)
  carry,   (* the carry into it; for radix 16 it is in the digit itself    *)
  digits,
  done     (* as_radix_16 or as_radix_2w has returned                      *)

vars == <<method, x, w, at, carry, digits, done>>

x_u64(k) == (x \div Pow2[LimbBits * k]) % Pow2[LimbBits]

(* The bits of the scalar from place pos on: those of one limb, or-ed with *)
(* those of the next when the window ends in it.  The two operands have no *)
(* bit in common, so that the or is a sum.                                 *)
BitBuf(pos, inOneLimb) ==
  LET u   == pos \div LimbBits
      bit == pos % LimbBits
      lo  == x_u64(u) \div Pow2[bit]
  IN  IF bit < LimbBits - w \/ inOneLimb THEN lo
      ELSE lo + ((x_u64(u + 1) * Pow2[LimbBits - bit]) % Pow2[LimbBits])
-----------------------------------------------------------------------------
(* non_adjacent_form; its array of limbs ends with one that is zero.       *)
window == carry + (BitBuf(at, FALSE) % Pow2[w])

NafInit ==
  /\ method = "naf" /\ x \in Scalars /\ w \in Widths
  /\ at = 0 /\ carry = 0 /\ done = FALSE
  /\ digits = [i \in 0 .. Bits - 1 |-> 0]

(* An even window: one place on, and the carry is kept. *)
Even ==
  /\ method = "naf" /\ at < Bits /\ window % 2 = 0
  /\ at' = at + 1
  /\ UNCHANGED <<method, x, w, carry, digits, done>>

(* An odd window in the lower half is a digit. *)
Positive ==
  /\ method = "naf" /\ at < Bits
  /\ window % 2 = 1 /\ window < Pow2[w - 1]
  /\ carry' = 0
  /\ digits' = [digits EXCEPT ![at] = ToI8(window)]
  /\ at' = at + w
  /\ UNCHANGED <<method, x, w, done>>

(* One in the upper half is a negative digit and a carry. *)
Negative ==
  /\ method = "naf" /\ at < Bits
  /\ window % 2 = 1 /\ window >= Pow2[w - 1]
  /\ carry' = 1
  /\ digits' = [digits EXCEPT ![at] = ToI8(ToI8(window) - ToI8(Pow2[w]))]
  /\ at' = at + w
  /\ UNCHANGED <<method, x, w, done>>

NafStep == Even \/ Positive \/ Negative
-----------------------------------------------------------------------------
(* The array holds what radix 16 needs; wider digits leave a rest of zeros.*)
Size == Bits \div 4
digits_count == (Bits + w - 1) \div w

(* to_radix_2w_size_hint *)
SizeHint == IF w = 8 THEN digits_count + 1 ELSE digits_count

(* The last limb has no next one to read from.                             *)
RadixBits == BitBuf(at * w, (at * w) \div LimbBits = Limbs - 1)

RadixInit ==
  /\ method = "radix" /\ x \in Scalars /\ w \in 4 .. 8
  /\ at = 0 /\ carry = 0 /\ done = FALSE
  /\ digits = [k \in 0 .. Size - 1 |->
                 IF w = 4 THEN (x \div Pow2[4 * k]) % 16 ELSE 0]

(* as_radix_16: a nibble of 8 or more is lowered by 16 and the next one    *)
(* raised.  The last one is left as it is.                                 *)
Recenter ==
  /\ method = "radix" /\ w = 4 /\ ~ done
  /\ LET c == (digits[at] + 8) \div 16
     IN  digits' = [digits EXCEPT ![at] = @ - 16 * c, ![at + 1] = @ + c]
  /\ at' = at + 1
  /\ done' = (at' = Size - 1)
  /\ UNCHANGED <<method, x, w, carry>>

(* Mutant of Window: half of the radix is not recentered. *)
WindowKeepsHalf ==
  /\ method = "radix" /\ w > 4 /\ at < digits_count
  /\ LET coef == carry + (RadixBits % Pow2[w])
         c    == (coef + Pow2[w - 1] - 1) \div Pow2[w]
     IN  /\ carry' = c
         /\ digits' = [digits EXCEPT ![at] = ToI8(coef - c * Pow2[w])]
  /\ at' = at + 1
  /\ UNCHANGED <<method, x, w, done>>

(* as_radix_2w: the window and the carry, recentered. *)
Window ==
  /\ method = "radix" /\ w > 4 /\ at < digits_count
  /\ LET coef == carry + (RadixBits % Pow2[w])
         c    == (coef + Pow2[w - 1]) \div Pow2[w]
     IN  /\ carry' = c
         /\ digits' = [digits EXCEPT ![at] = ToI8(coef - c * Pow2[w])]
  /\ at' = at + 1
  /\ UNCHANGED <<method, x, w, done>>

(* Mutant of FoldCarry: width 8 folds like the others. *)
FoldCarryBack ==
  /\ method = "radix" /\ w > 4 /\ at = digits_count /\ ~ done
  /\ digits' = [digits EXCEPT ![at - 1] = @ + ToI8(carry * Pow2[w])]
  /\ done' = TRUE
  /\ UNCHANGED <<method, x, w, at, carry>>

(* The last carry goes back to the last digit, or, for width 8, where it   *)
(* would not fit an i8, to a digit more.                                   *)
FoldCarry ==
  /\ method = "radix" /\ w > 4 /\ at = digits_count /\ ~ done
  /\ digits' = IF w = 8 THEN [digits EXCEPT ![at] = @ + carry]
               ELSE [digits EXCEPT ![at - 1] = @ + ToI8(carry * Pow2[w])]
  /\ done' = TRUE
  /\ UNCHANGED <<method, x, w, at, carry>>

RadixStep == Recenter \/ Window \/ FoldCarry
-----------------------------------------------------------------------------
Init == NafInit \/ RadixInit
Next == NafStep \/ RadixStep

Spec == Init /\ [][Next]_vars
-----------------------------------------------------------------------------
NafTypeOK ==
  /\ w \in Widths /\ at \in 0 .. Bits + w - 1
  /\ digits \in [0 .. Bits - 1 -> -128 .. 127]

RadixTypeOK ==
  /\ w \in 4 .. 8 /\ at \in 0 .. Size /\ done \in BOOLEAN
  /\ digits \in [0 .. Size - 1 -> -128 .. 127]

TypeOK ==
  /\ method \in {"naf", "radix"} /\ x \in Scalars /\ carry \in {0, 1}
  /\ IF method = "naf" THEN NafTypeOK ELSE RadixTypeOK

(* The loop invariant: the digits written so far, plus what the scan has   *)
(* not read and the carry, weighted by its position, are the scalar.  No   *)
(* carry is left over: the 256 places are enough for every scalar that     *)
(* satisfies invariant #1.                                                 *)
NafExpansion ==
  LET rest == IF at >= Bits THEN 0 ELSE (carry + x \div Pow2[at]) * Pow2[at]
  IN  x = DigitSum(digits, 1, Bits) + rest

(* The loop invariant: the digits, with what is still to be read and the   *)
(* carry into it, are the scalar at every step.                            *)
RadixExpansion ==
  LET rest == IF w = 4 \/ done THEN 0
              ELSE (carry + x \div Pow2[w * at]) * Pow2[w * at]
  IN  x = DigitSum(digits, w, IF w = 4 THEN Size ELSE SizeHint) + rest

Expansion == IF method = "naf" THEN NafExpansion ELSE RadixExpansion

(* The scan with its carry computes Algorithm 3.35, which its comment      *)
(* cites and which subtracts each digit from the scalar.                   *)
NafMatches == at >= Bits => digits = Naf(x, w, Bits)

(* In place and over limbs alike, the digits are those of repeated         *)
(* division with the centered remainder; those the size hint leaves out    *)
(* are zero.                                                               *)
RadixMatches ==
  done => \A k \in 0 .. Size - 1 :
            digits[k] = IF k < SizeHint THEN Radix(x, w, SizeHint)[k] ELSE 0

MatchesReference == IF method = "naf" THEN NafMatches ELSE RadixMatches

(* Digits are odd and below 2^(w-1), which is what the lookup tables of    *)
(* w - 2 bits hold, and two of them are at least w places apart.  A scalar *)
(* of n bits has none beyond place n, so that mul_128_128_256 may start at *)
(* HEEA_MAX_INDEX.                                                         *)
NafFits ==
  \A i \in 0 .. Bits - 1 :
    digits[i] # 0 =>
      /\ digits[i] % 2 = 1 /\ digits[i] < Pow2[w - 1] /\ -digits[i] < Pow2[w - 1]
      /\ \A j \in i + 1 .. Bits - 1 : j < i + w => digits[j] = 0
      /\ i > 0 => Pow2[i - 1] <= x

(* Every digit lies in [-2^(w-1), 2^(w-1)), the last one may be 2^(w-1):   *)
(* LookupTable's eight entries and Pippenger's 2^(w-1) buckets suffice.    *)
RadixFits ==
  done => \A k \in 0 .. Size - 1 :
            /\ -digits[k] <= Pow2[w - 1]
            /\ digits[k] < Pow2[w - 1]
                 \/ (digits[k] = Pow2[w - 1] /\ k = SizeHint - 1)

FitsTables == IF method = "naf" THEN NafFits ELSE RadixFits
=============================================================================

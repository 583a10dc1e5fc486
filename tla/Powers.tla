------------------------------- MODULE Powers -------------------------------
(***************************************************************************)
(* Powers of two, magnitudes and bit lengths: the arithmetic the scalar    *)
(* code does on I256 values and on limbs, stated over the integers; and    *)
(* signed digit expansions: what an array of i8 digits stands for and, as  *)
(* functions of the scalar, the expansions the recoding loops compute.     *)
(***************************************************************************)
EXTENDS Integers

Abs(x) == IF x < 0 THEN -x ELSE x

Pow2[n \in Nat] == IF n = 0 THEN 1 ELSE 2 * Pow2[n - 1]

(* bit_length_i256: the number of bits of the magnitude, 0 for zero. The   *)
(* length of a number never exceeds its magnitude, which bounds the search.*)
BitLength(x) ==
  CHOOSE n \in 0 .. Abs(x) :
    /\ Abs(x) < Pow2[n]
    /\ n > 0 => Pow2[n - 1] <= Abs(x)
-----------------------------------------------------------------------------
(* "as i8": the low eight bits, read as two's complement. *)
ToI8(n) == ((n + 128) % 256) - 128

(* Sum(f)[n] is f[0] + ... + f[n - 1]. *)
Sum(f) ==
  LET sum[n \in Nat] == IF n = 0 THEN 0 ELSE sum[n - 1] + f[n - 1]
  IN  sum

(* The value of the first n digits of d, digit i weighing 2^(w * i). *)
DigitSum(d, w, n) ==
  Sum([i \in Nat |-> IF i < n THEN d[i] * Pow2[w * i] ELSE 0])[n]

(* n modulo 2^w in -2^(w-1) .. 2^(w-1) - 1. *)
SignedMod(n, w) == ((n + Pow2[w - 1]) % Pow2[w]) - Pow2[w - 1]

(* What non_adjacent_form returns: k[i] is the scalar less the digits      *)
(* below place i, divided by 2^i.                                          *)
Naf(x, w, bits) ==
  LET digit(n) == IF n % 2 = 0 THEN 0 ELSE SignedMod(n, w)
      k[i \in 0 .. bits - 1] ==
        IF i = 0 THEN x ELSE LET n == k[i - 1] IN (n - digit(n)) \div 2
  IN  [i \in 0 .. bits - 1 |-> digit(k[i])]

(* What as_radix_2w returns, in n digits: q[k] is the scalar without its   *)
(* first k digits.  The last digit takes what is left.                     *)
Radix(x, w, n) ==
  LET q[k \in 0 .. n - 1] ==
        IF k = 0 THEN x ELSE (q[k - 1] + Pow2[w - 1]) \div Pow2[w]
  IN  [k \in 0 .. n - 1 |->
         IF k < n - 1 THEN SignedMod(q[k], w) ELSE q[k]]
=============================================================================

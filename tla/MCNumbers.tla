----------------------------- MODULE MCNumbers -----------------------------
(***************************************************************************)
(* Recodings: two limbs of 12 bits, the real widths and the real i8, so    *)
(* that windows straddle the limbs at many offsets.  Scalars: three limbs  *)
(* of 6 bits, and a prime L whose middle limb is 0 and that is 5 modulo 8, *)
(* as the real one is.  Field elements: three limbs of 9 bits, or six of 5 *)
(* and 4, p = 2^27 - 3.  The limbs lie at the boundaries.                  *)
(***************************************************************************)
EXTENDS Numbers

Edges == {0, 1, 3, 7, 8, 15, 16, 31, 32, 63, 85, 127, 128, 129, 170, 255, 256,
          383, 511, 1023, 1024, 1365, 1984, 2047, 2048, 2730, 3584, 4032, 4080,
          4088, 4095}
MCScalars == {lo + 4096 * hi : lo \in Edges, hi \in Edges \cap 0 .. 2047}

L == 4133
MCStrings ==
  {k * L + d : k \in 1 .. 15, d \in {-1, 0, 1}}
    \cup {lo + 64 * mid + 4096 * hi :
            lo \in {0, 1, 36, 37, 63}, mid \in {0, 1, 63}, hi \in {0, 1, 7, 8, 15}}
MCOperands == {0, 1, 2, 63, 64, 2066, 4095, 4096, 4132}
MCHighs == {0, 1, 4133, 65535}
(* L - 2 = 10000 001 00011 b *)
MCWindows == <<<<5, 16>>, <<3, 1>>, <<5, 3>>>>

LimbEdges == {0, 1, 509, 511, 512, 4095}
MCFieldElements == {<<a, b, c>> : a \in LimbEdges, b \in {0, 511, 4095}, c \in {0, 511, 600}}
                     \cup {<<508, 511, 511>>, <<510, 511, 511>>, <<300, 200, 100>>}
=============================================================================

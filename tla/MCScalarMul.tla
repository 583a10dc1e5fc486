----------------------------- MODULE MCScalarMul -----------------------------
(***************************************************************************)
(* A group of order 8 * 127.  The methods over non-adjacent forms: scalars *)
(* of 8 bits cut at 2^4, tables for digits of 3 and 4 bits, scalars with a *)
(* carry into the highest places, first scalars of triple_base that are    *)
(* short and some that are not.                                            *)
(* Those over centered digits: scalars of 16 bits, digits of the real      *)
(* widths; Pippenger takes lists of one point with 6-bit digits, of two    *)
(* with 7, of three with 8; scalars whose last digit is the largest one,   *)
(* or folds a carry.                                                       *)
(* Points with and without a torsion part, lists of up to three points.    *)
(***************************************************************************)
EXTENDS ScalarMul

MCL == 127
Somewhere == {0, 8, 11, 508}

CallOf(method, static, static_scalars, scalars, points) ==
  [method |-> method, static |-> static, static_scalars |-> static_scalars,
   scalars |-> scalars, points |-> points]
Plain(method, scalars, points) == CallOf(method, <<>>, <<>>, scalars, points)
Lists(S, n) == UNION {[1 .. k -> S] : k \in 0 .. n}

Bytes == {0, 7, 90, 119, 127}
Shorts == {0, 5, 15}
Longs == {13, 64}
NafCalls ==
  {Plain("double_base", <<a, b>>, <<P>>) : a \in Bytes, b \in Bytes, P \in Somewhere}
  \cup {Plain("triple_base", <<a1, a2, b>>, <<P, 8>>) :
          a1 \in Shorts, a2 \in Shorts, b \in Bytes, P \in {11, 508}}
  \cup {Plain("triple_base", <<a1, a2, 90>>, <<11, 8>>) : a1 \in Longs, a2 \in Longs}
  \cup {Plain("straus", s, P) :
          s \in Lists({1, 90, 127}, 2), P \in Lists({None, 8, 11}, 2)}
  \cup {CallOf("precomputed", st, ss, s, P) :
          st \in {<<>>, <<9>>, <<9, 508>>}, ss \in Lists({7, 119}, 2),
          s \in {<<>>, <<90>>}, P \in {<<>>, <<11>>, <<None>>}}

Words == {0, 1, 127, 128, 2080, 32639, 32640, 32767}
Few == {1, 2080, 32640}
WindowCalls ==
  {Plain(m, <<x>>, <<P>>) : m \in WindowMethods, x \in Words, P \in Somewhere}
  \cup {Plain("straus_ct", s, P) : s \in Lists(Few, 2), P \in Lists({8, 11}, 2)}
  \cup {Plain("pippenger", s, P) :
          s \in Lists(Few, 3) \ {<<>>},
          P \in {<<11, 9>>, <<11, None>>, <<11, 508, 8>>}}

MCCalls == NafCalls \cup WindowCalls
=============================================================================

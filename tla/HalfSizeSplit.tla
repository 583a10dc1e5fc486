--------------------------- MODULE HalfSizeSplit ---------------------------
(***************************************************************************)
(* The abstract decomposition: one step that returns any half-size pair    *)
(* for the challenge.  Module Heea implements it with the Euclidean loop;  *)
(* module Verification uses it in place of the loop.                       *)
(***************************************************************************)
EXTENDS HalfSizePair

CONSTANTS Challenges, NoOutput

VARIABLES v, done, out

Init == v \in Challenges /\ done = FALSE /\ out = NoOutput

Decompose ==
  /\ ~ done /\ done' = TRUE
  /\ out' \in Splits(v)
  /\ UNCHANGED v

Spec == Init /\ [][Decompose]_<<v, done, out>>
=============================================================================

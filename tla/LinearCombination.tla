-------------------------- MODULE LinearCombination --------------------------
(***************************************************************************)
(* What a scalar multiplication promises, whatever the method: one of the  *)
(* answers its call allows, in one step.                                   *)
(***************************************************************************)
EXTENDS MulCalls

VARIABLES
  call,
  result   (* a point, None, Panic or Pending                              *)

Init == call \in Calls /\ result = Pending

Compute ==
  /\ result = Pending
  /\ result' \in Outcomes(call)
  /\ UNCHANGED call

Spec == Init /\ [][Compute]_<<call, result>>
=============================================================================

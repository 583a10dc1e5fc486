------------------------------- MODULE Zip215 -------------------------------
(***************************************************************************)
(* The verdict the documentation of VerificationKey::verify promises: the  *)
(* ZIP-215 criteria, decided in one step from the request alone.           *)
(***************************************************************************)
EXTENDS EdwardsGroup

CONSTANT Requests  (* the requests (A, R, s, h) a caller may make          *)

VARIABLES
  request,  (* the encoded key A, and R, s and the challenge scalar h      *)
  verdict   (* "Pending" until the request is decided                      *)

Init == request \in Requests /\ verdict = "Pending"

Decide ==
  /\ verdict = "Pending"
  /\ verdict' = Verdict(request)
  /\ UNCHANGED request

Spec == Init /\ [][Decide]_<<request, verdict>>
=============================================================================

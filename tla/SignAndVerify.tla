--------------------------- MODULE SignAndVerify ----------------------------
(***************************************************************************)
(* Signing composed with Verification: what a SigningKey signs is handed   *)
(* to a verifier, who parses the key and asks for both verdicts.           *)
(***************************************************************************)
EXTENDS Signing, Verification

(* The verifier is ready for whatever a signer may send.                   *)
ASSUME RequestsAssumption ==
  [A : Encodings, R : Encodings, s : 0 .. L - 1, h : 0 .. L - 1] \subseteq Requests

(* The two large-order points in the legacy list have a torsion part of    *)
(* order 8, so no multiple of the basepoint is one of them.                *)
ASSUME LegacyOutsideSubgroup == \A P \in LegacyLarge : P % 8 # 0

NoRequest == [A |-> Undecodable, R |-> Undecodable, s |-> 0, h |-> 0]

SystemInit == SigningInit /\ request = NoRequest /\ Init

(* The verifier receives a signature with the key and the message. *)
Submit ==
  /\ request = NoRequest
  /\ \E x \in signatures : request' = Request(x)
  /\ UNCHANGED <<signingVars, key, minus_A, pc, locals, zebra, dalek>>

SignStep   == request = NoRequest /\ SigningNext /\ UNCHANGED vars
VerifyStep == request # NoRequest /\ Next /\ UNCHANGED signingVars

SystemSpec ==
  SystemInit /\ [][SignStep \/ Submit \/ VerifyStep]_<<signingVars, vars>>
-----------------------------------------------------------------------------
(* The default mode accepts every signature, whatever the key, the hashes  *)
(* and the decomposition; the strict mode rejects one only when its nonce  *)
(* is 0, so that R is the identity, which the legacy list excludes.        *)
HonestSignaturesAccepted ==
  request # NoRequest =>
    /\ key # "Malformed"
    /\ zebra # "InvalidSignature"
    /\ dalek = "InvalidSignature" => request.R = Compress(0)
=============================================================================

-------------------------- MODULE MCKeyDocuments ----------------------------
(***************************************************************************)
(* Four byte strings: one does not decode, two seeds share a public key,   *)
(* and every string is a seed.                                             *)
(***************************************************************************)
EXTENDS KeyDocuments

CONSTANTS b1, b2, b3, b4
MCPublic == [b \in Bytes32 |-> CASE b = b1 -> b2 [] b = b4 -> b3 [] OTHER -> b1]
=============================================================================

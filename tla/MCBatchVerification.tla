------------------------ MODULE MCBatchVerification ------------------------
(***************************************************************************)
(* Up to three items from two keys and an undecodable one, with L = 5 and  *)
(* every z.  Key1 is 2B; Key2 is 2B plus a torsion point, and one R has a  *)
(* torsion part too, so that some items are valid only with the cofactor.  *)
(***************************************************************************)
EXTENDS BatchVerification

MCL == 5
MCNonCanonicalPoints == {0}
Key1 == Compress(16)
Key2 == Compress(21)

Good1 == [A |-> Key1, R |-> Compress(8), s |-> 2, h |-> 3]
Good2 == [A |-> Key1, R |-> Compress(29), s |-> 0, h |-> 1]
Good3 == [A |-> Key2, R |-> Compress(32), s |-> 2, h |-> 4]
BadScalar1 == [Good1 EXCEPT !.s = 3]
BadScalar3 == [Good3 EXCEPT !.s = 1]
LargeScalar == [Good3 EXCEPT !.s = 2 + MCL]
BadPoint == [Good1 EXCEPT !.R = Undecodable]
BadKey == [Good3 EXCEPT !.A = Undecodable]

MCItems ==
  {Good1, Good2, Good3, BadScalar1, BadScalar3, LargeScalar, BadPoint, BadKey}
MCDraws == 0 .. MCL - 1
=============================================================================

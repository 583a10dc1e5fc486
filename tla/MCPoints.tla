------------------------------ MODULE MCPoints ------------------------------
(***************************************************************************)
(* The field of 2^7 - 19 = 109 elements and the curve with d = 11, of      *)
(* order 8 * 13, whose constants have the signs of the real ones; its      *)
(* twist has the order 4 * 29, four times a prime as well.  Operands of    *)
(* every torsion, some with a denominator.  Lizard elements have two bits  *)
(* of digest above two bits of data and one below them                       *)
(***************************************************************************)
EXTENDS Points

ASSUME LizardAssumption

(* k(z) is k times (1, 14), a point of order 8 * 13, with the denominator z. *)
OperandOf8 == Extended(19, 20, 3, 54)    \* 8(3)
OperandOf26 == Extended(30, 0, 9, 0)    \* 26(9)
OperandOf76 == Extended(90, 7, 1, 85)    \* 76(1)
OperandOf77 == Extended(26, 76, 1, 14)   \* 77(1)
OperandOf2 == Extended(65, 83, 5, 98)     \* 2(5)
MCOperands ==
  {IdentityPoint, OperandOf8, OperandOf77,
   Extended(106, 10, 1, 79),   \* 13(1)
   Extended(94, 0, 50, 0),     \* 26(50)
   Extended(0, 107, 2, 0),     \* 52(2)
   Extended(1, 95, 108, 14)}     \* 103(108)
MCSubgroupOperands == {IdentityPoint, OperandOf8, Extended(30, 43, 1, 91)}  \* 96(1)
MCRistrettoOperands == {IdentityPoint, OperandOf2, OperandOf26, OperandOf76}
MCBasepoint == Extended(30, 43, 1, 91)
MCBasepoint128 == Extended(64, 38, 1, 34)
MCEightTorsion ==
  <<Extended(0, 1, 1, 0),
    Extended(106, 10, 1, 79),
    Extended(76, 0, 1, 0),
    Extended(106, 99, 1, 30),
    Extended(0, 108, 1, 0),
    Extended(3, 99, 1, 79),
    Extended(33, 0, 1, 0),
    Extended(3, 10, 1, 30)>>
MCFactors == {0, 1, 40, 2184, 32639}
MCShorts == {0, 251}
MCScalarLists ==
  {<<>>, <<2184>>, <<1, 32639>>, <<32639, 104, 7>>, <<5, 2184, 0, 32767>>}
MCPointLists ==
  {<<>>, <<OperandOf26>>, <<OperandOf77, OperandOf76>>, <<OperandOf26, None>>,
   <<OperandOf76, OperandOf26, OperandOf77>>,
   <<OperandOf26, OperandOf76, OperandOf76, IdentityPoint>>}
MCMessages == {0, 1, 2}
MCSeparators == 0 .. 3
(* A digest of what is hashed, its parts mixed *)
MCHashOf(content, number, separator) ==
  LET parts == IF Len(content) = 3 THEN 3 * content[2] + content[3]
               ELSE content[1] + 3 * content[2] + 5 * content[3] + 7 * content[4]
  IN  [k \in 1 .. 4 |-> (parts + 5 * number + 11 * separator + k * k) % 16]
MCSamples == {255}
MCDigest == [d \in 0 .. 3 |-> (d * 57 + 114) % 256]
=============================================================================

------------------------------ MODULE Numbers -------------------------------
(***************************************************************************)
(* The numbers of the library: one recoding of a scalar (module Recoding), *)
(* or a sequence of calls on Scalars and on field elements in limbs: a     *)
(* string becomes a Scalar, or limbs become field elements, and operations *)
(* are applied.                                                            *)
(***************************************************************************)
EXTENDS Recoding, ScalarLimbs

CONSTANTS
  ScalarStrings,   (* the integers that 32 bytes spell                     *)
  ScalarOperands,  (* second operands, below L                             *)
  ScalarHighs,     (* upper parts of strings of twice the length           *)
  FieldElements    (* limbs of field elements, as long as mul allows       *)

VARIABLES call, value

CallVars == <<call, value>>

Calling(m, ns) == call' = [method |-> m, ns |-> ns]
Yields(kind, v) == value' = <<kind, v>>
OptionScalar(s) == value' = IF s = NoScalar THEN <<"none">> ELSE <<"scalar", s>>

CallInit == call = [method |-> "start", ns |-> <<>>] /\ value = <<"none">>
NoCalls == call = [method |-> "idle", ns |-> <<>>] /\ value = <<"none">>
-----------------------------------------------------------------------------
ReadScalar ==
  /\ call.method = "start"
  /\ \E s \in ScalarStrings :
       \/ Calling("from_bytes_mod_order", <<s>>) /\ Yields("scalar", Reduce(s))
       \/ Calling("from_canonical_bytes", <<s>>) /\ OptionScalar(FromCanonicalBytes(s))
       \/ \E n \in {ScalarBits \div 8 - 1, ScalarBits \div 8} :
            Calling("deserialize", <<s, n>>)
            /\ OptionScalar(VisitScalar(SubSeq(ToBytes(s), 1, n)))
       \/ s < 2^(ScalarBits \div 2) /\ Calling("from", <<s>>)
          /\ Yields("scalar", FromInteger(s))
       \/ Calling("from_bits", <<s>>) /\ Yields("unreduced", FromBits(s))
       \/ Calling("clamp_integer", <<s>>) /\ Yields("unreduced", ClampInteger(s))
       \/ \E hi \in ScalarHighs :
            Calling("from_bytes_mod_order_wide", <<2 * s, hi>>)
            /\ Yields("scalar", FromBytesModOrderWide(2 * s, hi))

(* The methods that take a Scalar that is not reduced, too.                *)
OperateAny ==
  /\ call.method \in {"from_bits", "from_canonical_bytes"} /\ Len(value) = 2
  /\ LET s == value[2] IN
     \/ Calling("neg", <<>>) /\ Yields("scalar", SNeg(s))
     \/ Calling("reduce", <<>>) /\ Yields("scalar", Reduce(s))
     \/ \E n \in ScalarOperands : Calling("mul", <<n>>) /\ Yields("scalar", SMul[s, n])

OperateReduced ==
  /\ call.method = "from_canonical_bytes" /\ Len(value) = 2
  /\ LET s == value[2] IN
     \/ \E n \in ScalarOperands :
          \/ Calling("add", <<n>>) /\ Yields("scalar", SAdd(s, n))
          \/ Calling("sub", <<n>>) /\ Yields("scalar", SSub(s, n))
          \/ Calling("sum", <<n, n>>) /\ Yields("scalar", SSum(<<s, n, n>>))
          \/ Calling("product", <<n, n>>) /\ Yields("scalar", SProduct(<<s, n, n>>))
          \/ \E choice \in BOOLEAN :
               Calling("select", <<n, choice>>)
               /\ Yields("scalar", SSelect(s, n, choice))
     \/ Calling("serialize", <<>>) /\ Yields("bytes", SerializeScalar(s))
     \/ Calling("bits_le", <<>>) /\ Yields("bits", BitsLE(s))
     \/ Calling("square", <<>>) /\ Yields("scalar", Pack(ScSquare(Unpack(s))))
     \/ Calling("div_by_2", <<>>) /\ Yields("scalar", DivBy2(s))
     \/ Calling("invert", <<>>) /\ Yields("scalar", SInvert(s))
     \/ Calling("ff_invert", <<>>) /\ OptionScalar(InvertOption(s))
     \/ Calling("sqrt", <<>>) /\ OptionScalar(SSqrt(s))
     \/ \E n \in ScalarOperands \ {0} :
          s # 0 /\ Calling("invert_batch", <<n>>)
          /\ Yields("scalars", InvertBatchScalars(<<s, n, s>>))

ReadField ==
  /\ call.method = "start"
  /\ \/ \E a \in FieldElements : Calling("limbs", <<>>) /\ Yields("field", a)
     \/ \E a \in FieldElements :
          LET s == Low(Spelled(a, FieldLimbBits), FieldSize + 1) IN
          Calling("from_bytes", <<s>>) /\ Yields("field", FeFromBytes(s))

(* What mul and the squares take: limbs three bits longer than theirs.     *)
Loose(a) == \A i \in 1 .. FieldLimbCount : a[i] < 2^(FieldLimbBits + 3)

(* A sum or a difference may be an operand again. *)
OperateField ==
  /\ call.method \in {"limbs", "add_field", "sub_field"} /\ Loose(value[2])
  /\ LET a == value[2] IN
     \/ \E b \in FieldElements :
          \/ call.method = "limbs" /\ Calling("add_field", <<b>>)
             /\ Yields("field", FeAdd(a, b))
          \/ call.method = "limbs" /\ Calling("sub_field", <<b>>)
             /\ Yields("field", FeSub(a, b))
          \/ Calling("mul_field", <<b>>) /\ Yields("field", FeMul(a, b))
     \/ \E k \in 1 .. 2 : Calling("pow2k", <<k>>) /\ Yields("field", FePow2k(a, k))
     \/ \E choice \in BOOLEAN :
          Calling("select_field", <<choice>>)
          /\ Yields("field", FeSelect(a, FeMinusOne, choice))
     \/ Calling("negate", <<>>) /\ Yields("field", FeNegate(a))
     \/ Calling("square2", <<>>) /\ Yields("field", FeSquare2(a))
     \/ Calling("to_bytes", <<>>) /\ Yields("string", FeToBytes(a))

OperateLane ==
  /\ call.method = "limbs"
  /\ LET v == FromSerial(value[2]) IN
     \/ \E b \in FieldElements :
          LET u == FromSerial(b) IN
          \/ Calling("lane_mul", <<b>>) /\ Yields("lane", LaneMul(v, u))
          \/ Calling("lane_add", <<b>>) /\ Yields("lane", LaneAdd(v, u))
          \/ Calling("lane_diff", <<b>>) /\ Yields("lane", LaneAdd(v, NegateLazy(u)))
     \/ Calling("lane_neg", <<>>) /\ Yields("lane", LaneNeg(v))
     \/ Calling("lane_reduce", <<>>) /\ Yields("lane", LaneReduce(LaneAdd(v, v)))
     \/ Calling("lane_square", <<>>) /\ Yields("lane", LaneSquare(v))
     \/ Calling("lane_square_negated", <<>>) /\ Yields("lane", LaneSquareNegated(v))
     \/ \E n \in {0, 1, 3, 5} : Calling("lane_mul_small", <<n>>)
                                /\ Yields("lane", LaneMulSmall(v, n))
     \/ Calling("split", <<>>) /\ Yields("field", ToSerial(v))

CallNext ==
  \/ ReadScalar \/ OperateAny \/ OperateReduced
  \/ ReadField \/ OperateField \/ OperateLane
-----------------------------------------------------------------------------
(* The integer a call on a scalar answers, as the modulus L defines it. *)
IsInverse(s, n) == IF n = 0 THEN s = 0 ELSE MulMod(s, n, LInteger) = 1
ScalarAnswer(m, y, ns, s) ==
  LET L == LInteger  times(a, b) == MulMod(a % L, b % L, L) IN
  CASE m = "from_bytes_mod_order" -> s = ns[1] % L
    [] m = "from" -> s = ns[1]
    [] m = "from_bytes_mod_order_wide" ->
         s = (ns[1] + times(RInteger, ns[2])) % L
    [] m \in {"neg", "reduce"} -> s = (IF m = "neg" THEN -y ELSE y) % L
    [] m = "add" -> s = (y + ns[1]) % L
    [] m = "sub" -> s = (y - ns[1]) % L
    [] m = "sum" -> s = (y + 2 * ns[1]) % L
    [] m = "mul" -> s = times(y, ns[1])
    [] m = "product" -> s = times(times(y, ns[1]), ns[1])
    [] m = "square" -> s = times(y, y)
    [] m = "div_by_2" -> (2 * s) % L = y
    [] m = "invert" -> IsInverse(s, y)
    [] m = "invert_batch" ->
         /\ IsInverse(s[1], y) /\ IsInverse(s[2], ns[1]) /\ s[3] = s[1]
         /\ s[4] = times(times(s[1], s[2]), s[3])
    [] m = "select" -> s = IF ns[2] THEN ns[1] ELSE y
    [] OTHER -> FALSE

(* A string is accepted when it is below L, and only then. *)
Accepted(m, ns) == ns[1] < LInteger /\ (m = "deserialize" => ns[2] = ScalarBits \div 8)

FieldAnswer(m, y, ns) ==
  LET P == PrimeOfLimbs  v == FeValue(y) IN
  CASE m = "add_field" -> (v + FeValue(ns[1])) % P
    [] m \in {"sub_field", "lane_diff"} -> (v - FeValue(ns[1])) % P
    [] m \in {"mul_field", "lane_mul"} -> MulMod(v, FeValue(ns[1]), P)
    [] m = "lane_add" -> (v + FeValue(ns[1])) % P
    [] m = "select_field" -> IF ns[1] THEN P - 1 ELSE v
    [] m \in {"negate", "lane_neg"} -> (-v) % P
    [] m = "lane_reduce" -> (2 * v) % P
    [] m = "pow2k" ->
         LET sq == MulMod(v, v, P) IN IF ns[1] = 1 THEN sq ELSE MulMod(sq, sq, P)
    [] m = "lane_square" -> MulMod(v, v, P)
    [] m = "lane_square_negated" -> (-MulMod(v, v, P)) % P
    [] m = "square2" -> (2 * MulMod(v, v, P)) % P
    [] m = "lane_mul_small" -> (v * ns[1]) % P
    [] m \in {"to_bytes", "split"} -> v

(* The limbs compute what the integers modulo L and p define, whatever     *)
(* they carry: in products that are reduced, in the doubled terms of a     *)
(* square, past the last limb, and for limbs longer than their bits.       *)
(* from_canonical_bytes accepts exactly what is below L.                   *)
LimbsExact ==
  [][LET m == call'.method  ns == call'.ns IN
     CASE m \in {"from_canonical_bytes", "deserialize"} ->
            value' = IF Accepted(m, ns) THEN <<"scalar", ns[1]>> ELSE <<"none">>
       [] m = "ff_invert" ->
            IF value[2] = 0 THEN value' = <<"none">> ELSE IsInverse(value'[2], value[2])
       [] m = "sqrt" ->
            IF value'[1] = "none" THEN \A r \in 0 .. LInteger - 1 : MulMod(r, r, LInteger) # value[2]
            ELSE MulMod(value'[2], value'[2], LInteger) = value[2]
       [] m = "clamp_integer" ->
            value'[2] % 8 = 0 /\ High(value'[2], ScalarBits - 2) = 1
            /\ value'[2] - ns[1] \in - 2^(ScalarBits - 1) - 7 .. 2^(ScalarBits - 2)
       [] m = "from_bits" -> value'[2] = Low(ns[1], ScalarBits - 1)
       [] m = "limbs" -> TRUE
       [] m = "serialize" ->
            VisitScalar(value'[2]) = value[2] /\ Spelled(value'[2], 8) = value[2]
       [] m = "bits_le" -> Spelled(value'[2], 1) = value[2]
       [] m = "from_bytes" -> FeValue(value'[2]) = Low(ns[1], FieldSize) % PrimeOfLimbs
       [] value'[1] \in {"scalar", "scalars"} ->
            ScalarAnswer(m, IF Len(value) = 2 THEN value[2] ELSE 0, ns, value'[2])
       [] value'[1] = "field" ->
            FeValue(value'[2]) = FieldAnswer(m, value[2], ns)
       [] value'[1] = "lane" ->
            LaneValue(value'[2]) = FieldAnswer(m, value[2], ns)
       [] value'[1] = "string" -> value'[2] = FieldAnswer(m, value[2], ns)
       [] OTHER -> FALSE]_CallVars
-----------------------------------------------------------------------------
NumberVars == <<vars, CallVars>>

NoRecoding ==
  /\ method = "none" /\ x = 0 /\ w = 0 /\ at = 0 /\ carry = 0 /\ digits = <<>>
  /\ done = TRUE

NumbersInit == (Init /\ NoCalls) \/ (NoRecoding /\ CallInit)
Recode == Next /\ UNCHANGED CallVars
Call == CallNext /\ UNCHANGED vars
NumbersNext == Recode \/ Call
NumbersSpec == NumbersInit /\ [][NumbersNext]_NumberVars
-----------------------------------------------------------------------------
Recodes == method # "none"

(* At every step of both scans the digits written, the carry and the bits  *)
(* not read yet stand for the scalar; at the end the digits are those of   *)
(* the reference definition.                                               *)
RecodingMatchesReference == Recodes => TypeOK /\ Expansion /\ MatchesReference

(* Digits stay within what lookup tables, buckets and start indices allow. *)
DigitsFitTables == Recodes => FitsTables
=============================================================================

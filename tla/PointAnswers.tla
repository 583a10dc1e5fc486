---------------------------- MODULE PointAnswers ----------------------------
(***************************************************************************)
(* What each call on points answers, whatever the coordinates and the back *)
(* end.  A call is a record of its method, its numbers n (strings, field   *)
(* elements, scalars) and its points qs; it may use the answer of the call *)
(* before it.  An answer is a pair of its form and its content.            *)
(***************************************************************************)
EXTENDS CurveReference

VARIABLES call, answer

APoint(e) == <<"edwards", e>>
ASubgroup(e) == <<"subgroup", e>>
ARistretto(e) == <<"ristretto", e>>
Rejected == <<"none">>
Panics == <<"panic">>
Code(c) == <<"code", c>>
Undecodable == [none |-> TRUE]

IfSome(es) == IF es = {} THEN {Rejected} ELSE {APoint(e) : e \in es}
IfSubgroup(es) ==
  IF \A e \in es : ~ InSubgroup[e] THEN {Rejected}
  ELSE {ASubgroup(e) : e \in {e \in es : InSubgroup[e]}}
IfRistretto(es) == IF es = {} THEN {Rejected} ELSE {ARistretto(e) : e \in es}
Wide(low, high) == (low + Pow2[FieldBits + 1] * high) % p
Clear(e) == CofactorOf[e]

(* Strings, field elements and coordinates of other forms that are read as *)
(* points.  The Ristretto maps may answer any double here.                 *)
Read(c) ==
  CASE c.method = "decompress" -> IfSome(Decoded(c.n[1]))
    [] c.method = "from_bytes_subgroup" ->
         IfSubgroup(Decoded(c.n[1]))
    [] c.method = "random" -> IfSome(Decoded(c.n[1]) \ {Zero})
    [] c.method = "decompress_ristretto" -> IfRistretto(RistrettoDecoded(c.n[1]))
    [] c.method = "from_bytes" -> IfSome(Decoded(c.n[1]))
    [] c.method = "from_bytes_ristretto" -> IfRistretto(RistrettoDecoded(c.n[1]))
    [] c.method = "from_slice" -> IfSome(IF c.n[2] = "exact" THEN Decoded(c.n[1]) ELSE {})
    [] c.method = "deserialize" -> IfSome(IF c.n[2] # "short" THEN Decoded(c.n[1]) ELSE {})
    [] c.method = "from_slice_ristretto" ->
         IfRistretto(IF c.n[2] = "exact" THEN RistrettoDecoded(c.n[1]) ELSE {})
    [] c.method = "deserialize_ristretto" ->
         IfRistretto(IF c.n[2] # "short" THEN RistrettoDecoded(c.n[1]) ELSE {})
    [] c.method = "identity" -> {APoint(Zero), ARistretto(Zero)}
    [] c.method = "encode_message" ->
         IF c.n[2] \notin 1 .. MaxSeparator THEN {Panics}
         ELSE {APoint(Clear(Elligator2[FieldElements(c.n[1], c.n[2], 1)[1]]))}
    [] c.method = "hash_message" ->
         IF c.n[2] \notin 1 .. MaxSeparator THEN {Panics}
         ELSE LET r == FieldElements(c.n[1], c.n[2], 2)
              IN  {APoint(Clear(Plus(Elligator2[r[1]], Elligator2[r[2]])))}
    [] c.method = "montgomery_to_edwards" -> IfSome(WithU(YOf(c.n[1]), c.n[2]))
    [] c.method = "from_affine_le_bytes" -> IfSome(FromWeierstrass(c.n[1], c.n[2]))
    [] c.method = "ladder" -> {Code(TimesU(c.n[1], YOf(c.n[2])))}
    [] c.method = "ladder_clamped" -> {Code(TimesU(Clamped(c.n[1]), YOf(c.n[2])))}
    [] c.method = "select_and_hash" ->
         {Code(<<YOf(IF c.n[3] THEN c.n[2] ELSE c.n[1]), YOf(c.n[1]) = YOf(c.n[2])>>)}
    [] c.method = "mul_base_montgomery" -> {Code(UOf(Times(c.n[1], Generator)))}
    [] c.method = "mul_base_clamped_montgomery" ->
         {Code(UOf(Times(Clamped(c.n[1]), Generator)))}
    [] c.method = "encode_to_curve" -> {APoint(Clear(Elligator2[Wide(c.n[1], c.n[2])]))}
    [] c.method = "hash_to_curve" ->
         {APoint(Clear(Plus(Elligator2[Wide(c.n[1], c.n[2])],
                            Elligator2[Wide(c.n[2], c.n[1])])))}
    [] c.method = "map_to_curve_restricted" /\ (c.n[1] % 2 = 1 \/ c.n[1] >= Pow2[FieldBits - 1]) ->
         {Panics}
    [] c.method \in {"from_uniform_bytes", "map_to_curve_restricted", "lizard_encode"} ->
         {ARistretto(e) : e \in Doubles}

(* Multiplications of given points.  A list of scalars that does not match *)
(* its points is noticed before an undecodable point; that of dynamic      *)
(* scalars of a precomputation after it, as is a list of static scalars    *)
(* that is too long.                                                       *)
AnyForm(e) == {APoint(e), ASubgroup(e), ARistretto(e)}
Multiple(c) ==
  LET q == c.qs  n == c.n IN
  CASE c.method = "mul_base" -> Times(n[1], Generator)
    [] c.method = "mul_base_clamped" -> Times(Clamped(n[1]), Generator)
    [] c.method \in {"table_mul", "odd_multiple"} -> Times(n[1], q[1])
    [] c.method = "double_base" -> Combined(n, <<q[1], Generator>>)
    [] c.method = "triple_base" -> Combined(n, <<q[1], q[2], Generator>>)
Some(q) == \A k \in DOMAIN q : q[k] # Undecodable
Lists(c) ==
  IF Len(c.n) # Len(c.qs) THEN {Panics}
  ELSE IF ~ Some(c.qs) THEN {Rejected} ELSE AnyForm(Combined(c.n, c.qs))
Mixed(c) ==
  LET split == c.n[1]
      static == SubSeq(c.qs, 1, split)  dynamic == SubSeq(c.qs, split + 1, Len(c.qs))
  IN  IF ~ Some(dynamic) THEN {Rejected}
      ELSE IF Len(c.n[2]) > split \/ Len(c.n[3]) # Len(dynamic) THEN {Panics}
      ELSE AnyForm(Plus(Combined(c.n[2], static), Combined(c.n[3], dynamic)))
(* The sum in the Weierstrass form. Without the kernel, the point of order *)
(* two is refused in a list.                                               *)
OnCuda(c) ==
  IF Len(c.n[2]) # Len(c.qs)
     \/ (c.n[1] # "works" /\ \E k \in DOMAIN c.qs : c.qs[k] = Affine(0, Minus(1)))
  THEN {Rejected} ELSE {Code(Weierstrass(Combined(c.n[2], c.qs)))}
Start(c) ==
  CASE c.method \in {"multiscalar_mul", "optional_multiscalar_mul"} -> Lists(c)
    [] c.method = "msm_curve25519" -> OnCuda(c)
    [] c.method \in {"mixed", "vartime_mixed"} -> Mixed(c)
    [] c.method \in {"mul_base", "mul_base_clamped", "table_mul", "odd_multiple",
                     "double_base", "triple_base"} -> AnyForm(Multiple(c))
    [] OTHER -> Read(c)

(* The group operations, on every path the code has for them. *)
Operation(c, e) ==
  LET q == c.qs IN
  CASE c.method \in {"add", "add_affine", "add_vector"} -> Plus(e, q[1])
    [] c.method \in {"sub", "sub_affine", "sub_negated", "sub_vector"} ->
         Plus(e, Opposite(q[1]))
    [] c.method = "neg" -> Opposite(e)
    [] c.method = "zeroize" -> Zero
    [] c.method = "sum" -> TotalOf(<<e>> \o q)
    [] c.method \in {"double", "double_vector"} -> Plus(e, e)
    [] c.method \in {"mul_by_pow_2", "mul_by_pow_2_vector"} -> Times(Pow2[c.n[1]], e)
    [] c.method = "mul" -> Times(c.n[1], e)
    [] c.method = "mul_clamped" -> Times(Clamped(c.n[1]), e)
    [] c.method = "conditional_select" -> IF c.n[1] THEN q[1] ELSE e
    [] c.method = "same" -> e
OperationMethods ==
  {"add", "add_affine", "add_vector", "sub", "sub_affine", "sub_negated",
   "sub_vector", "neg", "zeroize", "sum", "double", "double_vector", "mul_by_pow_2", "mul_by_pow_2_vector",
   "mul", "mul_clamped", "conditional_select", "same"}

(* The sum over the Weierstrass form has no way back for the point of      *)
(* order two.                                                              *)
SwSum(c, e) ==
  LET sum == Plus(e, c.qs[1])
  IN  IF sum = Affine(0, Minus(1)) THEN Rejected ELSE APoint(sum)

Encoding(c, e) ==
  LET all == <<e>> \o c.qs IN
  CASE c.method = "compress" -> Encoded(e)
    [] c.method = "compress_batch" -> [k \in DOMAIN all |-> Encoded(all[k])]
    [] c.method = "to_montgomery_batch" -> [k \in DOMAIN all |-> UOf(all[k])]
    [] c.method = "compress_ristretto" -> RistrettoCode[e]
    [] c.method = "coset4" -> Coset(e)
    [] c.method = "double_and_compress_batch" ->
         [k \in DOMAIN all |-> RistrettoCode[Plus(all[k], all[k])]]
    [] c.method = "mul_montgomery" -> TimesU(c.n[1], UOf(e))

Answers(c, a) ==
  IF a = Rejected THEN Start(c)
  ELSE IF c.method = "sw_sum" THEN {SwSum(c, a[2])}
  ELSE IF c.method = "clear_cofactor" THEN {ASubgroup(Clear(a[2]))}
  ELSE IF c.method = "into_subgroup" THEN IfSubgroup({a[2]})
  ELSE IF c.method = "from_subgroup" THEN {APoint(a[2])}
  ELSE IF c.method \in OperationMethods THEN {<<a[1], Operation(c, a[2])>>}
  ELSE {Code(Encoding(c, a[2]))}

Init == call = [method |-> "start", n |-> <<>>, qs |-> <<>>] /\ answer = Rejected
Next == answer' \in Answers(call', answer)

Spec == Init /\ [][Next]_<<call, answer>>
=============================================================================

------------------------------ MODULE ScalarMul ------------------------------
(***************************************************************************)
(* A call of any scalar multiplication.                                    *)
(*                                                                         *)
(* The variable-time ones that verification uses take scalars in           *)
(* non-adjacent form, a table of odd multiples for each point, and one     *)
(* doubling per place shared by all the terms:                             *)
(*   double_base    a * A + b * B                                          *)
(*   triple_base    a1 * A1 + a2 * A2 + b * B with b cut in two halves     *)
(*   straus         any list of points that may be undecodable             *)
(*   precomputed    the same, and a prefix of the points of a precomputed  *)
(*                  table                                                  *)
(* The others take centered digits of w bits:                              *)
(*   variable_base  constant time, one point, w = 4                        *)
(*   straus_ct      constant time, a list of points, w = 4                 *)
(*   pippenger      variable time, 190 points and more, buckets, w = 6 to 8*)
(*   base_table     a precomputed table of one point, w = 4 to 8           *)
(* The digits are those of Naf and Radix; module Numbers shows that the    *)
(* scans of the code compute them.                                         *)
(***************************************************************************)
EXTENDS MulCalls, Powers, FiniteSetsExt

CONSTANTS
  NafBits,     (* places of a non-adjacent form, 256                       *)
  Half,        (* where triple_base cuts its long scalar, 128              *)
  NafWidth,    (* width of the digits for points met for the first time, 5 *)
  BigWidth,    (* width of the basepoint's precomputed table, 8            *)
  RadixBits,   (* bits of a scalar that becomes centered digits, 256       *)
  ManyPoints,  (* from this many on optional_multiscalar_mul takes         *)
               (* Pippenger, 190                                           *)
  Width7, Width8  (* the numbers of points from which its digits have      *)
                  (* 7 and 8 bits, 500 and 800                             *)

ASSUME NafAssumption ==
  /\ Half \in Nat /\ Half >= 2 /\ 2 * Half = NafBits /\ Pow2[Half] <= L
  /\ ShortBound = Pow2[Half]
  /\ NafWidth \in 2 .. 8 /\ BigWidth \in NafWidth .. 8
  /\ \A c \in Calls : c.method \in NafMethods =>
       LET scalars == c.static_scalars \o c.scalars
       IN  \A k \in DOMAIN scalars : scalars[k] < Pow2[NafBits - 1]

ASSUME WindowAssumption ==
  /\ RadixBits \in Nat /\ RadixBits % 8 = 0 /\ RadixBits % 7 # 0 /\ RadixBits >= 16
  /\ ManyPoints \in Nat /\ Width7 \in Nat /\ Width8 \in Nat
  /\ \A c \in Calls : c.method \in WindowMethods =>
       /\ c.method = "pippenger" => Len(c.scalars) >= ManyPoints
       /\ \A k \in DOMAIN c.scalars : c.scalars[k] < Pow2[RadixBits - 1]

VARIABLES
  call,          (* the arguments                                          *)
  result,        (* a point, None, Panic or Pending                        *)
  tables_built,  (* the feature precomputed-tables                         *)
  debug,         (* whether debug assertions are compiled in               *)
  pc,            (* "Start", "Loop", "Columns", "Odd", "Even" or "Done"    *)
  w,             (* bits of a centered digit                               *)
  digits,        (* the digits of each term                                *)
  tables,        (* a table for each term, or for every other place        *)
  Q,             (* the accumulator                                        *)
  j              (* the place the loop is at                               *)

build == <<tables_built, debug>>
vars == <<call, result, build, pc, w, digits, tables, Q, j>>

OverNafs == call.method \in NafMethods

Init ==
  /\ call \in Calls /\ result = Pending
  /\ IF OverNafs THEN w = 0 /\ tables_built \in BOOLEAN /\ debug \in BOOLEAN
     ELSE w = 4 /\ tables_built = FALSE /\ debug = FALSE
  /\ pc = "Start" /\ digits = <<>> /\ tables = <<>> /\ Q = 0 /\ j = 0

Return(value) ==
  /\ result' = value /\ pc' = "Done"
  /\ UNCHANGED <<call, build, w, digits, tables, j>>
-----------------------------------------------------------------------------
(* Mutant of HEEA_MAX_INDEX: no room for the carry. *)
HalfIndex == Half - 1

(* scalar/heea.rs: one place more than the carry of a 128-bit scalar needs *)
HEEA_MAX_INDEX == Half + 1

(* NafLookupTable5::from, NafLookupTable8::from: P, 3P, 5P, ... *)
OddMultiples(P, n) ==
  LET A2 == Mul(2, P)
      A[k \in 0 .. Pow2[n - 2] - 1] == IF k = 0 THEN P ELSE Add(A2, A[k - 1])
  IN  A

(* select, for a digit of either sign: the table has the multiples of odd  *)
(* digits, and the loops subtract for a negative one.                      *)
Term(table, d) ==
  IF d = 0 THEN 0
  ELSE IF d > 0 THEN table[d \div 2] ELSE Neg(table[(-d) \div 2])

SmallNaf(x) == Naf(x, NafWidth, NafBits)
SmallNafs(scalars) == [k \in DOMAIN scalars |-> SmallNaf(scalars[k])]
SmallTables(points) ==
  [k \in DOMAIN points |-> OddMultiples(points[k], NafWidth)]

BasepointWidth == IF tables_built THEN BigWidth ELSE NafWidth

(* "Find starting index": the highest place, up to a limit, with a digit. *)
TopPlace(nafs, limit) ==
  Max({0} \cup {i \in 0 .. limit : \E k \in DOMAIN nafs : nafs[k][i] # 0})

(* The sum of the terms' digits at one place. *)
NafColumn(place) ==
  FoldLeft(Add, 0, [k \in DOMAIN digits |-> Term(tables[k], digits[k][place])])

StartLoop(nafs, multiples, place) ==
  /\ digits' = nafs /\ tables' = multiples /\ j' = place
  /\ pc' = "Loop"
  /\ UNCHANGED <<call, result, build, w, Q>>

(* vartime_double_base::mul, up to its loop *)
StartDouble ==
  /\ pc = "Start" /\ call.method = "double_base"
  /\ LET nafs == <<SmallNaf(call.scalars[1]),
                     Naf(call.scalars[2], BasepointWidth, NafBits)>>
     IN  StartLoop(nafs,
                   <<OddMultiples(call.points[1], NafWidth),
                     OddMultiples(Basepoint, BasepointWidth)>>,
                   TopPlace(nafs, NafBits - 1))

(* mul_128_128_256, up to its loop.  The halves of b are canonical scalars *)
(* because 2^Half <= L, so that their unwraps succeed.                     *)
StartTriple ==
  /\ pc = "Start" /\ call.method = "triple_base"
  /\ ~ (debug /\ HasLong(call))
  /\ LET b      == call.scalars[3]
         nafs   == SmallNafs(<<call.scalars[1], call.scalars[2],
                               b % Pow2[Half], b \div Pow2[Half]>>)
     IN  StartLoop(nafs,
                   SmallTables(call.points)
                     \o <<OddMultiples(Basepoint, BasepointWidth),
                          OddMultiples(Mul(Pow2[Half], Basepoint), BasepointWidth)>>,
                   TopPlace(nafs, HEEA_MAX_INDEX))

(* Its two debug assertions. *)
RejectLong ==
  /\ pc = "Start" /\ call.method = "triple_base"
  /\ debug /\ HasLong(call)
  /\ Return(Panic) /\ UNCHANGED Q

(* EdwardsPoint::optional_multiscalar_mul, its assertions on the sizes,    *)
(* and the setup of Straus, which it dispatches to below 190 points.       *)
StartStraus ==
  /\ pc = "Start" /\ call.method = "straus"
  /\ IF Len(call.scalars) # Len(call.points) THEN Return(Panic) /\ UNCHANGED Q
     ELSE IF HasNone(call) THEN Return(None) /\ UNCHANGED Q
     ELSE StartLoop(SmallNafs(call.scalars), SmallTables(call.points), NafBits - 1)

(* VartimePrecomputedStraus::optional_mixed_multiscalar_mul: an undecodable*)
(* point is noticed before the sizes are.  The static tables are the big   *)
(* ones, the static digits are not.                                        *)
StartPrecomputed ==
  /\ pc = "Start" /\ call.method = "precomputed"
  /\ IF HasNone(call) THEN Return(None) /\ UNCHANGED Q
     ELSE IF Mismatched(call) THEN Return(Panic) /\ UNCHANGED Q
     ELSE StartLoop(SmallNafs(call.scalars) \o SmallNafs(call.static_scalars),
                    SmallTables(call.points)
                      \o [k \in DOMAIN call.static_scalars |->
                            OddMultiples(call.static[k], BigWidth)],
                    NafBits - 1)

(* The body of the four loops: a doubling, then an addition or subtraction *)
(* for each term with a digit at this place.                               *)
DoubleAndAdd ==
  /\ pc = "Loop"
  /\ Q' = Add(Mul(2, Q), NafColumn(j))
  /\ IF j = 0 THEN Return(Q')
     ELSE j' = j - 1 /\ UNCHANGED <<call, result, build, pc, w, digits, tables>>

NafStep ==
  \/ StartDouble \/ StartTriple \/ RejectLong \/ StartStraus \/ StartPrecomputed
  \/ DoubleAndAdd
-----------------------------------------------------------------------------
(* to_radix_2w_size_hint, which is also the basepoint tables' Additions *)
SizeHint(n) == ((RadixBits + n - 1) \div n) + (IF n = 8 THEN 1 ELSE 0)

(* as_radix_2w *)
DigitsOf(scalars, n) ==
  [k \in DOMAIN scalars |-> Radix(scalars[k], n, SizeHint(n))]

(* Mutant of Multiples: the largest digit is thought to be 2^(n-1) - 1. *)
MultiplesBelowHalf(P, n) ==
  LET A[k \in 1 .. Pow2[n - 1] - 1] == IF k = 1 THEN P ELSE Add(P, A[k - 1])
  IN  A

(* LookupTable::from: P, 2P, ..., up to the largest centered digit. *)
Multiples(P, n) ==
  LET A[k \in 1 .. Pow2[n - 1]] == IF k = 1 THEN P ELSE Add(P, A[k - 1])
  IN  A

(* LookupTable::select *)
Select(table, d) ==
  IF d = 0 THEN 0 ELSE IF d > 0 THEN table[d] ELSE Neg(table[-d])

MulByPow2(n, P) == Mul(Pow2[n], P)

(* BasepointTable::create: entry k is for place 2k. *)
BaseTables(P, n) ==
  LET at[k \in 0 .. RadixBits \div 8 - 1] ==
        IF k = 0 THEN P ELSE MulByPow2(n + n, at[k - 1])
  IN  [k \in 0 .. RadixBits \div 8 - 1 |-> Multiples(at[k], n)]

PippengerWidth(size) ==
  IF size < Width7 THEN 6 ELSE IF size < Width8 THEN 7 ELSE 8

(* Bucket b gets the points whose digit at this place is b + 1, and the    *)
(* negatives of those whose digit is -(b + 1).                             *)
Buckets(rows, place, n) ==
  [b \in 0 .. Pow2[n - 1] - 1 |->
     FoldLeft(Add, 0, [k \in DOMAIN rows |->
       CASE rows[k][place] = b + 1    -> call.points[k]
         [] rows[k][place] = -(b + 1) -> Neg(call.points[k])
         [] OTHER                     -> 0])]

(* Mutant of BucketSum: the top bucket enters the running sum only.        *)
BucketSumNoTop(buckets, n) ==
  LET top == Pow2[n - 1] - 1
      running[b \in 0 .. top] ==
        IF b = top THEN buckets[top] ELSE Add(running[b + 1], buckets[b])
      total[b \in 0 .. top] ==
        IF b = top THEN 0 ELSE Add(total[b + 1], running[b])
  IN  total[0]

(* The sum of (b + 1) * buckets[b], by a running sum from the top and the  *)
(* sum of its values.                                                      *)
BucketSum(buckets, n) ==
  LET top == Pow2[n - 1] - 1
      running[b \in 0 .. top] ==
        IF b = top THEN buckets[top] ELSE Add(running[b + 1], buckets[b])
      total[b \in 0 .. top] ==
        IF b = top THEN buckets[top] ELSE Add(total[b + 1], running[b])
  IN  total[0]

(* The sum of the terms' digits at one place. *)
TableColumn(place) ==
  FoldLeft(Add, 0, [k \in DOMAIN digits |-> Select(tables[k], digits[k][place])])

(* variable_base::mul, whose first column is unrolled. *)
StartVariableBase ==
  /\ pc = "Start" /\ call.method = "variable_base"
  /\ digits' = DigitsOf(call.scalars, 4)
  /\ tables' = <<Multiples(call.points[1], 4)>>
  /\ Q' = Select(tables'[1], digits'[1][SizeHint(4) - 1])
  /\ j' = SizeHint(4) - 2
  /\ pc' = "Columns"
  /\ UNCHANGED <<call, result, build, w>>

(* EdwardsPoint::multiscalar_mul and Straus. *)
StartStrausCT ==
  /\ pc = "Start" /\ call.method = "straus_ct"
  /\ IF Mismatched(call) THEN Return(Panic) /\ UNCHANGED Q
     ELSE /\ digits' = DigitsOf(call.scalars, 4)
          /\ tables' = [k \in DOMAIN call.points |-> Multiples(call.points[k], 4)]
          /\ j' = SizeHint(4) - 1
          /\ pc' = "Columns"
          /\ UNCHANGED <<call, result, build, w, Q>>

(* EdwardsPoint::optional_multiscalar_mul and Pippenger, up to its fold:   *)
(* the highest column is the initial value.                                *)
StartPippenger ==
  /\ pc = "Start" /\ call.method = "pippenger"
  /\ IF Mismatched(call) THEN Return(Panic) /\ UNCHANGED Q
     ELSE IF HasNone(call) THEN Return(None) /\ UNCHANGED Q
     ELSE /\ w' = PippengerWidth(Len(call.scalars))
          /\ digits' = DigitsOf(call.scalars, w')
          /\ Q' = BucketSum(Buckets(digits', SizeHint(w') - 1, w'), w')
          /\ j' = SizeHint(w') - 2
          /\ pc' = "Columns"
          /\ UNCHANGED <<call, result, build, tables>>

(* One place of the first three methods: w doublings, then the column. *)
ShiftAndAdd ==
  /\ pc = "Columns"
  /\ LET column == IF call.method = "pippenger"
                   THEN BucketSum(Buckets(digits, j, w), w)
                   ELSE TableColumn(j)
     IN  Q' = Add(MulByPow2(w, Q), column)
  /\ IF j = 0 THEN Return(Q')
     ELSE j' = j - 1 /\ UNCHANGED <<call, result, build, pc, w, digits, tables>>

(* BasepointTable::create, for any of the five radices, and the beginning  *)
(* of mul_base.                                                            *)
StartBaseTable ==
  /\ pc = "Start" /\ call.method = "base_table"
  /\ w' \in 4 .. 8
  /\ digits' = DigitsOf(call.scalars, w')
  /\ tables' = BaseTables(call.points[1], w')
  /\ pc' = "Odd" /\ j' = 1
  /\ UNCHANGED <<call, result, build, Q>>

AddDigit == Q' = Add(Q, Select(tables[j \div 2], digits[1][j]))

OddDigit ==
  /\ pc = "Odd" /\ j < SizeHint(w)
  /\ AddDigit
  /\ j' = j + 2
  /\ UNCHANGED <<call, result, build, pc, w, digits, tables>>

Shift ==
  /\ pc = "Odd" /\ j >= SizeHint(w)
  /\ Q' = MulByPow2(w, Q)
  /\ pc' = "Even" /\ j' = 0
  /\ UNCHANGED <<call, result, build, w, digits, tables>>

EvenDigit ==
  /\ pc = "Even" /\ j < SizeHint(w)
  /\ AddDigit
  /\ IF j + 2 >= SizeHint(w) THEN Return(Q')
     ELSE j' = j + 2 /\ UNCHANGED <<call, result, build, pc, w, digits, tables>>

WindowStep ==
  \/ StartVariableBase \/ StartStrausCT \/ StartPippenger \/ ShiftAndAdd
  \/ StartBaseTable \/ OddDigit \/ Shift \/ EvenDigit

Next == NafStep \/ WindowStep

Spec == Init /\ [][Next]_vars
-----------------------------------------------------------------------------
NafTypeOK ==
  /\ DOMAIN digits = DOMAIN tables /\ j \in 0 .. NafBits - 1
  /\ \A k \in DOMAIN digits : digits[k] \in [0 .. NafBits - 1 -> -128 .. 127]

WindowTypeOK ==
  /\ w \in 4 .. 8 /\ j \in 0 .. RadixBits \div 4 + 1
  /\ \A k \in DOMAIN digits : digits[k] \in [0 .. SizeHint(w) - 1 -> -128 .. 127]

(* What the loops keep has its types. *)
TypeOK ==
  /\ call \in Calls /\ result \in Points \cup {None, Panic, Pending}
  /\ build \in BOOLEAN \X BOOLEAN
  /\ pc \in {"Start", "Loop", "Columns", "Odd", "Even", "Done"} /\ Q \in Points
  /\ IF OverNafs THEN NafTypeOK ELSE WindowTypeOK

(* Every digit the loop will meet is odd and indexes its table.            *)
NafSelectsInTable ==
  pc = "Loop" =>
    \A k \in DOMAIN digits : \A place \in 0 .. j :
      LET d == digits[k][place]
      IN  d # 0 => d % 2 = 1 /\ Abs(d) \div 2 \in DOMAIN tables[k]

(* Each digit has an entry.  Also, a basepoint table has an entry for      *)
(* every other place up to the last, the extra one of radix 256 included;  *)
(* and a digit has a bucket.                                               *)
WindowSelectsInTable ==
  \A k \in DOMAIN digits : \A place \in DOMAIN digits[k] :
    LET d == Abs(digits[k][place])
    IN  CASE call.method = "pippenger"  -> d <= Pow2[w - 1]
          [] call.method = "base_table" ->
               /\ place \div 2 \in DOMAIN tables
               /\ d # 0 => d \in DOMAIN tables[place \div 2]
          [] OTHER -> d # 0 => d \in DOMAIN tables[k]

(* Every digit has an entry in its table or a bucket: the debug assertions *)
(* of select hold and no access is out of bounds, although digit widths    *)
(* and table sizes are chosen in different places.                         *)
SelectsInTable ==
  TypeOK /\ IF OverNafs THEN NafSelectsInTable ELSE WindowSelectsInTable

(* The digits of a term from place m on, shifted down.                     *)
NafAbove(k, m) ==
  Sum([i \in Nat |-> IF i + m < NafBits THEN digits[k][i + m] * Pow2[i] ELSE 0])[NafBits]

DigitsAbove(k, m) ==
  LET above == [i \in 0 .. SizeHint(w) - 1 |->
                  IF i + m < SizeHint(w) THEN digits[k][i + m] ELSE 0]
  IN  DigitSum(above, w, SizeHint(w))

(* Horner's rule: the accumulator is the sum of the digits above the place *)
(* the loop is at, shifted down to it: none was skipped, not even above    *)
(* the place a loop starts at, and none counted twice, in Pippenger's      *)
(* buckets as in Straus' columns.                                          *)
HornerInv ==
  /\ pc = "Loop" /\ ~ HasLong(call) =>
       Q = FoldLeft(Add, 0, [k \in DOMAIN digits |-> Mul(NafAbove(k, j + 1), tables[k][0])])
  /\ pc = "Columns" =>
       Q = Combine([k \in DOMAIN digits |-> DigitsAbove(k, j + 1)], call.points)

(* All eight methods return the linear combination, whatever the build.    *)
Combination == INSTANCE LinearCombination
ImplementsCombination == Combination!Spec
=============================================================================

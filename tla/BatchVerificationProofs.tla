----------------------- MODULE BatchVerificationProofs -----------------------
(***************************************************************************)
(* batch::Verifier, for any items, draws, prime order and batch size.      *)
(*                                                                         *)
(* The hash map forgets the order in which items were queued and verify()  *)
(* walks it in an order of its own, so the argument goes through places:   *)
(* an item sits at place <<its key, its index under that key>>, the items  *)
(* queued are paired with all places (QueueInv), and those read with the   *)
(* places the walk has passed (WalkInv).  When no key is left the two sets *)
(* of places are the same, so the items read are a permutation of those    *)
(* queued.  Meanwhile the coalesced coefficients stand, modulo L, for the  *)
(* sum of the terms read (SumsInv); a term is 0 modulo L when its item is  *)
(* valid or its draw is 0, and the cofactor asks of the sum just that it   *)
(* be 0 modulo L.                                                          *)
(***************************************************************************)
EXTENDS BatchVerification, EdwardsGroupProofs, FunctionTheorems

(* f pairs the places of the sequence s with the members of S, all of      *)
(* them; V tells what is found at a member.                                *)
Pairs(f, s, S, V) ==
  /\ f \in [1 .. Len(s) -> S]
  /\ \A j, k \in 1 .. Len(s) : f[j] = f[k] => j = k
  /\ \A e \in S : \E k \in 1 .. Len(s) : f[k] = e
  /\ \A k \in 1 .. Len(s) : V[f[k]] = s[k]

(* p leads from the places of s to the places of t that hold the same.     *)
Permutes(p, s, t) ==
  /\ p \in [1 .. Len(s) -> 1 .. Len(t)]
  /\ \A j, k \in 1 .. Len(s) : p[j] = p[k] => j = k
  /\ \A i \in 1 .. Len(t) : \E k \in 1 .. Len(s) : p[k] = i
  /\ \A k \in 1 .. Len(s) : t[p[k]] = s[k]

(* The places of the hash map, what they hold, and those verify() has read.*)
Slots == {e \in (DOMAIN signatures) \X (Nat \ {0}) : e[2] <= Len(signatures[e[1]])}
Held == [e \in Slots |-> signatures[e[1]][e[2]]]
ReadSlots ==
  {e \in Slots : e[1] \notin todo
                   /\ (e[1] = vk => e[2] + Len(sigs) <= Len(signatures[e[1]]))}

ItemsRead == [k \in 1 .. Len(drawn) |-> drawn[k].item]
Terms == [k \in 1 .. Len(drawn) |-> Term(drawn[k])]

(* Nothing queued is lost or counted twice. *)
QueueInv ==
  /\ queued \in Seq(Items) /\ Len(queued) = batch_size
  /\ \A a \in DOMAIN signatures :
       /\ signatures[a] # <<>>
       /\ \A i \in 1 .. Len(signatures[a]) : signatures[a][i].A = a
  /\ \E f : Pairs(f, queued, Slots, Held)

(* The walk: where it is, and that it read each place it passed, once.     *)
WalkInv ==
  /\ drawn \in Seq([item : Items, z : Draws])
  /\ \A k \in 1 .. Len(drawn) :
       IsDecodable(drawn[k].item.A) /\ Readable(drawn[k].item)
  /\ pc # "Done" => result = "Pending"
  /\ pc = "Queueing" => drawn = <<>> /\ vk = NoKey /\ sigs = <<>>
  /\ pc = "Keys" => vk = NoKey
  /\ pc = "Signatures" =>
       /\ vk \in DOMAIN signatures \ todo
       /\ Len(sigs) <= Len(signatures[vk])
       /\ \A i \in 1 .. Len(sigs) :
            sigs[i] = signatures[vk][i + (Len(signatures[vk]) - Len(sigs))]
  /\ pc \in {"Keys", "Signatures"} =>
       /\ \A a \in DOMAIN signatures \ todo : IsDecodable(a)
       /\ \E g : Pairs(g, ItemsRead, ReadSlots, Held)

Own == IF IsDecodable(vk) THEN A_coeff * vk.point ELSE 0

(* The coefficients read so far stand for the terms, modulo L. *)
SumsInv ==
  /\ Len(A_coeffs) = Len(As) /\ Len(R_coeffs) = Len(Rs)
  /\ Cong(B_coeff * 8 + MultiscalarMul(A_coeffs, As)
            + MultiscalarMul(R_coeffs, Rs) + Own,
          PointSum(Terms), L)

VerdictInv ==
  /\ ValidBatchIsAccepted
  /\ InvalidIsRejected
  /\ pc = "Done" => result # "Pending"

Inv == TypeOK /\ QueueInv /\ WalkInv /\ SumsInv /\ VerdictInv
-----------------------------------------------------------------------------
LEMMA PairsExtend ==
  ASSUME NEW T, NEW s \in Seq(T), NEW x \in T, NEW S, NEW V, NEW W, NEW e, NEW f,
         Pairs(f, s, S, V), e \notin S, W[e] = x, \A d \in S : W[d] = V[d]
  PROVE  \E g : Pairs(g, Append(s, x), S \cup {e}, W)
<1> DEFINE n == Len(s)
           t == Append(s, x)
           g == [k \in 1 .. n + 1 |-> IF k = n + 1 THEN e ELSE f[k]]
<1>1. /\ n \in Nat /\ Len(t) = n + 1 /\ t[n + 1] = x
      /\ \A k \in 1 .. n : t[k] = s[k]
  BY AppendProperties, LenProperties
<1>2. /\ \A k \in 1 .. n : f[k] \in S /\ f[k] # e /\ V[f[k]] = s[k]
      /\ \A j, k \in 1 .. n : f[j] = f[k] => j = k
      /\ \A d \in S : \E k \in 1 .. n : f[k] = d
  BY DEF Pairs
<1>3. \A k \in 1 .. n + 1 : k = n + 1 \/ k \in 1 .. n
  BY <1>1
<1> HIDE DEF n, t
<1>4. g \in [1 .. n + 1 -> S \cup {e}]
  BY <1>1, <1>2, <1>3
<1>5. \A j, k \in 1 .. n + 1 : g[j] = g[k] => j = k
  BY <1>1, <1>2, <1>3
<1>6. ASSUME NEW d \in S \cup {e} PROVE \E k \in 1 .. n + 1 : g[k] = d
  <2>1. CASE d = e
    BY <1>1, <2>1
  <2>2. CASE d # e
    <3>1. PICK k \in 1 .. n : f[k] = d
      BY <1>2, <2>2
    <3>2. k \in 1 .. n + 1 /\ k # n + 1
      BY <1>1
    <3>3. QED BY <3>1, <3>2
  <2>3. QED BY <2>1, <2>2
<1>7. \A k \in 1 .. n + 1 : W[g[k]] = t[k]
  BY <1>1, <1>2, <1>3
<1>8. Pairs(g, t, S \cup {e}, W)
  <2> HIDE DEF g
  <2>1. QED BY <1>1, <1>4, <1>5, <1>6, <1>7 DEF Pairs
<1>9. QED BY <1>8 DEF t

(* Two sequences that are paired with the same places are permutations of  *)
(* each other.                                                             *)
LEMMA PairsPermute ==
  ASSUME NEW s, NEW t, Len(s) \in Nat, Len(t) \in Nat, NEW S, NEW V,
         NEW f, Pairs(f, s, S, V), NEW g, Pairs(g, t, S, V)
  PROVE  Len(s) = Len(t) /\ \E p : Permutes(p, s, t)
<1> DEFINE m == Len(s)
           n == Len(t)
           p == [k \in 1 .. m |-> CHOOSE j \in 1 .. n : g[j] = f[k]]
<1>1. /\ \A k \in 1 .. m : f[k] \in S /\ V[f[k]] = s[k]
      /\ \A j, k \in 1 .. m : f[j] = f[k] => j = k
      /\ \A d \in S : \E k \in 1 .. m : f[k] = d
  BY DEF Pairs
<1>2. /\ \A k \in 1 .. n : g[k] \in S /\ V[g[k]] = t[k]
      /\ \A j, k \in 1 .. n : g[j] = g[k] => j = k
      /\ \A d \in S : \E k \in 1 .. n : g[k] = d
  BY DEF Pairs
<1> HIDE DEF m, n
<1>3. \A k \in 1 .. m : p[k] \in 1 .. n /\ g[p[k]] = f[k]
  BY <1>1, <1>2
<1>4. p \in [1 .. m -> 1 .. n]
  BY <1>3
<1> HIDE DEF p
<1>5. \A j, k \in 1 .. m : p[j] = p[k] => j = k
  BY <1>1, <1>3
<1>6. ASSUME NEW i \in 1 .. n PROVE \E k \in 1 .. m : p[k] = i
  <2>1. PICK k \in 1 .. m : f[k] = g[i]
    BY <1>1, <1>2
  <2>2. p[k] = i
    BY <1>2, <1>3, <2>1
  <2>3. QED BY <2>2
<1>7. ASSUME NEW k \in 1 .. m PROVE t[p[k]] = s[k]
  <2>1. V[g[p[k]]] = t[p[k]] /\ V[f[k]] = s[k] /\ g[p[k]] = f[k]
    BY <1>1, <1>2, <1>3
  <2>2. QED BY <2>1
<1>8. m = n
  <2>1. p \in Bijection(1 .. m, 1 .. n)
    BY <1>4, <1>5, <1>6, Fun_IsBij
  <2>2. m \in Nat /\ n \in Nat
    BY DEF m, n
  <2>3. Cardinality(1 .. n) = m
    BY <2>1, <2>2, FS_CountingElements DEF ExistsBijection
  <2>4. Cardinality(1 .. n) = n
    BY <2>2, FS_Interval
  <2>5. QED BY <2>3, <2>4
<1>9. Permutes(p, s, t)
  BY <1>4, <1>5, <1>6, <1>7 DEF Permutes, m, n
<1>10. QED BY <1>8, <1>9 DEF m, n
-----------------------------------------------------------------------------
LEMMA ItemFacts ==
  ASSUME NEW q \in Items
  PROVE  /\ q.A \in Encodings /\ q.R \in Encodings
         /\ q.s \in Int /\ q.s >= 0 /\ q.h \in Int /\ q.h \in 0 .. L - 1
         /\ q.A.point \in Int /\ q.R.point \in Int
<1>1. \A e \in Encodings : e.point \in Int
  <2>1. \A P \in NonCanonicalPoints : P \in Int
    BY GroupAssumption
  <2>2. \A P \in Points : P \in Int
    BY DEF Points
  <2>3. ASSUME NEW e \in Encodings PROVE e.point \in Int
    <3>1. \/ e \in [point : Points, canonical : {TRUE}]
          \/ e \in [point : NonCanonicalPoints, canonical : {FALSE}]
          \/ e = Undecodable
      BY DEF Encodings
    <3>2. CASE e \in [point : Points, canonical : {TRUE}]
      BY <2>2, <3>2
    <3>3. CASE e \in [point : NonCanonicalPoints, canonical : {FALSE}]
      BY <2>1, <3>3
    <3>4. CASE e = Undecodable
      BY <3>4 DEF Undecodable
    <3>5. QED BY <3>1, <3>2, <3>3, <3>4
  <2>4. QED BY <2>3
<1>2. QED BY <1>1, BatchAssumption, OrderPositive

(* What verify() adds up for an item, over the integers. *)
Share(q) == q.R.point + (q.h * q.A.point - 8 * q.s)

LEMMA TermCong ==
  ASSUME NEW d, d.item \in Items, d.z \in Int
  PROVE  Term(d) \in Points /\ Cong(Term(d), d.z * Share(d.item), 8 * L)
<1> DEFINE q == d.item
           z == d.z
           R == q.R.point
           A == q.A.point
           h == q.h
           s == q.s
           hA == Mul(h, A)
           sB == Mul(s, Basepoint)
           N == Neg(sB)
           S == Add(hA, N)
           U == Add(R, S)
<1>1. z \in Int /\ R \in Int /\ A \in Int /\ h \in Int /\ s \in Int /\ 8 * L \in Int
  BY ItemFacts, OrderPositive
<1>2. Share(q) = R + (h * A - 8 * s)
  BY DEF Share
<1>3. Term(d) = Mul(z, U)
  BY DEF Term
<1> HIDE DEF q, z, R, A, h, s
<1>4. hA \in Int /\ Cong(hA, h * A, 8 * L) /\ h * A \in Int
  BY <1>1, CongRefl, MulCong DEF Points
<1>5. sB \in Int /\ Cong(sB, s * 8, 8 * L) /\ s * 8 \in Int
  BY <1>1, CongRefl, MulCong DEF Points, Basepoint
<1> HIDE DEF hA, sB
<1>6. N \in Int /\ Cong(N, -(s * 8), 8 * L) /\ -(s * 8) \in Int
  BY <1>5, NegCong DEF Points
<1> HIDE DEF N
<1>7. S \in Int /\ Cong(S, h * A + -(s * 8), 8 * L) /\ h * A + -(s * 8) \in Int
  BY <1>4, <1>6, AddCong DEF Points
<1>8. h * A + -(s * 8) = h * A - 8 * s
  BY <1>1, <1>4
<1> DEFINE Y == h * A - 8 * s
<1>9. S \in Int /\ Cong(S, Y, 8 * L) /\ Y \in Int
  BY <1>7, <1>8
<1> HIDE DEF S, Y
<1>10. U \in Int /\ Cong(U, R + Y, 8 * L) /\ R + Y \in Int
  <2>1. Cong(R, R, 8 * L)
    BY <1>1, CongRefl
  <2>2. QED BY <1>1, <1>9, <2>1, AddCong DEF Points
<1> HIDE DEF U
<1> DEFINE X == R + Y
<1>11. Cong(U, X, 8 * L) /\ X \in Int
  BY <1>10
<1> HIDE DEF X
<1>12. Mul(z, U) \in Points /\ Cong(Mul(z, U), z * X, 8 * L)
  BY <1>1, <1>10, <1>11, MulCong
<1>13. X = Share(q)
  BY <1>2 DEF X, Y
<1>14. QED BY <1>3, <1>12, <1>13 DEF q, z

LEMMA CongZero ==
  ASSUME NEW x \in Int
  PROVE  Cong(x, 0, L) <=> (x % L) = 0
<1>1. L \in Nat /\ L > 0
  BY OrderPositive
<1>2. \A k \in Int : 0 + k * L = k * L
  BY <1>1
<1>3. Cong(x, 0, L) <=> \E k \in Int : x = k * L
  BY <1>2 DEF Cong
<1>4. QED BY <1>1, <1>3, Divisible

(* An item adds nothing, modulo L, when it is valid; and an invalid one    *)
(* that was read does only when its z is 0.                                *)
LEMMA TermVanishes ==
  ASSUME NEW d, d.item \in Items, d.z \in 0 .. L - 1,
         IsDecodable(d.item.A), Readable(d.item)
  PROVE  /\ Term(d) \in Int
         /\ Cong(Term(d), 0, L) <=> (IsValid(d.item) \/ d.z = 0)
<1> DEFINE q == d.item
           z == d.z
           D == Defect(q.s, q.R.point, q.h, q.A.point)
           P == Term(d)
           X == Share(q)
<1>1. /\ L \in Nat /\ L > 0 /\ L \in Int
      /\ z \in Int /\ q.s \in Int /\ q.h \in Int
      /\ q.A.point \in Int /\ q.R.point \in Int
  BY ItemFacts, OrderPositive
<1>2. P \in Int /\ Cong(P, z * X, 8 * L)
  BY <1>1, TermCong DEF Points
<1>3. D \in Int /\ X = -D
  BY <1>1 DEF Share, Defect
<1>4. IsValid(q) <=> (D % L) = 0
  <2>1. q.A.point \in Points /\ q.R.point \in Points
    BY DEF Readable, IsDecodable
  <2>2. Equation(q) <=> (D % L) = 0
    BY <1>1, <2>1, EquationIsDefect
  <2>3. IsValid(q) <=> Equation(q)
    BY DEF IsValid, Verdict, Valid, Readable
  <2>4. QED BY <2>2, <2>3
<1>5. d.z = 0 <=> (z % L) = 0
  <2>1. \A y \in 0 .. L - 1 : (y % L) = y
    BY <1>1
  <2>2. QED BY <2>1
<1> HIDE DEF q, z, D, P, X
<1>6. Cong(P, z * X, L) /\ z * X \in Int /\ z * X = -(z * D)
  <2>1. z * X \in Int /\ z * X = -(z * D)
    BY <1>1, <1>3
  <2>2. QED BY <1>2, <2>1, CongWeaken
<1>7. ASSUME Cong(P, 0, L)
      PROVE  (z % L) = 0 \/ (D % L) = 0
  <2>1. Cong(z * X, P, L)
    BY <1>1, <1>2, <1>6, CongSym
  <2>2. Cong(z * X, 0, L)
    BY <1>1, <1>2, <1>6, <1>7, <2>1, CongTrans
  <2>3. ((z * X) % L) = 0
    BY <1>6, <2>2, CongZero
  <2>4. (z % L) = 0 \/ (X % L) = 0
    <3>1. z \in Int /\ X \in Int
      BY <1>1, <1>3
    <3>2. QED BY <2>3, <3>1, PrimeOrder
  <2>5. (X % L) = 0 => (D % L) = 0
    <3>1. ASSUME NEW k \in Int, X = k * L PROVE \E j \in Int : D = j * L
      <4>1. D = (-k) * L /\ -k \in Int
        BY <1>1, <1>3, <3>1
      <4>2. QED BY <4>1
    <3>2. X \in Int
      BY <1>3
    <3>3. QED BY <1>1, <1>3, <3>1, <3>2, Divisible
  <2>6. QED BY <2>4, <2>5
<1>8. ASSUME (z % L) = 0 \/ (D % L) = 0
      PROVE  Cong(P, 0, L)
  <2>1. \E k \in Int : z * X = k * L
    <3>1. ASSUME NEW k \in Int, z = k * L PROVE z * X = (k * X) * L /\ k * X \in Int
      BY <1>1, <1>3, <3>1
    <3>2. ASSUME NEW k \in Int, D = k * L PROVE z * X = (-(z * k)) * L /\ -(z * k) \in Int
      BY <1>1, <1>6, <3>2
    <3>3. CASE (z % L) = 0
      <4>1. PICK k \in Int : z = k * L
        BY <1>1, <3>3, Divisible
      <4>2. QED BY <3>1, <4>1
    <3>4. CASE (D % L) = 0
      <4>1. PICK k \in Int : D = k * L
        BY <1>1, <1>3, <3>4, Divisible
      <4>2. QED BY <3>2, <4>1
    <3>5. QED BY <1>8, <3>3, <3>4
  <2>2. Cong(z * X, 0, L)
    BY <1>1, <1>6, <2>1, CongZero, Divisible
  <2>3. QED BY <1>1, <1>2, <1>6, <2>2, CongTrans
<1>9. QED BY <1>2, <1>4, <1>5, <1>7, <1>8 DEF P, q

-----------------------------------------------------------------------------
(* What vartime_multiscalar_mul adds up. *)
Products(c, p) == [i \in DOMAIN p |-> Mul(c[i], p[i])]

LEMMA MultiscalarIsSum ==
  ASSUME NEW c, NEW p
  PROVE  MultiscalarMul(c, p) = PointSum(Products(c, p))
BY DEF MultiscalarMul, PointSum, Products

LEMMA ProductsType ==
  ASSUME NEW c \in Seq(Int), NEW p \in Seq(Points), Len(c) = Len(p)
  PROVE  /\ Products(c, p) \in Seq(Points) /\ Len(Products(c, p)) = Len(p)
         /\ \A i \in 1 .. Len(p) : Products(c, p)[i] = Mul(c[i], p[i])
<1> DEFINE n == Len(p)
           M(i) == Mul(c[i], p[i])
<1>1. n \in Nat /\ DOMAIN p = 1 .. n
  BY LenProperties
<1>2. \A i \in 1 .. n : M(i) \in Points
  <2>1. ASSUME NEW i \in 1 .. n PROVE c[i] \in Int /\ p[i] \in Int
    <3>1. i \in 1 .. Len(c) /\ i \in 1 .. Len(p)
      OBVIOUS
    <3>2. c[i] \in Int
      BY <3>1, ElementOfSeq
    <3>3. p[i] \in Points
      BY <3>1, ElementOfSeq
    <3>4. QED BY <3>2, <3>3 DEF Points
  <2>2. QED BY <2>1, MulPoint
<1>3. Products(c, p) = [i \in 1 .. n |-> M(i)]
  BY <1>1 DEF Products
<1> HIDE DEF n, M
<1>4. QED BY <1>1, <1>2, <1>3, IsASeq DEF n, M

LEMMA MultiscalarType ==
  ASSUME NEW c \in Seq(Int), NEW p \in Seq(Points), Len(c) = Len(p)
  PROVE  MultiscalarMul(c, p) \in Points /\ MultiscalarMul(c, p) \in Int
<1>1. MultiscalarMul(c, p) \in Points
  BY ProductsType, MultiscalarIsSum, PointSumType
<1>2. QED BY <1>1 DEF Points

LEMMA MultiscalarEmpty == MultiscalarMul(<<>>, <<>>) = 0
<1>1. Products(<<>>, <<>>) = <<>>
  <2>1. <<>> \in Seq(Int) /\ <<>> \in Seq(Points) /\ Len(<<>>) = 0
    BY EmptySeq
  <2>2. Products(<<>>, <<>>) \in Seq(Points) /\ Len(Products(<<>>, <<>>)) = 0
    BY <2>1, ProductsType
  <2>3. QED BY <2>2, EmptySeq
<1>2. QED BY <1>1, MultiscalarIsSum, PointSumEmpty

LEMMA MultiscalarAppend ==
  ASSUME NEW c \in Seq(Int), NEW p \in Seq(Points), Len(c) = Len(p),
         NEW z \in Int, NEW P \in Points
  PROVE  Cong(MultiscalarMul(Append(c, z), Append(p, P)),
              MultiscalarMul(c, p) + z * P, 8 * L)
<1> DEFINE d == Append(c, z)
           q == Append(p, P)
           n == Len(p)
           a == Products(c, p)
           b == Products(d, q)
           M == Mul(z, P)
<1>1. /\ n \in Nat /\ d \in Seq(Int) /\ q \in Seq(Points)
      /\ Len(d) = n + 1 /\ Len(q) = n + 1
      /\ d[n + 1] = z /\ q[n + 1] = P
      /\ \A i \in 1 .. n : d[i] = c[i] /\ q[i] = p[i]
  BY AppendProperties, LenProperties
<1>2. P \in Int /\ M \in Points /\ M \in Int /\ Cong(M, z * P, 8 * L)
  <2>1. P \in Int
    BY DEF Points
  <2>2. QED BY <2>1, MulPoint
<1>3. /\ a \in Seq(Points) /\ Len(a) = n
      /\ \A i \in 1 .. n : a[i] = Mul(c[i], p[i])
  BY ProductsType
<1>4. /\ b \in Seq(Points) /\ Len(b) = n + 1
      /\ \A i \in 1 .. n + 1 : b[i] = Mul(d[i], q[i])
  <2> HIDE DEF d, q, n
  <2>1. QED BY <1>1, ProductsType
<1>5. b = Append(a, M)
  <2> DEFINE t == Append(a, M)
  <2>1. /\ t \in Seq(Points) /\ Len(t) = n + 1 /\ t[n + 1] = M
        /\ \A i \in 1 .. n : t[i] = a[i]
    <3> HIDE DEF a, M, n
    <3>1. QED BY <1>2, <1>3, AppendProperties
  <2> HIDE DEF t, b, a, n, d, q
  <2>2. ASSUME NEW i \in 1 .. n + 1 PROVE b[i] = t[i]
    <3>1. i = n + 1 \/ i \in 1 .. n
      BY <1>1
    <3>2. QED BY <1>1, <1>3, <1>4, <2>1, <3>1
  <2>3. b = t
    BY <1>4, <2>1, <2>2, SeqEqual
  <2>4. QED BY <2>3 DEF t
<1>6. MultiscalarMul(d, q) = Add(MultiscalarMul(c, p), M)
  <2>1. PointSum(b) = Add(PointSum(a), M)
    <3> HIDE DEF a, b, M
    <3>1. QED BY <1>2, <1>3, <1>5, PointSumAppend
  <2>2. QED BY <2>1, MultiscalarIsSum
<1> DEFINE S == MultiscalarMul(c, p)
<1>7. S \in Int
  BY MultiscalarType
<1>8. Cong(S, S, 8 * L) /\ z * P \in Int
  BY <1>2, <1>7, OrderPositive, CongRefl
<1>9. Cong(Add(S, M), S + z * P, 8 * L)
  <2> HIDE DEF S, M
  <2>1. QED BY <1>2, <1>7, <1>8, AddCong
<1>10. QED BY <1>6, <1>9

LEMMA MultiscalarConcat ==
  ASSUME NEW c \in Seq(Int), NEW p \in Seq(Points), Len(c) = Len(p),
         NEW d \in Seq(Int), NEW q \in Seq(Points), Len(d) = Len(q)
  PROVE  Cong(MultiscalarMul(c \o d, p \o q),
              MultiscalarMul(c, p) + MultiscalarMul(d, q), 8 * L)
<1> DEFINE m == Len(p)
           n == Len(q)
           e == c \o d
           r == p \o q
           a == Products(c, p)
           b == Products(d, q)
           t == a \o b
           u == Products(e, r)
<1>1. /\ m \in Nat /\ n \in Nat /\ e \in Seq(Int) /\ r \in Seq(Points)
      /\ Len(e) = m + n /\ Len(r) = m + n
      /\ \A i \in 1 .. m + n : /\ e[i] = IF i <= m THEN c[i] ELSE d[i - m]
                               /\ r[i] = IF i <= m THEN p[i] ELSE q[i - m]
  <2>1. m \in Nat /\ n \in Nat /\ Len(c) = m /\ Len(d) = n
    BY LenProperties
  <2>2. /\ e \in Seq(Int) /\ Len(e) = Len(c) + Len(d)
        /\ \A i \in 1 .. Len(c) + Len(d) :
             e[i] = IF i <= Len(c) THEN c[i] ELSE d[i - Len(c)]
    BY ConcatProperties
  <2>3. /\ r \in Seq(Points) /\ Len(r) = m + n
        /\ \A i \in 1 .. m + n : r[i] = IF i <= m THEN p[i] ELSE q[i - m]
    BY ConcatProperties
  <2> HIDE DEF e, r, m, n
  <2>4. QED BY <2>1, <2>2, <2>3
<1>2. /\ a \in Seq(Points) /\ Len(a) = m /\ \A i \in 1 .. m : a[i] = Mul(c[i], p[i])
      /\ b \in Seq(Points) /\ Len(b) = n /\ \A i \in 1 .. n : b[i] = Mul(d[i], q[i])
  BY ProductsType
<1>3. /\ u \in Seq(Points) /\ Len(u) = m + n
      /\ \A i \in 1 .. m + n : u[i] = Mul(e[i], r[i])
  <2>1. Len(e) = Len(r)
    BY <1>1
  <2> HIDE DEF e, r, m, n
  <2>2. QED BY <1>1, <2>1, ProductsType
<1>4. /\ t \in Seq(Points) /\ Len(t) = m + n
      /\ \A i \in 1 .. m + n : t[i] = IF i <= m THEN a[i] ELSE b[i - m]
  <2>1. /\ t \in Seq(Points) /\ Len(t) = Len(a) + Len(b)
        /\ \A i \in 1 .. Len(a) + Len(b) :
             t[i] = IF i <= Len(a) THEN a[i] ELSE b[i - Len(a)]
    <3>1. a \in Seq(Points) /\ b \in Seq(Points)
      BY <1>2
    <3> HIDE DEF a, b, m, n
    <3>2. QED BY <3>1, ConcatProperties
  <2> HIDE DEF a, b, m, n, t
  <2>2. QED BY <1>2, <2>1
<1>5. u = t
  <2> HIDE DEF u, t, a, b, e, r, m, n
  <2>1. ASSUME NEW i \in 1 .. m + n PROVE u[i] = t[i]
    <3>1. i <= m => i \in 1 .. m
      BY <1>1
    <3>2. ~ (i <= m) => i - m \in 1 .. n
      BY <1>1
    <3>3. m \in Nat /\ n \in Nat /\ i \in Int
      BY <1>1
    <3>4. CASE i <= m
      <4>1. e[i] = c[i] /\ r[i] = p[i] /\ t[i] = a[i] /\ u[i] = Mul(e[i], r[i])
        BY <1>1, <1>3, <1>4, <3>4
      <4>2. a[i] = Mul(c[i], p[i])
        BY <1>2, <3>1, <3>4
      <4>3. QED BY <4>1, <4>2
    <3>5. CASE ~ (i <= m)
      <4>1. /\ e[i] = d[i - m] /\ r[i] = q[i - m] /\ t[i] = b[i - m]
            /\ u[i] = Mul(e[i], r[i])
        BY <1>1, <1>3, <1>4, <3>5
      <4>2. b[i - m] = Mul(d[i - m], q[i - m])
        BY <1>2, <3>2, <3>5
      <4>3. QED BY <4>1, <4>2
    <3>6. QED BY <3>4, <3>5
  <2>2. QED BY <1>3, <1>4, <2>1, SeqEqual
<1>6. Cong(PointSum(t), PointSum(a) + PointSum(b), 8 * L)
  <2> HIDE DEF a, b
  <2>1. QED BY <1>2, PointSumConcat
<1>7. QED BY <1>5, <1>6, MultiscalarIsSum

(* Points that agree modulo L agree after the cofactor. *)
LEMMA CofactorAgrees ==
  ASSUME NEW P \in Int, NEW Q \in Int, Cong(P, Q, L)
  PROVE  MulByCofactor(P) = MulByCofactor(Q)
<1> DEFINE M == 8 * L
           x == Mul(8, P)
           y == Mul(8, Q)
<1>1. PICK k \in Int : P = Q + k * L
  BY DEF Cong
<1>2. 8 * P = 8 * Q + k * (8 * L)
  <2>1. 8 * (k * L) = k * (8 * L)
    BY OrderPositive
  <2>2. k * L \in Int
    BY OrderPositive
  <2>3. QED BY <1>1, <2>1, <2>2
<1>3. Cong(8 * P, 8 * Q, M)
  BY <1>2 DEF Cong
<1>4. x \in Points /\ Cong(x, 8 * P, M) /\ y \in Points /\ Cong(y, 8 * Q, M)
  BY MulPoint
<1>5. M \in Nat /\ M > 0 /\ M \in Int /\ x \in 0 .. M - 1 /\ y \in 0 .. M - 1
      /\ x \in Int /\ y \in Int /\ 8 * P \in Int /\ 8 * Q \in Int
  BY <1>4, OrderPositive DEF Points
<1> DEFINE X == 8 * P
           Y == 8 * Q
<1>6. Cong(x, X, M) /\ Cong(X, Y, M) /\ Cong(y, Y, M) /\ X \in Int /\ Y \in Int
  BY <1>3, <1>4
<1> HIDE DEF M, x, y, X, Y
<1>7. Cong(x, Y, M) /\ Cong(Y, y, M)
  BY <1>5, <1>6, CongTrans, CongSym
<1>8. Cong(x, y, M)
  BY <1>5, <1>6, <1>7, CongTrans
<1>9. x = y
  BY <1>5, <1>8, CongEqual
<1>10. QED BY <1>9 DEF x, y, MulByCofactor

-----------------------------------------------------------------------------
LEMMA WiderSeq ==
  ASSUME NEW S, NEW T, S \subseteq T, NEW s \in Seq(S)
  PROVE  s \in Seq(T)
<1>1. Len(s) \in Nat /\ \A i \in 1 .. Len(s) : s[i] \in T
  BY LenProperties, ElementOfSeq
<1>2. s = [i \in 1 .. Len(s) |-> s[i]]
  BY LenProperties
<1> DEFINE n == Len(s)
           v(i) == s[i]
<1>3. n \in Nat /\ \A i \in 1 .. n : v(i) \in T
  BY <1>1
<1> HIDE DEF n, v
<1>4. [i \in 1 .. n |-> v(i)] \in Seq(T)
  BY <1>3, IsASeq
<1>5. QED BY <1>2, <1>4 DEF n, v

LEMMA SumTypes ==
  ASSUME TypeOK, Len(A_coeffs) = Len(As), Len(R_coeffs) = Len(Rs)
  PROVE  /\ A_coeff \in Int /\ B_coeff \in Int
         /\ A_coeffs \in Seq(Int) /\ R_coeffs \in Seq(Int)
         /\ As \in Seq(Points) /\ Rs \in Seq(Points)
         /\ MultiscalarMul(A_coeffs, As) \in Int
         /\ MultiscalarMul(R_coeffs, Rs) \in Int
<1>1. /\ A_coeff \in 0 .. L - 1 /\ B_coeff \in 0 .. L - 1
      /\ A_coeffs \in Seq(0 .. L - 1) /\ R_coeffs \in Seq(Draws)
      /\ As \in Seq(Points) /\ Rs \in Seq(Points)
  BY DEF TypeOK
<1>2. 0 .. L - 1 \subseteq Int /\ Draws \subseteq Int
  BY BatchAssumption
<1>3. A_coeffs \in Seq(Int)
  BY <1>1, <1>2, WiderSeq
<1>4. R_coeffs \in Seq(Int)
  BY <1>1, <1>2, WiderSeq
<1>5. QED BY <1>1, <1>2, <1>3, <1>4, MultiscalarType

(* The point that is checked: the coalesced sum. *)
LEMMA CheckPointSum ==
  ASSUME TypeOK, Len(A_coeffs) = Len(As), Len(R_coeffs) = Len(Rs)
  PROVE  /\ CheckPoint \in Int
         /\ Cong(CheckPoint, B_coeff * 8 + MultiscalarMul(A_coeffs, As)
                               + MultiscalarMul(R_coeffs, Rs), 8 * L)
<1> DEFINE c0 == <<B_coeff>>
           p0 == <<Basepoint>>
           c1 == c0 \o A_coeffs
           p1 == p0 \o As
           X == MultiscalarMul(c0, p0)
           Y == MultiscalarMul(A_coeffs, As)
           Z == MultiscalarMul(R_coeffs, Rs)
           W == MultiscalarMul(c1, p1)
<1>1. /\ A_coeff \in Int /\ B_coeff \in Int
      /\ A_coeffs \in Seq(Int) /\ R_coeffs \in Seq(Int)
      /\ As \in Seq(Points) /\ Rs \in Seq(Points)
      /\ Y \in Int /\ Z \in Int
  BY SumTypes
<1>2. Basepoint \in Points /\ 8 * L \in Int
  BY OrderPositive DEF Basepoint, Points
<1>3. /\ c0 = Append(<<>>, B_coeff) /\ p0 = Append(<<>>, Basepoint)
      /\ c0 \in Seq(Int) /\ p0 \in Seq(Points) /\ Len(c0) = 1 /\ Len(p0) = 1
  BY <1>1, <1>2
<1>4. /\ c1 \in Seq(Int) /\ Len(c1) = 1 + Len(A_coeffs)
      /\ p1 \in Seq(Points) /\ Len(p1) = 1 + Len(As)
  <2>1. c1 \in Seq(Int) /\ Len(c1) = Len(c0) + Len(A_coeffs)
    <3> HIDE DEF c0
    <3>1. QED BY <1>1, <1>3, ConcatProperties
  <2>2. p1 \in Seq(Points) /\ Len(p1) = Len(p0) + Len(As)
    <3> HIDE DEF p0
    <3>1. QED BY <1>1, <1>3, ConcatProperties
  <2>3. QED BY <1>3, <2>1, <2>2
<1>5. X \in Int /\ Cong(X, B_coeff * 8, 8 * L)
  <2>1. X \in Int
    <3> HIDE DEF c0, p0
    <3>1. QED BY <1>3, MultiscalarType
  <2>2. Cong(X, MultiscalarMul(<<>>, <<>>) + B_coeff * Basepoint, 8 * L)
    <3>1. <<>> \in Seq(Int) /\ <<>> \in Seq(Points) /\ Len(<<>>) = Len(<<>>)
      BY EmptySeq
    <3>2. Cong(MultiscalarMul(Append(<<>>, B_coeff), Append(<<>>, Basepoint)),
               MultiscalarMul(<<>>, <<>>) + B_coeff * Basepoint, 8 * L)
      BY <1>1, <1>2, <3>1, MultiscalarAppend
    <3> HIDE DEF c0, p0
    <3>3. QED BY <1>3, <3>2
  <2>3. MultiscalarMul(<<>>, <<>>) + B_coeff * Basepoint = B_coeff * 8
    BY <1>1, MultiscalarEmpty DEF Basepoint
  <2> HIDE DEF X
  <2>4. QED BY <2>1, <2>2, <2>3
<1>6. W \in Int /\ Cong(W, X + Y, 8 * L)
  <2>1. Len(c1) = Len(p1)
    BY <1>4
  <2>2. W \in Int
    <3> HIDE DEF c1, p1
    <3>1. QED BY <1>4, <2>1, MultiscalarType
  <2>3. Cong(W, X + Y, 8 * L)
    <3> HIDE DEF c0, p0
    <3>1. QED BY <1>1, <1>3, MultiscalarConcat
  <2>4. QED BY <2>2, <2>3
<1>7. CheckPoint \in Int /\ Cong(CheckPoint, W + Z, 8 * L)
  <2>1. CheckPoint = MultiscalarMul(c1 \o R_coeffs, p1 \o Rs)
    BY DEF CheckPoint
  <2>2. Len(c1) = Len(p1)
    BY <1>4
  <2>3. Cong(MultiscalarMul(c1 \o R_coeffs, p1 \o Rs), W + Z, 8 * L)
    <3> HIDE DEF c1, p1
    <3>1. QED BY <1>1, <1>4, <2>2, MultiscalarConcat
  <2>4. MultiscalarMul(c1 \o R_coeffs, p1 \o Rs) \in Int
    <3> DEFINE c2 == c1 \o R_coeffs
               p2 == p1 \o Rs
    <3>1. c2 \in Seq(Int) /\ Len(c2) = Len(c1) + Len(R_coeffs)
      <4> HIDE DEF c1
      <4>1. QED BY <1>1, <1>4, ConcatProperties
    <3>2. p2 \in Seq(Points) /\ Len(p2) = Len(p1) + Len(Rs)
      <4> HIDE DEF p1
      <4>1. QED BY <1>1, <1>4, ConcatProperties
    <3>3. Len(c2) = Len(p2)
      BY <2>2, <3>1, <3>2
    <3> HIDE DEF c2, p2
    <3>4. MultiscalarMul(c2, p2) \in Int
      BY <3>1, <3>2, <3>3, MultiscalarType
    <3>5. QED BY <3>4 DEF c2, p2
  <2>5. QED BY <2>1, <2>3, <2>4
<1>8. X + Y \in Int /\ W + Z \in Int /\ B_coeff * 8 \in Int
      /\ B_coeff * 8 + Y \in Int /\ B_coeff * 8 + Y + Z \in Int
  BY <1>1, <1>5, <1>6
<1> DEFINE B == B_coeff * 8
<1>9. B \in Int /\ Cong(X, B, 8 * L)
  BY <1>5, <1>8
<1> HIDE DEF W, X, Y, Z, B
<1>10. Cong(Y, Y, 8 * L) /\ Cong(Z, Z, 8 * L)
  BY <1>1, <1>2, CongRefl
<1>11. Cong(X + Y, B + Y, 8 * L) /\ B + Y \in Int
  BY <1>1, <1>2, <1>5, <1>9, <1>10, CongSum
<1>12. Cong(W, B + Y, 8 * L)
  BY <1>2, <1>6, <1>8, <1>11, CongTrans
<1>13. Cong(W + Z, B + Y + Z, 8 * L) /\ B + Y + Z \in Int
  <2> DEFINE V == B + Y
  <2>1. V \in Int /\ Cong(W, V, 8 * L) /\ W \in Int
    BY <1>6, <1>11, <1>12
  <2> HIDE DEF V
  <2>2. Cong(W + Z, V + Z, 8 * L) /\ V + Z \in Int
    BY <1>1, <1>2, <1>10, <2>1, CongSum
  <2>3. QED BY <2>2 DEF V
<1>14. Cong(CheckPoint, B + Y + Z, 8 * L)
  BY <1>2, <1>7, <1>8, <1>13, CongTrans
<1>15. QED BY <1>7, <1>14 DEF B, Y, Z

LEMMA TermsType ==
  ASSUME WalkInv
  PROVE  /\ Terms \in Seq(Points) /\ Len(Terms) = Len(drawn) /\ Len(drawn) \in Nat
         /\ \A i \in 1 .. Len(drawn) : Terms[i] = Term(drawn[i])
         /\ PointSum(Terms) \in Points /\ PointSum(Terms) \in Int
         /\ PointSum(Terms) = FoldLeft(Add, 0, [i \in DOMAIN drawn |-> Term(drawn[i])])
<1> DEFINE n == Len(drawn)
           T(i) == Term(drawn[i])
<1>1. drawn \in Seq([item : Items, z : Draws])
  BY DEF WalkInv
<1>2. n \in Nat /\ DOMAIN drawn = 1 .. n
  BY <1>1, LenProperties
<1>3. ASSUME NEW i \in 1 .. n
      PROVE  T(i) \in Points
  <2>1. drawn[i] \in [item : Items, z : Draws]
    BY <1>1, ElementOfSeq
  <2>2. drawn[i].item \in Items /\ drawn[i].z \in Int
    <3>1. drawn[i].item \in Items /\ drawn[i].z \in Draws
      BY <2>1
    <3>2. \A z \in Draws : z \in Int
      BY BatchAssumption, OrderPositive
    <3>3. QED BY <3>1, <3>2
  <2>3. QED BY <2>2, TermCong
<1>4. Terms = [i \in 1 .. n |-> T(i)]
  BY DEF Terms
<1>5. Terms \in Seq(Points) /\ Len(Terms) = n
  <2> HIDE DEF T, n
  <2>1. QED BY <1>2, <1>3, <1>4, IsASeq
<1>6. PointSum(Terms) \in Points
  BY <1>5, PointSumType
<1>7. PointSum(Terms) \in Int
  BY <1>6 DEF Points
<1>8. Terms = [i \in DOMAIN drawn |-> Term(drawn[i])]
  BY <1>2, <1>4
<1>9. PointSum(Terms) = FoldLeft(Add, 0, [i \in DOMAIN drawn |-> Term(drawn[i])])
  BY <1>8 DEF PointSum
<1>10. QED BY <1>2, <1>4, <1>5, <1>6, <1>7, <1>9

(* What CoalescingIsExact says, from the congruence the sums keep. *)
LEMMA Coalesced == Inv => CoalescingIsExact
<1> SUFFICES ASSUME Inv
             PROVE  CoalescingIsExact
  OBVIOUS
<1> DEFINE Y == MultiscalarMul(A_coeffs, As)
           Z == MultiscalarMul(R_coeffs, Rs)
           B == B_coeff * 8
           S == B + Y + Z
           P == PointSum(Terms)
           own == IF IsDecodable(vk) THEN Mul(A_coeff, Decompress(vk)) ELSE 0
<1>1. /\ TypeOK /\ WalkInv /\ Len(A_coeffs) = Len(As) /\ Len(R_coeffs) = Len(Rs)
      /\ Cong(S + Own, P, L)
  BY DEF Inv, SumsInv
<1>2. /\ A_coeff \in Int /\ B_coeff \in Int /\ Y \in Int /\ Z \in Int
      /\ L \in Int /\ 8 * L \in Int
  BY <1>1, SumTypes, OrderPositive
<1>3. S \in Int /\ CheckPoint \in Int /\ Cong(CheckPoint, S, 8 * L)
  BY <1>1, <1>2, CheckPointSum
<1>4. P \in Int /\ P = FoldLeft(Add, 0, [i \in DOMAIN drawn |-> Term(drawn[i])])
  BY <1>1, TermsType
<1>5. Own \in Int /\ own \in Int /\ Cong(own, Own, 8 * L)
  <2>1. CASE IsDecodable(vk)
    <3>1. vk.point \in Int
      BY <2>1 DEF IsDecodable, Points
    <3> DEFINE V == vk.point
               a == A_coeff
    <3>2. V \in Int /\ a \in Int
      BY <1>2, <3>1
    <3>3. own = Mul(a, V) /\ Own = a * V
      BY <2>1 DEF Own, Decompress
    <3> HIDE DEF V, a
    <3>4. a * V \in Int
      BY <3>2
    <3>5. Mul(a, V) \in Int /\ Cong(Mul(a, V), a * V, 8 * L)
      BY <3>2, MulPoint
    <3> HIDE DEF own
    <3>6. QED BY <3>3, <3>4, <3>5
  <2>2. CASE ~ IsDecodable(vk)
    BY <1>2, <2>2, CongRefl DEF Own
  <2>3. QED BY <2>1, <2>2
<1> HIDE DEF Y, Z, B, S, P, own
<1>6. Add(CheckPoint, own) \in Int /\ Cong(Add(CheckPoint, own), S + Own, 8 * L)
  <2>1. Add(CheckPoint, own) \in Points /\ Cong(Add(CheckPoint, own), S + Own, 8 * L)
    BY <1>3, <1>5, AddCong
  <2>2. QED BY <2>1 DEF Points
<1>7. S + Own \in Int
  BY <1>3, <1>5
<1>8. Cong(Add(CheckPoint, own), S + Own, L)
  BY <1>6, <1>7, CongWeaken
<1>9. Cong(Add(CheckPoint, own), P, L)
  BY <1>1, <1>2, <1>4, <1>6, <1>7, <1>8, CongTrans
<1>10. MulByCofactor(Add(CheckPoint, own)) = MulByCofactor(P)
  BY <1>4, <1>6, <1>9, CofactorAgrees
<1>11. QED BY <1>4, <1>10 DEF CoalescingIsExact, own, P

-----------------------------------------------------------------------------
LEMMA DrawnFacts ==
  ASSUME WalkInv, NEW k \in 1 .. Len(drawn)
  PROVE  /\ drawn[k].item \in Items /\ drawn[k].z \in 0 .. L - 1
         /\ IsDecodable(drawn[k].item.A) /\ Readable(drawn[k].item)
         /\ Term(drawn[k]) \in Int
         /\ Cong(Term(drawn[k]), 0, L) <=> (IsValid(drawn[k].item) \/ drawn[k].z = 0)
<1>1. /\ drawn \in Seq([item : Items, z : Draws])
      /\ IsDecodable(drawn[k].item.A) /\ Readable(drawn[k].item)
  BY DEF WalkInv
<1>2. drawn[k] \in [item : Items, z : Draws]
  BY <1>1, ElementOfSeq
<1>3. drawn[k].item \in Items /\ drawn[k].z \in Draws
  BY <1>2
<1>4. drawn[k].z \in 0 .. L - 1
  BY <1>3, BatchAssumption
<1> DEFINE d == drawn[k]
<1>5. /\ d.item \in Items /\ d.z \in 0 .. L - 1
      /\ IsDecodable(d.item.A) /\ Readable(d.item)
  BY <1>1, <1>3, <1>4
<1> HIDE DEF d
<1>6. Term(d) \in Int /\ (Cong(Term(d), 0, L) <=> (IsValid(d.item) \/ d.z = 0))
  BY <1>5, TermVanishes
<1>7. QED BY <1>5, <1>6 DEF d

(* When no key is left, each queued item was read, once. *)
LEMMA ReadWhole ==
  ASSUME Inv, pc = "Keys", todo = {}
  PROVE  /\ Len(drawn) = Len(queued) /\ Len(drawn) \in Nat
         /\ \E p \in [1 .. Len(drawn) -> 1 .. Len(queued)] :
              /\ \A i \in 1 .. Len(queued) : \E k \in 1 .. Len(drawn) : p[k] = i
              /\ \A j, k \in 1 .. Len(drawn) : p[j] = p[k] => j = k
              /\ \A k \in 1 .. Len(drawn) : queued[p[k]] = drawn[k].item
<1>1. /\ TypeOK /\ QueueInv /\ WalkInv
  BY DEF Inv
<1>2. /\ drawn \in Seq([item : Items, z : Draws]) /\ queued \in Seq(Items)
      /\ vk = NoKey /\ \A a \in DOMAIN signatures : IsDecodable(a)
  BY <1>1 DEF WalkInv, QueueInv
<1>3. Len(drawn) \in Nat /\ Len(queued) \in Nat /\ ~ IsDecodable(NoKey)
  BY <1>2, LenProperties DEF NoKey, IsDecodable, Undecodable, Points
<1>4. ReadSlots = Slots
  BY <1>2, <1>3 DEF ReadSlots, Slots
<1>5. PICK f : Pairs(f, queued, Slots, Held)
  BY <1>1 DEF QueueInv
<1>6. PICK g : Pairs(g, ItemsRead, Slots, Held)
  BY <1>1, <1>4 DEF WalkInv
<1>7. /\ Len(ItemsRead) = Len(drawn)
      /\ \A k \in 1 .. Len(drawn) : ItemsRead[k] = drawn[k].item
  BY <1>3 DEF ItemsRead
<1>8. Len(ItemsRead) \in Nat
  BY <1>3, <1>7
<1>9. Len(ItemsRead) = Len(queued)
  BY <1>3, <1>5, <1>6, <1>8, PairsPermute
<1>10. PICK p : Permutes(p, ItemsRead, queued)
  BY <1>3, <1>5, <1>6, <1>8, PairsPermute
<1>11. p \in [1 .. Len(drawn) -> 1 .. Len(queued)]
  BY <1>7, <1>10 DEF Permutes
<1>12. /\ \A i \in 1 .. Len(queued) : \E k \in 1 .. Len(drawn) : p[k] = i
       /\ \A j, k \in 1 .. Len(drawn) : p[j] = p[k] => j = k
       /\ \A k \in 1 .. Len(drawn) : queued[p[k]] = drawn[k].item
  BY <1>7, <1>10 DEF Permutes
<1>13. QED BY <1>3, <1>7, <1>9, <1>11, <1>12

(* The check accepts exactly when the terms cancel, modulo L. *)
LEMMA CheckIsSum ==
  ASSUME Inv, pc = "Keys"
  PROVE  IsIdentity(MulByCofactor(CheckPoint)) <=> Cong(PointSum(Terms), 0, L)
<1> DEFINE S == B_coeff * 8 + MultiscalarMul(A_coeffs, As) + MultiscalarMul(R_coeffs, Rs)
           P == PointSum(Terms)
           C == CheckPoint
<1>1. /\ TypeOK /\ WalkInv /\ Len(A_coeffs) = Len(As) /\ Len(R_coeffs) = Len(Rs)
      /\ Cong(S + Own, P, L) /\ vk = NoKey
  BY DEF Inv, SumsInv, WalkInv
<1>2. Own = 0
  <2>1. ~ IsDecodable(vk)
    BY <1>1, OrderPositive DEF NoKey, IsDecodable, Undecodable, Points
  <2>2. QED BY <2>1 DEF Own
<1>3. B_coeff \in Int /\ L \in Int /\ 8 * L \in Int
      /\ MultiscalarMul(A_coeffs, As) \in Int /\ MultiscalarMul(R_coeffs, Rs) \in Int
  BY <1>1, SumTypes, OrderPositive
<1>4. S \in Int /\ C \in Int /\ Cong(C, S, 8 * L) /\ P \in Int
  BY <1>1, <1>3, CheckPointSum, TermsType
<1>5. S + Own = S
  BY <1>2, <1>4
<1> HIDE DEF S, P, C
<1>6. Cong(C, P, L) /\ Cong(P, C, L)
  <2>1. Cong(C, S, L)
    BY <1>4, CongWeaken
  <2>2. Cong(C, P, L)
    BY <1>1, <1>3, <1>4, <1>5, <2>1, CongTrans
  <2>3. QED BY <1>3, <1>4, <2>2, CongSym
<1>7. Cong(C, 0, L) <=> Cong(P, 0, L)
  <2>1. Cong(C, 0, L) => Cong(P, 0, L)
    BY <1>3, <1>4, <1>6, CongTrans
  <2>2. Cong(P, 0, L) => Cong(C, 0, L)
    BY <1>3, <1>4, <1>6, CongTrans
  <2>3. QED BY <2>1, <2>2
<1>8. IsIdentity(MulByCofactor(C)) <=> (C % L) = 0
  <2>1. Cong(C, C, 8 * L)
    BY <1>3, <1>4, CongRefl
  <2>2. QED BY <1>4, <2>1, CofactorKills
<1>9. QED BY <1>4, <1>7, <1>8, CongZero DEF C, P

(* Valid items cancel. *)
LEMMA ValidItemsCancel ==
  ASSUME WalkInv, \A k \in 1 .. Len(drawn) : IsValid(drawn[k].item)
  PROVE  Cong(PointSum(Terms), 0, L)
<1>1. /\ Terms \in Seq(Points) /\ Len(Terms) = Len(drawn)
      /\ \A k \in 1 .. Len(drawn) : Terms[k] = Term(drawn[k])
  BY TermsType
<1>2. \A k \in 1 .. Len(Terms) : Cong(Terms[k], 0, L)
  BY <1>1, DrawnFacts
<1>3. QED BY <1>1, <1>2, PointSumOfNone

(* One invalid item, with a z that is not 0, does not cancel. *)
LEMMA InvalidItemRemains ==
  ASSUME WalkInv, NEW j \in 1 .. Len(drawn), ~ IsValid(drawn[j].item),
         \A k \in 1 .. Len(drawn) : k # j => IsValid(drawn[k].item),
         Cong(PointSum(Terms), 0, L)
  PROVE  drawn[j].z = 0
<1>1. /\ Terms \in Seq(Points) /\ Len(Terms) = Len(drawn)
      /\ \A k \in 1 .. Len(drawn) : Terms[k] = Term(drawn[k])
      /\ PointSum(Terms) \in Int
  BY TermsType
<1>2. \A k \in 1 .. Len(Terms) : k # j => Cong(Terms[k], 0, L)
  BY <1>1, DrawnFacts
<1>3. Cong(PointSum(Terms), Terms[j], L)
  BY <1>1, <1>2, PointSumOfOne
<1>4. Terms[j] \in Int /\ L \in Int
  BY <1>1, DrawnFacts, OrderPositive
<1>5. Cong(Terms[j], PointSum(Terms), L)
  BY <1>1, <1>3, <1>4, CongSym
<1>6. Cong(Terms[j], 0, L)
  BY <1>1, <1>4, <1>5, CongTrans
<1>7. QED BY <1>1, <1>6, DrawnFacts

(* The verdict of the check. *)
LEMMA VerdictIsRight ==
  ASSUME Inv, pc = "Keys", todo = {}
  PROVE  /\ (\A i \in DOMAIN queued : IsValid(queued[i]))
              => IsIdentity(MulByCofactor(CheckPoint))
         /\ Len(drawn) = Len(queued)
         /\ \A i \in DOMAIN queued : IsDecodable(queued[i].A) /\ Readable(queued[i])
         /\ IsIdentity(MulByCofactor(CheckPoint))
              /\ Cardinality({i \in DOMAIN queued : ~ IsValid(queued[i])}) = 1
              => \E i \in DOMAIN drawn : ~ IsValid(drawn[i].item) /\ drawn[i].z = 0
<1>1. WalkInv /\ QueueInv
  BY DEF Inv
<1>2. IsIdentity(MulByCofactor(CheckPoint)) <=> Cong(PointSum(Terms), 0, L)
  BY CheckIsSum
<1> DEFINE n == Len(drawn)
<1>3. n = Len(queued) /\ n \in Nat /\ DOMAIN queued = 1 .. n /\ DOMAIN drawn = 1 .. n
  BY <1>1, ReadWhole, LenProperties DEF WalkInv, QueueInv
<1>4. PICK p \in [1 .. n -> 1 .. n] :
        /\ \A i \in 1 .. n : \E k \in 1 .. n : p[k] = i
        /\ \A j, k \in 1 .. n : p[j] = p[k] => j = k
        /\ \A k \in 1 .. n : queued[p[k]] = drawn[k].item
  BY <1>3, ReadWhole
<1>5. \A k \in 1 .. n : IsDecodable(drawn[k].item.A) /\ Readable(drawn[k].item)
  BY <1>1, DrawnFacts
<1>6. ASSUME \A i \in DOMAIN queued : IsValid(queued[i])
      PROVE  Cong(PointSum(Terms), 0, L)
  <2>1. \A k \in 1 .. n : IsValid(drawn[k].item)
    BY <1>3, <1>4, <1>6
  <2>2. QED BY <1>1, <2>1, ValidItemsCancel
<1>7. ASSUME Cong(PointSum(Terms), 0, L),
             Cardinality({i \in DOMAIN queued : ~ IsValid(queued[i])}) = 1
      PROVE  \E i \in DOMAIN drawn : ~ IsValid(drawn[i].item) /\ drawn[i].z = 0
  <2> DEFINE U == {i \in 1 .. n : ~ IsValid(queued[i])}
  <2>1. IsFiniteSet(U)
    <3>1. IsFiniteSet(1 .. n) /\ U \in SUBSET (1 .. n)
      BY <1>3, FS_Interval
    <3> HIDE DEF U, n
    <3>2. QED BY <3>1, FS_Subset
  <2>2. Cardinality(U) = 1
    BY <1>3, <1>7
  <2>3. PICK i : U = {i}
    <3> HIDE DEF U
    <3>1. QED BY <2>1, <2>2, FS_Singleton
  <2>4. /\ i \in 1 .. n /\ ~ IsValid(queued[i])
        /\ \A m \in 1 .. n : m # i => IsValid(queued[m])
    BY <2>3
  <2>5. PICK j \in 1 .. n : p[j] = i
    BY <1>4, <2>4
  <2>6. ~ IsValid(drawn[j].item)
    BY <1>4, <2>4, <2>5
  <2>7. ASSUME NEW k \in 1 .. n, k # j
        PROVE  IsValid(drawn[k].item)
    <3>1. p[k] \in 1 .. n /\ p[k] # i
      BY <1>4, <2>5, <2>7
    <3>2. QED BY <1>4, <2>4, <3>1
  <2>8. drawn[j].z = 0
    BY <1>1, <1>7, <2>6, <2>7, InvalidItemRemains
  <2>9. QED BY <1>3, <2>6, <2>8
<1>8. \A i \in 1 .. n : IsDecodable(queued[i].A) /\ Readable(queued[i])
  <2>1. ASSUME NEW i \in 1 .. n
        PROVE  IsDecodable(queued[i].A) /\ Readable(queued[i])
    <3>1. PICK k \in 1 .. n : p[k] = i
      BY <1>4
    <3>2. queued[i] = drawn[k].item
      BY <1>4, <3>1
    <3>3. QED BY <1>5, <3>2
  <2>2. QED BY <2>1
<1>9. QED BY <1>2, <1>3, <1>6, <1>7, <1>8

-----------------------------------------------------------------------------
(* The coefficients B, a and the sums Y, Z stand for T; x gains z * y.     *)
StandFor(B, Y, Z, a, P, T) == Cong(B * 8 + Y + Z + a * P, T, L)
Gains(x1, x, z, y) == Cong(x1, x + z * y, L)
Loses(x1, x, z, y) == Cong(x1, x - z * y, L)
GainsTerm(T1, T, z, s, h, P, R) == Cong(T1, T + z * (R + (h * P - 8 * s)), L)

(* The coefficients after one more term, and after a key is finished.      *)
OneMoreTerm(B, Y, Z, a, P, T, z, s, h, R, B1, Z1, a1, T1) ==
  /\ B \in Int /\ Y \in Int /\ Z \in Int /\ a \in Int /\ P \in Int /\ T \in Int
  /\ z \in Int /\ s \in Int /\ h \in Int /\ R \in Int
  /\ B1 \in Int /\ Z1 \in Int /\ a1 \in Int /\ T1 \in Int
  /\ StandFor(B, Y, Z, a, P, T)
  /\ Loses(B1, B, z, s) /\ Gains(a1, a, z, h) /\ Gains(Z1, Z, z, R)
  /\ GainsTerm(T1, T, z, s, h, P, R)

LEMMA TermAccumulates ==
  ASSUME NEW B, NEW Y, NEW Z, NEW a, NEW P, NEW T, NEW z, NEW s, NEW h, NEW R,
         NEW B1, NEW Z1, NEW a1, NEW T1,
         OneMoreTerm(B, Y, Z, a, P, T, z, s, h, R, B1, Z1, a1, T1)
  PROVE  StandFor(B1, Y, Z1, a1, P, T1)
<1> USE DEF OneMoreTerm
<1>1. PICK i \in Int : B * 8 + Y + Z + a * P = T + i * L
  BY DEF Cong, StandFor
<1>2. PICK j \in Int : B1 = B - z * s + j * L
  BY DEF Cong, Loses
<1>3. PICK k \in Int : a1 = a + z * h + k * L
  BY DEF Cong, Gains
<1>4. PICK l \in Int : Z1 = Z + z * R + l * L
  BY DEF Cong, Gains
<1>5. PICK m \in Int : T1 = T + z * (R + (h * P - 8 * s)) + m * L
  BY DEF Cong, GainsTerm
<1>6. L \in Int
  BY OrderPositive
<1> DEFINE zs == z * s
           zR == z * R
           zhP == (z * h) * P
           aP == a * P
           kP == k * P
           e == i + 8 * j + kP + l - m
<1>7. zs \in Int /\ zR \in Int /\ zhP \in Int /\ aP \in Int /\ kP \in Int /\ e \in Int
  OBVIOUS
<1>8. a1 * P = aP + zhP + kP * L
  <2>1. a1 * P = (a + z * h + k * L) * P
    BY <1>3
  <2>2. (a + z * h + k * L) * P = a * P + (z * h) * P + (k * P) * L
    BY <1>6
  <2>3. QED BY <2>1, <2>2
<1>9. z * (R + (h * P - 8 * s)) = zR + zhP - 8 * zs
  <2>1. z * (R + (h * P - 8 * s)) = z * R + z * (h * P) - 8 * (z * s)
    OBVIOUS
  <2>2. z * (h * P) = (z * h) * P
    OBVIOUS
  <2>3. QED BY <2>1, <2>2
<1> DEFINE iL == i * L
           jL == j * L
           kL == kP * L
           lL == l * L
           mL == m * L
<1>10. iL \in Int /\ jL \in Int /\ kL \in Int /\ lL \in Int /\ mL \in Int
  BY <1>6, <1>7
<1>11. e * L = iL + 8 * jL + kL + lL - mL
  <2> HIDE DEF kP
  <2>1. kP \in Int
    BY <1>7
  <2>2. QED BY <1>6, <2>1
<1>12. /\ B * 8 + Y + Z + aP = T + iL
       /\ B1 = B - zs + jL
       /\ Z1 = Z + zR + lL
       /\ T1 = T + (zR + zhP - 8 * zs) + mL
       /\ a1 * P = aP + zhP + kL
  BY <1>1, <1>2, <1>4, <1>5, <1>8, <1>9
<1>13. B1 * 8 + Y + Z1 + a1 * P = T1 + (iL + 8 * jL + kL + lL - mL)
  <2> DEFINE w == a1 * P
  <2>1. w = aP + zhP + kL
    BY <1>12
  <2> HIDE DEF zs, zR, zhP, aP, kP, iL, jL, kL, lL, mL, w
  <2>2. B1 * 8 + Y + Z1 + w = T1 + (iL + 8 * jL + kL + lL - mL)
    BY <1>7, <1>10, <1>12, <2>1
  <2>3. QED BY <2>2 DEF w
<1>14. B1 * 8 + Y + Z1 + a1 * P = T1 + e * L
  BY <1>11, <1>13
<1>15. QED BY <1>7, <1>14 DEF Cong, StandFor

LEMMA KeyAccumulates ==
  ASSUME NEW B \in Int, NEW Y \in Int, NEW Z \in Int, NEW aP \in Int,
         NEW T \in Int, Cong(B * 8 + Y + Z + aP, T, L),
         NEW Y1 \in Int, Cong(Y1, Y + aP, L)
  PROVE  Cong(B * 8 + Y1 + Z + 0, T, L)
<1>1. PICK i \in Int : B * 8 + Y + Z + aP = T + i * L
  BY DEF Cong
<1>2. PICK j \in Int : Y1 = Y + aP + j * L
  BY DEF Cong
<1>3. L \in Int /\ i * L \in Int /\ j * L \in Int /\ (i + j) * L = i * L + j * L
  BY OrderPositive
<1> DEFINE iL == i * L
           jL == j * L
<1>4. /\ iL \in Int /\ jL \in Int /\ B * 8 + Y + Z + aP = T + iL
      /\ Y1 = Y + aP + jL /\ (i + j) * L = iL + jL
  BY <1>1, <1>2, <1>3
<1> HIDE DEF iL, jL
<1>5. B * 8 + Y1 + Z + 0 = T + (i + j) * L /\ i + j \in Int
  BY <1>4
<1>6. QED BY <1>5 DEF Cong

LEMMA PairsEmpty ==
  ASSUME NEW s, Len(s) = 0, NEW V
  PROVE  \E f : Pairs(f, s, {}, V)
<1> DEFINE f == [k \in 1 .. 0 |-> 0]
<1>1. Pairs(f, s, {}, V)
  BY DEF Pairs
<1>2. QED BY <1>1

(* Every place of the hash map holds an item that was queued. *)
LEMMA QueuedAt ==
  ASSUME QueueInv, NEW a \in DOMAIN signatures, NEW i \in 1 .. Len(signatures[a]),
         signatures[a] \in Seq(Items)
  PROVE  /\ \E k \in DOMAIN queued : queued[k] = signatures[a][i]
         /\ signatures[a][i] \in Items /\ signatures[a][i].A = a
<1>1. Len(signatures[a]) \in Nat
  BY LenProperties
<1>2. <<a, i>> \in Slots /\ Held[<<a, i>>] = signatures[a][i]
  BY <1>1 DEF Slots, Held
<1>3. PICK f : Pairs(f, queued, Slots, Held)
  BY DEF QueueInv
<1>4. PICK k \in 1 .. Len(queued) : f[k] = <<a, i>>
  BY <1>2, <1>3 DEF Pairs
<1>5. queued[k] = signatures[a][i]
  BY <1>2, <1>3, <1>4 DEF Pairs
<1>6. DOMAIN queued = 1 .. Len(queued)
  BY LenProperties DEF QueueInv
<1>7. signatures[a][i] \in Items
  BY ElementOfSeq
<1>8. QED BY <1>5, <1>6, <1>7 DEF QueueInv

LEMMA SameSums ==
  ASSUME SumsInv, UNCHANGED <<sums, vk>>
  PROVE  SumsInv'
BY DEF SumsInv, sums, Own, Terms

LEMMA SameQueue ==
  ASSUME QueueInv, UNCHANGED batch
  PROVE  QueueInv'
BY DEF QueueInv, batch, Slots, Held

(* verify() may give up when an invalid item was queued. *)
LEMMA GivesUp ==
  ASSUME Inv, pc # "Done", Return("InvalidSignature"),
         \E k \in DOMAIN queued : ~ IsValid(queued[k])
  PROVE  Inv'
<1>1. TypeOK' 
  BY DEF Inv, TypeOK, Return, batch, sums
<1>2. QueueInv'
  BY SameQueue DEF Inv, Return
<1>3. WalkInv'
  BY DEF Inv, WalkInv, Return, sums
<1>4. SumsInv'
  BY SameSums DEF Inv, Return
<1>5. VerdictInv'
  BY DEF VerdictInv, ValidBatchIsAccepted, InvalidIsRejected, Return, batch
<1>6. QED BY <1>1, <1>2, <1>3, <1>4, <1>5 DEF Inv

LEMMA InitInv == Init => Inv
<1> SUFFICES ASSUME Init
             PROVE  Inv
  OBVIOUS
<1>1. /\ signatures = <<>> /\ batch_size = 0 /\ pc = "Queueing" /\ todo = {}
      /\ vk = NoKey /\ sigs = <<>> /\ A_coeff = 0 /\ A_coeffs = <<>> /\ As = <<>>
      /\ R_coeffs = <<>> /\ Rs = <<>> /\ B_coeff = 0 /\ result = "Pending"
      /\ queued = <<>> /\ drawn = <<>>
  BY DEF Init
<1>2. /\ \A S : <<>> \in Seq(S)
      /\ Len(<<>>) = 0 /\ DOMAIN <<>> = {}
  BY EmptySeq
<1>3. NoKey \in Encodings /\ ~ IsDecodable(NoKey) /\ 0 \in 0 .. L - 1
  BY OrderPositive DEF NoKey, Encodings, IsDecodable, Undecodable, Points
<1>4. TypeOK
  BY <1>1, <1>2, <1>3, BatchAssumption DEF TypeOK
<1>5. QueueInv
  <2>1. Slots = {}
    BY <1>1, <1>2 DEF Slots
  <2>2. \E f : Pairs(f, queued, Slots, Held)
    BY <1>1, <1>2, <2>1, PairsEmpty
  <2>3. QED BY <1>1, <1>2, <2>2 DEF QueueInv
<1>6. WalkInv
  BY <1>1, <1>2 DEF WalkInv
<1>7. SumsInv
  <2>1. Terms = <<>>
    <3>1. WalkInv => Terms \in Seq(Points) /\ Len(Terms) = Len(drawn)
      BY TermsType
    <3>2. Terms \in Seq(Points) /\ Len(Terms) = 0
      BY <1>1, <1>2, <1>6, <3>1
    <3>3. QED BY <3>2, EmptySeq
  <2>2. PointSum(Terms) = 0 /\ Own = 0 /\ MultiscalarMul(<<>>, <<>>) = 0
    BY <1>1, <1>3, <2>1, PointSumEmpty, MultiscalarEmpty DEF Own
  <2>3. 0 * 8 + 0 + 0 + 0 = 0 /\ Cong(0, 0, L)
    BY OrderPositive, CongRefl
  <2>4. QED BY <1>1, <2>2, <2>3 DEF SumsInv
<1>8. VerdictInv
  BY <1>1 DEF VerdictInv, ValidBatchIsAccepted, InvalidIsRejected
<1>9. QED BY <1>4, <1>5, <1>6, <1>7, <1>8 DEF Inv

-----------------------------------------------------------------------------
LEMMA QueueInvariant ==
  ASSUME Inv, NEW q \in Items, Queue(q)
  PROVE  Inv'
<1> DEFINE D == DOMAIN signatures
           before == IF q.A \in D THEN signatures[q.A] ELSE <<>>
           after == Append(before, q)
           e == <<q.A, Len(before) + 1>>
<1>1. /\ TypeOK /\ QueueInv /\ WalkInv /\ SumsInv /\ VerdictInv
      /\ pc = "Queueing" /\ Len(queued) < MaxBatch
      /\ signatures' = [a \in D \cup {q.A} |-> IF a = q.A THEN after ELSE signatures[a]]
      /\ batch_size' = batch_size + 1 /\ queued' = Append(queued, q)
      /\ UNCHANGED <<pc, todo, vk, sigs, sums, result>>
  BY DEF Inv, Queue
<1>2. /\ \A a \in D : signatures[a] \in Seq(Items) /\ Len(signatures[a]) \in Nat
      /\ D \subseteq Encodings /\ todo \subseteq D
      /\ queued \in Seq(Items) /\ Len(queued) = batch_size /\ batch_size \in 0 .. MaxBatch
  BY <1>1, LenProperties DEF TypeOK, QueueInv
<1>3. /\ before \in Seq(Items) /\ Len(before) \in Nat
      /\ \A i \in 1 .. Len(before) : before[i].A = q.A
      /\ q.A \in Encodings
  <2>1. q.A \in Encodings
    BY BatchAssumption
  <2>2. CASE q.A \in D
    BY <1>1, <1>2, <2>1, <2>2 DEF QueueInv
  <2>3. CASE q.A \notin D
    BY <2>1, <2>3, EmptySeq
  <2>4. QED BY <2>2, <2>3
<1>4. /\ after \in Seq(Items) /\ Len(after) = Len(before) + 1 /\ after # <<>>
      /\ after[Len(before) + 1] = q
      /\ \A i \in 1 .. Len(before) : after[i] = before[i]
  <2> HIDE DEF before
  <2>1. QED BY <1>3, AppendProperties
<1>5. /\ queued' \in Seq(Items) /\ Len(queued') = Len(queued) + 1
      /\ Len(queued) \in Nat
  BY <1>1, <1>2, AppendProperties, LenProperties
<1>6. /\ DOMAIN signatures' = D \cup {q.A}
      /\ signatures'[q.A] = after
      /\ \A a \in D : a # q.A => signatures'[a] = signatures[a]
      /\ q.A \in D => before = signatures[q.A]
      /\ q.A \notin D => Len(before) = 0
  BY <1>1, EmptySeq
<1> HIDE DEF after, before
<1>7. TypeOK'
  <2>1. DOMAIN signatures' \subseteq Encodings /\ todo \subseteq DOMAIN signatures'
    BY <1>2, <1>3, <1>6
  <2>2. \A a \in DOMAIN signatures' : signatures'[a] \in Seq(Items)
    BY <1>2, <1>4, <1>6
  <2>3. batch_size' \in 0 .. MaxBatch
    BY <1>1, <1>2, BatchAssumption
  <2>4. QED BY <1>1, <2>1, <2>2, <2>3 DEF TypeOK, sums
<1>8. /\ Slots' = Slots \cup {e} /\ e \notin Slots
      /\ Held'[e] = q /\ \A d \in Slots : Held'[d] = Held[d]
  <2>1. \A d : d \in Slots <=>
                 /\ d = <<d[1], d[2]>> /\ d[1] \in D /\ d[2] \in Nat \ {0}
                 /\ d[2] <= Len(signatures[d[1]])
    BY DEF Slots
  <2>2. \A d : d \in Slots' <=>
                 /\ d = <<d[1], d[2]>> /\ d[1] \in D \cup {q.A} /\ d[2] \in Nat \ {0}
                 /\ d[2] <= Len(signatures'[d[1]])
    BY <1>6 DEF Slots
  <2>3. e[1] = q.A /\ e[2] = Len(before) + 1 /\ e = <<e[1], e[2]>>
    OBVIOUS
  <2>4. e \in Slots'
    BY <1>3, <1>4, <1>6, <2>2, <2>3
  <2>5. e \notin Slots
    <3>1. SUFFICES ASSUME e \in Slots PROVE FALSE
      OBVIOUS
    <3>2. e[1] \in D /\ e[2] <= Len(signatures[e[1]])
      BY <2>1, <3>1
    <3>3. QED BY <1>3, <1>6, <2>3, <3>2
  <2>6. ASSUME NEW d \in Slots
        PROVE  d \in Slots' /\ Held'[d] = Held[d]
    <3>1. /\ d = <<d[1], d[2]>> /\ d[1] \in D /\ d[2] \in Nat \ {0}
          /\ d[2] <= Len(signatures[d[1]])
      BY <2>1
    <3>2. CASE d[1] = q.A
      <4>1. before = signatures[q.A] /\ d[2] \in 1 .. Len(before) /\ d[2] <= Len(after)
        BY <1>3, <1>4, <1>6, <3>1, <3>2
      <4>2. d \in Slots'
        BY <1>6, <2>2, <3>1, <3>2, <4>1
      <4>3. Held'[d] = signatures'[d[1]][d[2]] /\ Held[d] = signatures[d[1]][d[2]]
        BY <4>2 DEF Held
      <4>4. QED BY <1>4, <1>6, <3>2, <4>1, <4>2, <4>3
    <3>3. CASE d[1] # q.A
      <4>1. d \in Slots'
        BY <1>6, <2>2, <3>1, <3>3
      <4>2. Held'[d] = signatures'[d[1]][d[2]] /\ Held[d] = signatures[d[1]][d[2]]
        BY <4>1 DEF Held
      <4>3. QED BY <1>6, <3>1, <3>3, <4>1, <4>2
    <3>4. QED BY <3>2, <3>3
  <2>7. ASSUME NEW d \in Slots'
        PROVE  d \in Slots \cup {e}
    <3>1. /\ d = <<d[1], d[2]>> /\ d[1] \in D \cup {q.A} /\ d[2] \in Nat \ {0}
          /\ d[2] <= Len(signatures'[d[1]])
      BY <2>2
    <3>2. CASE d[1] = q.A
      <4>1. d[2] <= Len(before) + 1
        BY <1>4, <1>6, <3>1, <3>2
      <4>2. CASE d[2] = Len(before) + 1
        BY <3>1, <3>2, <4>2
      <4>3. CASE d[2] # Len(before) + 1
        <5>1. d[2] <= Len(before)
          BY <1>3, <3>1, <4>1, <4>3
        <5>2. q.A \in D
          BY <1>6, <3>1, <5>1
        <5>3. d \in Slots
          BY <1>6, <2>1, <3>1, <3>2, <5>1, <5>2
        <5>4. QED BY <5>3
      <4>4. QED BY <4>2, <4>3
    <3>3. CASE d[1] # q.A
      <4>1. d \in Slots
        BY <1>6, <2>1, <3>1, <3>3
      <4>2. QED BY <4>1
    <3>4. QED BY <3>2, <3>3
  <2>8. Held'[e] = q
    <3>1. Held'[e] = signatures'[e[1]][e[2]]
      BY <2>4 DEF Held
    <3>2. QED BY <1>4, <1>6, <2>3, <3>1
  <2>9. Slots' = Slots \cup {e}
    BY <2>4, <2>6, <2>7
  <2>10. QED BY <2>5, <2>6, <2>8, <2>9
<1>9. QueueInv'
  <2>1. PICK f : Pairs(f, queued, Slots, Held)
    BY <1>1 DEF QueueInv
  <2>2. \E g : Pairs(g, Append(queued, q), Slots \cup {e}, Held')
    <3> HIDE DEF e
    <3>1. QED BY <1>2, <1>8, <2>1, PairsExtend
  <2>3. \E g : Pairs(g, queued', Slots', Held')
    BY <1>1, <1>8, <2>2
  <2>4. ASSUME NEW a \in DOMAIN signatures'
        PROVE  /\ signatures'[a] # <<>>
               /\ \A i \in 1 .. Len(signatures'[a]) : signatures'[a][i].A = a
    <3>1. CASE a = q.A
      <4>1. \A i \in 1 .. Len(after) : i = Len(before) + 1 \/ i \in 1 .. Len(before)
        BY <1>3, <1>4
      <4>2. QED BY <1>3, <1>4, <1>6, <3>1, <4>1
    <3>2. CASE a # q.A
      BY <1>1, <1>6, <3>2 DEF QueueInv
    <3>3. QED BY <3>1, <3>2
  <2>5. Len(queued') = batch_size'
    BY <1>1, <1>2, <1>5
  <2>6. QED BY <1>5, <2>3, <2>4, <2>5 DEF QueueInv
<1>10. WalkInv'
  BY <1>1 DEF WalkInv, sums
<1>11. SumsInv'
  BY <1>1, SameSums
<1>12. VerdictInv'
  BY <1>1 DEF VerdictInv, WalkInv, ValidBatchIsAccepted, InvalidIsRejected
<1>13. QED BY <1>7, <1>9, <1>10, <1>11, <1>12 DEF Inv

LEMMA StartInvariant ==
  ASSUME Inv, StartVerify
  PROVE  Inv'
<1>1. /\ TypeOK /\ QueueInv /\ WalkInv /\ SumsInv /\ VerdictInv
      /\ pc = "Queueing" /\ pc' = "Keys" /\ todo' = DOMAIN signatures
      /\ UNCHANGED <<batch, vk, sigs, sums, result>>
  BY DEF Inv, StartVerify
<1>2. drawn = <<>> /\ vk = NoKey /\ result = "Pending" /\ drawn' = drawn
      /\ signatures' = signatures /\ vk' = vk /\ result' = result
  BY <1>1 DEF WalkInv, sums, batch
<1>3. TypeOK'
  BY <1>1 DEF TypeOK, batch, sums
<1>4. QueueInv'
  BY <1>1, SameQueue
<1>5. WalkInv'
  <2>1. ReadSlots' = {}
    BY <1>1, <1>2 DEF ReadSlots, Slots
  <2>2. Len(ItemsRead') = 0
    <3>1. Len(drawn') = 0
      BY <1>2, EmptySeq
    <3>2. ItemsRead' = [k \in 1 .. 0 |-> drawn'[k].item]
      BY <3>1 DEF ItemsRead
    <3>3. QED BY <3>2
  <2>3. \E g : Pairs(g, ItemsRead', ReadSlots', Held')
    BY <2>1, <2>2, PairsEmpty
  <2>4. DOMAIN signatures' \ todo' = {}
    BY <1>1, <1>2
  <2>5. QED BY <1>1, <1>2, <2>3, <2>4 DEF WalkInv
<1>6. SumsInv'
  BY <1>1, SameSums
<1>7. VerdictInv'
  BY <1>1, <1>2 DEF VerdictInv, ValidBatchIsAccepted, InvalidIsRejected
<1>8. QED BY <1>3, <1>4, <1>5, <1>6, <1>7 DEF Inv

-----------------------------------------------------------------------------
LEMMA NextKeyInvariant ==
  ASSUME Inv, NEW a \in todo, NextKey(a)
  PROVE  Inv'
<1>1. /\ TypeOK /\ QueueInv /\ WalkInv /\ SumsInv /\ VerdictInv /\ pc = "Keys"
  BY DEF Inv, NextKey
<1>2. /\ a \in DOMAIN signatures /\ a \in Encodings
      /\ signatures[a] \in Seq(Items) /\ signatures[a] # <<>>
      /\ vk = NoKey
  BY <1>1 DEF TypeOK, QueueInv, WalkInv
<1>3. CASE ~ IsDecodable(a)
  <2>1. Return("InvalidSignature")
    BY <1>3 DEF NextKey
  <2>2. 1 \in 1 .. Len(signatures[a])
    BY <1>2, EmptySeq, LenProperties
  <2>3. PICK k \in DOMAIN queued : queued[k].A = a
    BY <1>1, <1>2, <2>2, QueuedAt
  <2>4. ~ IsValid(queued[k])
    BY <1>3, <2>3 DEF IsValid, Verdict
  <2>5. QED BY <1>1, <2>1, <2>4, GivesUp
<1>4. CASE IsDecodable(a)
  <2>1. /\ pc' = "Signatures" /\ todo' = todo \ {a} /\ vk' = a
        /\ sigs' = signatures[a] /\ A_coeff' = 0
        /\ UNCHANGED <<batch, A_coeffs, As, R_coeffs, Rs, B_coeff, drawn, result>>
    BY <1>4 DEF NextKey
  <2>2. TypeOK'
    BY <1>1, <1>2, <2>1, OrderPositive DEF TypeOK, batch
  <2>3. QueueInv'
    BY <1>1, <2>1, SameQueue
  <2>4. /\ Slots' = Slots /\ Held' = Held /\ ItemsRead' = ItemsRead
        /\ signatures' = signatures
    BY <2>1 DEF batch, Slots, Held, ItemsRead
  <2>5. ~ IsDecodable(NoKey)
    BY OrderPositive DEF NoKey, IsDecodable, Undecodable, Points
  <2>6. \A b \in DOMAIN signatures \ todo : IsDecodable(b)
    BY <1>1 DEF WalkInv
  <2>7. \A e \in Slots : /\ e[1] \in DOMAIN signatures /\ e[2] \in Nat \ {0}
                         /\ e[2] <= Len(signatures[e[1]])
    BY DEF Slots
  <2>8. Len(signatures[a]) \in Nat
    BY <1>2, LenProperties
  <2>9. ASSUME NEW e \in Slots
        PROVE  (e \in ReadSlots) <=> (e \in ReadSlots')
    <3>1. (e \in ReadSlots) <=> e[1] \notin todo
      BY <1>2, <2>5, <2>6, <2>7 DEF ReadSlots
    <3>2. (e \in ReadSlots') <=>
            /\ e[1] \notin todo \ {a}
            /\ e[1] = a => e[2] + Len(signatures[a]) <= Len(signatures[a])
      BY <2>1, <2>4 DEF ReadSlots
    <3>3. ~ (e[2] + Len(signatures[a]) <= Len(signatures[a]))
      BY <2>7, <2>8
    <3>4. QED BY <3>1, <3>2, <3>3
  <2>10. ReadSlots' = ReadSlots
    <3>1. ReadSlots \subseteq Slots /\ ReadSlots' \subseteq Slots
      BY <2>4 DEF ReadSlots
    <3>2. QED BY <2>9, <3>1
  <2>11. WalkInv'
    <3>1. \E g : Pairs(g, ItemsRead', ReadSlots', Held')
      BY <1>1, <2>4, <2>10 DEF WalkInv
    <3>2. \A i \in 1 .. Len(sigs') :
            sigs'[i] = signatures'[vk'][i + (Len(signatures'[vk']) - Len(sigs'))]
      BY <2>1, <2>4, <2>8
    <3>3. /\ vk' \in DOMAIN signatures' \ todo' /\ Len(sigs') <= Len(signatures'[vk'])
          /\ \A b \in DOMAIN signatures' \ todo' : IsDecodable(b)
      BY <1>2, <1>4, <2>1, <2>4, <2>6, <2>8
    <3>4. /\ drawn' \in Seq([item : Items, z : Draws])
          /\ \A k \in 1 .. Len(drawn') :
               IsDecodable(drawn'[k].item.A) /\ Readable(drawn'[k].item)
          /\ result' = "Pending"
      BY <1>1, <2>1 DEF WalkInv
    <3>5. QED BY <2>1, <3>1, <3>2, <3>3, <3>4 DEF WalkInv
  <2>12. SumsInv'
    <3>1. Own = 0
      BY <1>2, <2>5 DEF Own
    <3>2. Own' = 0
      <4>1. Own' = 0 * a.point
        BY <1>4, <2>1 DEF Own
      <4>2. a.point \in Int
        BY <1>4 DEF IsDecodable, Points
      <4>3. QED BY <4>1, <4>2
    <3>3. QED BY <1>1, <2>1, <3>1, <3>2 DEF SumsInv, Terms
  <2>13. VerdictInv'
    BY <1>1, <2>1 DEF VerdictInv, WalkInv, ValidBatchIsAccepted, InvalidIsRejected
  <2>14. QED BY <2>2, <2>3, <2>11, <2>12, <2>13 DEF Inv
<1>5. QED BY <1>3, <1>4

LEMMA CheckInvariant ==
  ASSUME Inv, Check
  PROVE  Inv'
<1> DEFINE r == IF IsIdentity(MulByCofactor(CheckPoint)) THEN "Ok" ELSE "InvalidSignature"
<1>1. /\ TypeOK /\ QueueInv /\ WalkInv /\ SumsInv /\ VerdictInv
      /\ pc = "Keys" /\ todo = {} /\ Return(r)
  BY DEF Inv, Check
<1>2. /\ result' = r /\ pc' = "Done" /\ r \in {"Ok", "InvalidSignature"}
      /\ UNCHANGED <<batch, todo, vk, sigs, sums>>
  BY <1>1 DEF Return
<1>3. TypeOK'
  <2> HIDE DEF r
  <2>1. QED BY <1>1, <1>2 DEF TypeOK, batch, sums
<1>4. QueueInv'
  BY <1>1, <1>2, SameQueue
<1>5. WalkInv'
  <2> HIDE DEF r
  <2>1. QED BY <1>1, <1>2 DEF WalkInv, sums
<1>6. SumsInv'
  BY <1>1, <1>2, SameSums
<1>7. VerdictInv'
  <2>1. queued' = queued /\ drawn' = drawn
    BY <1>2 DEF batch, sums
  <2>2. ValidBatchIsAccepted'
    <3>1. (\A i \in DOMAIN queued : IsValid(queued[i])) => r = "Ok"
      BY <1>1, VerdictIsRight
    <3> HIDE DEF r
    <3>2. QED BY <1>2, <2>1, <3>1 DEF ValidBatchIsAccepted
  <2>3. InvalidIsRejected'
    <3>1. /\ Len(drawn) = Len(queued)
          /\ \A i \in DOMAIN queued : IsDecodable(queued[i].A) /\ Readable(queued[i])
          /\ r = "Ok" /\ Cardinality({i \in DOMAIN queued : ~ IsValid(queued[i])}) = 1
               => \E i \in DOMAIN drawn : ~ IsValid(drawn[i].item) /\ drawn[i].z = 0
      BY <1>1, VerdictIsRight
    <3> HIDE DEF r
    <3>2. QED BY <1>2, <2>1, <3>1 DEF InvalidIsRejected
  <2>4. QED BY <1>2, <2>2, <2>3 DEF VerdictInv
<1>8. QED BY <1>3, <1>4, <1>5, <1>6, <1>7 DEF Inv

LEMMA FinishInvariant ==
  ASSUME Inv, FinishKey
  PROVE  Inv'
<1>1. /\ TypeOK /\ QueueInv /\ WalkInv /\ SumsInv /\ VerdictInv
      /\ pc = "Signatures" /\ sigs = <<>>
      /\ As' = Append(As, Decompress(vk)) /\ A_coeffs' = Append(A_coeffs, A_coeff)
      /\ pc' = "Keys" /\ vk' = NoKey /\ A_coeff' = 0
      /\ UNCHANGED <<batch, todo, sigs, R_coeffs, Rs, B_coeff, drawn, result>>
  BY DEF Inv, FinishKey
<1>2. /\ vk \in DOMAIN signatures \ todo /\ IsDecodable(vk)
      /\ \A b \in DOMAIN signatures \ todo : IsDecodable(b)
  BY <1>1 DEF WalkInv
<1> DEFINE P == vk.point
           a == A_coeff
<1>3. P \in Points /\ P \in Int /\ Decompress(vk) = P /\ Own = a * P
  BY <1>2 DEF IsDecodable, Points, Decompress, Own
<1>4. ~ IsDecodable(NoKey) /\ NoKey \in Encodings
  BY OrderPositive DEF NoKey, IsDecodable, Undecodable, Points, Encodings
<1>5. /\ A_coeff \in 0 .. L - 1 /\ A_coeffs \in Seq(0 .. L - 1) /\ As \in Seq(Points)
      /\ Len(A_coeffs) = Len(As) /\ Len(R_coeffs) = Len(Rs)
  BY <1>1 DEF TypeOK, SumsInv
<1>6. /\ A_coeffs' \in Seq(0 .. L - 1) /\ Len(A_coeffs') = Len(A_coeffs) + 1
      /\ As' \in Seq(Points) /\ Len(As') = Len(As) + 1
  <2>1. A_coeffs' \in Seq(0 .. L - 1) /\ Len(A_coeffs') = Len(A_coeffs) + 1
    BY <1>1, <1>5, AppendProperties
  <2>2. As' = Append(As, P)
    BY <1>1, <1>3
  <2> HIDE DEF P
  <2>3. As' \in Seq(Points) /\ Len(As') = Len(As) + 1
    BY <1>3, <1>5, <2>2, AppendProperties
  <2>4. QED BY <2>1, <2>3
<1>7. TypeOK'
  BY <1>1, <1>4, <1>6, OrderPositive DEF TypeOK, batch
<1>8. QueueInv'
  BY <1>1, SameQueue
<1>9. WalkInv'
  <2>1. /\ Slots' = Slots /\ Held' = Held /\ ItemsRead' = ItemsRead
        /\ signatures' = signatures
    BY <1>1 DEF batch, Slots, Held, ItemsRead
  <2>2. Len(sigs) = 0
    BY <1>1, EmptySeq
  <2>3. \A e \in Slots : /\ e[1] \in DOMAIN signatures /\ e[2] \in Nat \ {0}
                         /\ e[2] <= Len(signatures[e[1]])
    BY DEF Slots
  <2>4. ASSUME NEW e \in Slots
        PROVE  (e \in ReadSlots) <=> (e \in ReadSlots')
    <3>1. e[2] + Len(sigs) = e[2]
      BY <2>2, <2>3
    <3>2. (e \in ReadSlots) <=> e[1] \notin todo
      BY <2>3, <3>1 DEF ReadSlots
    <3>3. e[1] \notin todo => e[1] # NoKey
      BY <1>2, <1>4, <2>3
    <3>4. (e \in ReadSlots') <=> e[1] \notin todo
      BY <1>1, <2>1, <3>3 DEF ReadSlots
    <3>5. QED BY <3>2, <3>4
  <2>5. ReadSlots' = ReadSlots
    <3>1. ReadSlots \subseteq Slots /\ ReadSlots' \subseteq Slots
      BY <2>1 DEF ReadSlots
    <3>2. QED BY <2>4, <3>1
  <2>6. QED BY <1>1, <2>1, <2>5 DEF WalkInv
<1>10. SumsInv'
  <2> DEFINE B == B_coeff
             Y == MultiscalarMul(A_coeffs, As)
             Z == MultiscalarMul(R_coeffs, Rs)
             T == PointSum(Terms)
             Y1 == MultiscalarMul(Append(A_coeffs, a), Append(As, P))
  <2>1. /\ a \in Int /\ B \in Int /\ Y \in Int /\ Z \in Int /\ T \in Int
        /\ A_coeffs \in Seq(Int)
    BY <1>1, <1>5, SumTypes, TermsType
  <2>2. Cong(B * 8 + Y + Z + a * P, T, L)
    BY <1>1, <1>3 DEF SumsInv
  <2>3. Y1 \in Int
    <3> DEFINE c == Append(A_coeffs, a)
               p == Append(As, P)
    <3>1. c \in Seq(Int) /\ Len(c) = Len(A_coeffs) + 1
      <4> HIDE DEF a
      <4>1. QED BY <2>1, AppendProperties
    <3>2. p \in Seq(Points) /\ Len(p) = Len(As) + 1
      <4> HIDE DEF P
      <4>1. QED BY <1>3, <1>5, AppendProperties
    <3> HIDE DEF c, p
    <3>3. MultiscalarMul(c, p) \in Int
      BY <1>5, <3>1, <3>2, MultiscalarType
    <3>4. QED BY <3>3 DEF c, p
  <2> HIDE DEF a, P, B, Z, T
  <2>4. Cong(Y1, Y + a * P, 8 * L)
    <3> HIDE DEF Y1
    <3>1. QED BY <1>3, <1>5, <2>1, MultiscalarAppend DEF Y1
  <2>5. a * P \in Int
    BY <1>3, <2>1
  <2> DEFINE aP == a * P
  <2> HIDE DEF Y, Y1, aP
  <2>6. aP \in Int /\ Cong(Y1, Y + aP, 8 * L) /\ Cong(B * 8 + Y + Z + aP, T, L)
        /\ Y + aP \in Int
    BY <2>1, <2>2, <2>4, <2>5 DEF aP
  <2>7. Cong(Y1, Y + aP, L)
    BY <2>3, <2>6, CongWeaken
  <2>8. Cong(B * 8 + Y1 + Z + 0, T, L)
    BY <2>1, <2>3, <2>6, <2>7, KeyAccumulates
  <2>9. /\ B' = B /\ Z' = Z /\ T' = T /\ Own' = 0
        /\ MultiscalarMul(A_coeffs', As') = Y1
    BY <1>1, <1>3, <1>4 DEF B, Z, T, Terms, Own, Y1, a
  <2>10. Len(A_coeffs') = Len(As') /\ Len(R_coeffs') = Len(Rs')
    BY <1>1, <1>5, <1>6
  <2>11. Cong(B_coeff' * 8 + MultiscalarMul(A_coeffs', As')
                + MultiscalarMul(R_coeffs', Rs') + Own', PointSum(Terms'), L)
    BY <2>8, <2>9 DEF B, Z, T
  <2>12. QED BY <2>10, <2>11 DEF SumsInv
<1>11. VerdictInv'
  BY <1>1 DEF VerdictInv, WalkInv, ValidBatchIsAccepted, InvalidIsRejected
<1>12. QED BY <1>7, <1>8, <1>9, <1>10, <1>11 DEF Inv

-----------------------------------------------------------------------------
(* The signature verify() is about to read. *)
LEMMA HeadFacts ==
  ASSUME Inv, pc = "Signatures", sigs # <<>>
  PROVE  /\ vk \in DOMAIN signatures /\ vk \notin todo
         /\ signatures[vk] \in Seq(Items) /\ Len(signatures[vk]) \in Nat
         /\ Len(sigs) \in 1 .. Len(signatures[vk])
         /\ Head(sigs) = signatures[vk][(Len(signatures[vk]) - Len(sigs)) + 1]
         /\ (Len(signatures[vk]) - Len(sigs)) + 1 \in 1 .. Len(signatures[vk])
         /\ Head(sigs) \in Items /\ Head(sigs).A = vk /\ IsDecodable(vk)
         /\ \E k \in DOMAIN queued : queued[k] = Head(sigs)
         /\ Tail(sigs) \in Seq(Items) /\ Len(Tail(sigs)) = Len(sigs) - 1
         /\ \A i \in 1 .. Len(sigs) - 1 : Tail(sigs)[i] = sigs[i + 1]
<1> DEFINE n == Len(signatures[vk])
           m == Len(sigs)
<1>1. TypeOK /\ QueueInv /\ WalkInv
  BY DEF Inv
<1>2. /\ vk \in DOMAIN signatures /\ vk \notin todo /\ IsDecodable(vk)
      /\ m <= n /\ \A i \in 1 .. m : sigs[i] = signatures[vk][i + (n - m)]
  BY <1>1 DEF WalkInv
<1>3. signatures[vk] \in Seq(Items) /\ sigs \in Seq(Items)
  BY <1>1, <1>2 DEF TypeOK
<1>4. /\ n \in Nat /\ m \in Nat /\ m # 0 /\ Head(sigs) = sigs[1]
      /\ Tail(sigs) \in Seq(Items) /\ Len(Tail(sigs)) = m - 1
      /\ \A i \in 1 .. m - 1 : Tail(sigs)[i] = sigs[i + 1]
  BY <1>3, EmptySeq, LenProperties, HeadTailProperties
<1>5. /\ m \in 1 .. n /\ 1 \in 1 .. m /\ (n - m) + 1 \in 1 .. n
      /\ 1 + (n - m) = (n - m) + 1
  BY <1>2, <1>4
<1>6. Head(sigs) = signatures[vk][(n - m) + 1]
  BY <1>2, <1>4, <1>5
<1>7. /\ \E k \in DOMAIN queued : queued[k] = Head(sigs)
      /\ Head(sigs) \in Items /\ Head(sigs).A = vk
  <2> DEFINE i == (n - m) + 1
  <2>1. i \in 1 .. Len(signatures[vk]) /\ Head(sigs) = signatures[vk][i]
    BY <1>5, <1>6
  <2> HIDE DEF i
  <2>2. QED BY <1>1, <1>2, <1>3, <2>1, QueuedAt
<1>8. QED BY <1>2, <1>3, <1>4, <1>5, <1>6, <1>7

LEMMA AccumulateWalk ==
  ASSUME Inv, pc = "Signatures", sigs # <<>>, Readable(Head(sigs)),
         NEW z \in Draws, Accumulate(Head(sigs), z, A_coeff)
  PROVE  WalkInv'
<1> DEFINE q == Head(sigs)
           n == Len(signatures[vk])
           m == Len(sigs)
           e == <<vk, (n - m) + 1>>
           d == [item |-> q, z |-> z]
<1>1. /\ WalkInv /\ drawn' = Append(drawn, d) /\ sigs' = Tail(sigs)
      /\ signatures' = signatures /\ pc' = pc /\ todo' = todo /\ vk' = vk
      /\ result' = result
  BY DEF Inv, Accumulate, batch
<1>2. /\ vk \in DOMAIN signatures /\ vk \notin todo
      /\ n \in Nat /\ m \in 1 .. n /\ (n - m) + 1 \in 1 .. n
      /\ q = signatures[vk][(n - m) + 1] /\ q \in Items /\ q.A = vk /\ IsDecodable(vk)
      /\ Len(Tail(sigs)) = m - 1
      /\ \A i \in 1 .. m - 1 : Tail(sigs)[i] = sigs[i + 1]
  BY HeadFacts
<1>3. /\ drawn \in Seq([item : Items, z : Draws])
      /\ \A k \in 1 .. Len(drawn) : IsDecodable(drawn[k].item.A) /\ Readable(drawn[k].item)
      /\ result = "Pending"
      /\ \A i \in 1 .. m : sigs[i] = signatures[vk][i + (n - m)]
      /\ \A a \in DOMAIN signatures \ todo : IsDecodable(a)
  BY <1>1 DEF WalkInv
<1>4. /\ drawn' \in Seq([item : Items, z : Draws]) /\ Len(drawn') = Len(drawn) + 1
      /\ drawn'[Len(drawn) + 1] = d /\ \A k \in 1 .. Len(drawn) : drawn'[k] = drawn[k]
      /\ Len(drawn) \in Nat
  <2>1. d \in [item : Items, z : Draws]
    BY <1>2
  <2> HIDE DEF d
  <2>2. QED BY <1>1, <1>3, <2>1, AppendProperties, LenProperties
<1>5. \A k \in 1 .. Len(drawn') :
        IsDecodable(drawn'[k].item.A) /\ Readable(drawn'[k].item)
  <2>1. \A k \in 1 .. Len(drawn') : k = Len(drawn) + 1 \/ k \in 1 .. Len(drawn)
    BY <1>4
  <2>2. IsDecodable(d.item.A) /\ Readable(d.item)
    BY <1>2
  <2> HIDE DEF d
  <2>3. QED BY <1>3, <1>4, <2>1, <2>2
<1>6. \A i \in 1 .. Len(sigs') :
        sigs'[i] = signatures[vk][i + (n - Len(sigs'))]
  <2>1. ASSUME NEW i \in 1 .. m - 1
        PROVE  Tail(sigs)[i] = signatures[vk][i + (n - (m - 1))]
    <3>1. i + 1 \in 1 .. m /\ (i + 1) + (n - m) = i + (n - (m - 1))
      BY <1>2
    <3>2. Tail(sigs)[i] = sigs[i + 1] /\ sigs[i + 1] = signatures[vk][(i + 1) + (n - m)]
      BY <1>2, <1>3, <3>1
    <3>3. QED BY <3>1, <3>2
  <2>2. QED BY <1>1, <1>2, <2>1
<1>7. /\ Slots' = Slots /\ Held' = Held
  BY <1>1 DEF Slots, Held
<1>8. e \in Slots /\ e \notin ReadSlots /\ Held[e] = q
  <2>1. e \in Slots
    BY <1>2 DEF Slots
  <2>2. Held[e] = q
    BY <1>2, <2>1 DEF Held
  <2>3. ~ (((n - m) + 1) + m <= n)
    BY <1>2
  <2>4. e \notin ReadSlots
    BY <2>3 DEF ReadSlots
  <2>5. QED BY <2>1, <2>2, <2>4
<1>9. ReadSlots' = ReadSlots \cup {e}
  <2>1. \A c \in Slots : /\ c = <<c[1], c[2]>> /\ c[1] \in DOMAIN signatures
                         /\ c[2] \in Nat \ {0} /\ c[2] <= Len(signatures[c[1]])
    BY DEF Slots
  <2>2. ASSUME NEW c \in Slots
        PROVE  (c \in ReadSlots') <=> (c \in ReadSlots \/ c = e)
    <3>1. c \in ReadSlots <=> /\ c[1] \notin todo
                              /\ c[1] = vk => c[2] + m <= Len(signatures[c[1]])
      BY DEF ReadSlots
    <3>2. c \in ReadSlots' <=> /\ c[1] \notin todo
                               /\ c[1] = vk => c[2] + (m - 1) <= Len(signatures[c[1]])
      BY <1>1, <1>2, <1>7 DEF ReadSlots
    <3>3. CASE c[1] = vk
      <4>1. /\ c \in ReadSlots <=> c[2] + m <= n
            /\ c \in ReadSlots' <=> c[2] + (m - 1) <= n
        BY <1>2, <3>1, <3>2, <3>3
      <4>2. c = e <=> c[2] = (n - m) + 1
        BY <2>1, <3>3
      <4>3. c[2] \in Nat
        BY <2>1
      <4>4. c[2] + (m - 1) <= n <=> (c[2] + m <= n \/ c[2] = (n - m) + 1)
        BY <1>2, <4>3
      <4>5. QED BY <4>1, <4>2, <4>4
    <3>4. CASE c[1] # vk
      BY <3>1, <3>2, <3>4
    <3>5. QED BY <3>3, <3>4
  <2>3. ReadSlots \subseteq Slots /\ ReadSlots' \subseteq Slots
    BY <1>7 DEF ReadSlots
  <2>4. QED
    <3> HIDE DEF e
    <3>1. QED BY <1>8, <2>2, <2>3
<1>10. \E g : Pairs(g, ItemsRead', ReadSlots', Held')
  <2>1. PICK g : Pairs(g, ItemsRead, ReadSlots, Held)
    BY <1>1 DEF WalkInv
  <2>2. /\ ItemsRead \in Seq(Items) /\ Len(ItemsRead) = Len(drawn)
        /\ \A k \in 1 .. Len(drawn) : ItemsRead[k] = drawn[k].item
    <3>1. \A k \in 1 .. Len(drawn) : drawn[k].item \in Items
      BY <1>1, DrawnFacts
    <3> DEFINE l == Len(drawn)
               t(k) == drawn[k].item
    <3>2. l \in Nat /\ \A k \in 1 .. l : t(k) \in Items
      BY <1>4, <3>1
    <3>3. ItemsRead = [k \in 1 .. l |-> t(k)]
      BY DEF ItemsRead
    <3> HIDE DEF l, t
    <3>4. ItemsRead \in Seq(Items) /\ Len(ItemsRead) = l
      BY <3>2, <3>3, IsASeq
    <3>5. QED BY <3>3, <3>4 DEF l, t
  <2>3. ItemsRead' = Append(ItemsRead, q)
    <3> DEFINE t == Append(ItemsRead, q)
               l == Len(drawn)
    <3>1. /\ t \in Seq(Items) /\ Len(t) = l + 1 /\ t[l + 1] = q
          /\ \A k \in 1 .. l : t[k] = drawn[k].item
      BY <1>2, <2>2, AppendProperties
    <3>2. \A k \in 1 .. l + 1 : t[k] = drawn'[k].item
      <4>1. \A k \in 1 .. l + 1 : k = l + 1 \/ k \in 1 .. l
        BY <1>4
      <4>2. drawn'[l + 1].item = q
        BY <1>4
      <4> HIDE DEF t
      <4>3. QED BY <1>4, <3>1, <4>1, <4>2
    <3>3. t = [k \in 1 .. l + 1 |-> t[k]]
      <4> HIDE DEF t
      <4>1. QED BY <3>1, LenProperties
    <3>4. ItemsRead' = [k \in 1 .. l + 1 |-> drawn'[k].item]
      BY <1>4 DEF ItemsRead
    <3>5. QED
      <4> HIDE DEF t, l
      <4>1. t = ItemsRead'
        BY <3>2, <3>3, <3>4
      <4>2. QED BY <4>1 DEF t
  <2>4. \E h : Pairs(h, Append(ItemsRead, q), ReadSlots \cup {e}, Held)
    <3> HIDE DEF e, q
    <3>1. QED BY <1>2, <1>8, <2>1, <2>2, PairsExtend
  <2>5. QED BY <1>7, <1>9, <2>3, <2>4
<1>11. /\ vk \in DOMAIN signatures \ todo /\ Len(sigs') <= n
  BY <1>1, <1>2
<1>12. QED BY <1>1, <1>3, <1>4, <1>5, <1>6, <1>10, <1>11 DEF WalkInv

LEMMA AccumulateSums ==
  ASSUME Inv, pc = "Signatures", sigs # <<>>, Readable(Head(sigs)),
         NEW z \in Draws, Accumulate(Head(sigs), z, A_coeff)
  PROVE  SumsInv'
<1> DEFINE q == Head(sigs)
           P == vk.point
           R == q.R.point
           s == q.s
           h == q.h
           a == A_coeff
           B == B_coeff
           Y == MultiscalarMul(A_coeffs, As)
           Z == MultiscalarMul(R_coeffs, Rs)
           T == PointSum(Terms)
           d == [item |-> q, z |-> z]
           E == Term(d)
           B1 == (B - z * s) % L
           a1 == (a + z * h) % L
           Z1 == MultiscalarMul(Append(R_coeffs, z), Append(Rs, R))
           T1 == PointSum(Append(Terms, E))
<1>1. /\ TypeOK /\ WalkInv /\ SumsInv
      /\ Len(A_coeffs) = Len(As) /\ Len(R_coeffs) = Len(Rs)
  BY DEF Inv, SumsInv
<1>2. /\ q \in Items /\ q.A = vk /\ IsDecodable(vk)
      /\ P \in Int /\ R \in Int /\ R \in Points /\ s \in Int /\ h \in Int
  <2>1. q \in Items /\ q.A = vk /\ IsDecodable(vk)
    BY HeadFacts
  <2>2. R \in Points
    BY DEF Readable, IsDecodable
  <2> HIDE DEF q
  <2>3. QED BY <2>1, <2>2, ItemFacts
<1>3. L \in Nat /\ L > 0 /\ L \in Int /\ 8 * L \in Int /\ z \in Int
  BY OrderPositive, BatchAssumption
<1>4. /\ a \in Int /\ B \in Int /\ Y \in Int /\ Z \in Int
      /\ R_coeffs \in Seq(Int) /\ Rs \in Seq(Points)
      /\ T \in Int /\ T \in Points /\ Terms \in Seq(Points) /\ Len(Terms) = Len(drawn)
      /\ \A k \in 1 .. Len(drawn) : Terms[k] = Term(drawn[k])
      /\ Len(drawn) \in Nat
  BY <1>1, SumTypes, TermsType
<1>5. Cong(B * 8 + Y + Z + a * P, T, L)
  BY <1>1, <1>2 DEF SumsInv, Own
<1>6. E \in Points /\ E \in Int /\ Cong(E, z * (R + (h * P - 8 * s)), 8 * L)
  <2>1. d.item = q /\ d.z = z
    OBVIOUS
  <2>2. Share(q) = R + (h * P - 8 * s)
    BY <1>2 DEF Share
  <2> HIDE DEF d
  <2>3. E \in Points /\ Cong(E, z * Share(q), 8 * L)
    <3>1. Term(d) \in Points /\ Cong(Term(d), d.z * Share(d.item), 8 * L)
      BY <1>2, <1>3, <2>1, TermCong
    <3> HIDE DEF q
    <3>2. QED BY <2>1, <3>1
  <2>4. QED BY <2>2, <2>3 DEF Points
<1>7. Terms' = Append(Terms, E)
  <2> DEFINE t == Append(Terms, E)
             l == Len(drawn)
  <2>1. drawn' = Append(drawn, d)
    BY DEF Accumulate
  <2>2. /\ Len(drawn') = l + 1 /\ drawn'[l + 1] = d
        /\ \A k \in 1 .. l : drawn'[k] = drawn[k]
    <3>1. drawn \in Seq([item : Items, z : Draws]) /\ d \in [item : Items, z : Draws]
      BY <1>1, <1>2 DEF WalkInv
    <3> HIDE DEF d
    <3>2. QED BY <2>1, <3>1, AppendProperties
  <2>3. /\ t \in Seq(Points) /\ Len(t) = l + 1 /\ t[l + 1] = E
        /\ \A k \in 1 .. l : t[k] = Term(drawn[k])
    <3> HIDE DEF E
    <3>1. QED BY <1>4, <1>6, AppendProperties
  <2>4. \A k \in 1 .. l + 1 : t[k] = Term(drawn'[k])
    <3>1. \A k \in 1 .. l + 1 : k = l + 1 \/ k \in 1 .. l
      BY <1>4
    <3> HIDE DEF t, d
    <3>2. QED BY <2>2, <2>3, <3>1
  <2>5. Terms' = [k \in 1 .. l + 1 |-> Term(drawn'[k])]
    BY <2>2 DEF Terms, Term
  <2>6. t = [k \in 1 .. l + 1 |-> t[k]]
    <3> HIDE DEF t
    <3>1. QED BY <2>3, LenProperties
  <2>7. t = Terms'
    <3> HIDE DEF t, l
    <3>1. QED BY <2>4, <2>5, <2>6
  <2>8. QED BY <2>7
<1>8. T1 \in Int /\ Cong(T1, T + z * (R + (h * P - 8 * s)), L)
  <2> DEFINE X == z * (R + (h * P - 8 * s))
  <2>1. X \in Int
    <3> DEFINE y == R + (h * P - 8 * s)
    <3>1. y \in Int
      <4> HIDE DEF h, P, R, s
      <4>1. h * P \in Int /\ 8 * s \in Int
        BY <1>2
      <4>2. QED BY <1>2, <4>1
    <3> HIDE DEF y
    <3>2. z * y \in Int
      BY <1>3, <3>1
    <3>3. QED BY <3>2 DEF y
  <2>2. T1 = Add(T, E)
    <3> HIDE DEF E
    <3>1. QED BY <1>4, <1>6, PointSumAppend
  <2>3. Cong(E, X, 8 * L) /\ Cong(T, T, 8 * L)
    BY <1>3, <1>4, <1>6, CongRefl
  <2> HIDE DEF X, E, T
  <2>4. Add(T, E) \in Points /\ Cong(Add(T, E), T + X, 8 * L)
    BY <1>4, <1>6, <2>1, <2>3, AddCong
  <2>5. Add(T, E) \in Int /\ T + X \in Int
    BY <1>4, <2>1, <2>4 DEF Points
  <2>6. Cong(Add(T, E), T + X, L)
    BY <2>4, <2>5, CongWeaken
  <2> HIDE DEF T1
  <2>7. QED BY <2>2, <2>5, <2>6 DEF X
<1>9. Z1 \in Int /\ Cong(Z1, Z + z * R, L)
  <2>1. Cong(Z1, Z + z * R, 8 * L)
    <3> HIDE DEF R
    <3>1. QED BY <1>1, <1>2, <1>3, <1>4, MultiscalarAppend
  <2>2. Z1 \in Int
    <3> DEFINE c == Append(R_coeffs, z)
               p == Append(Rs, R)
    <3>1. c \in Seq(Int) /\ Len(c) = Len(R_coeffs) + 1
      BY <1>3, <1>4, AppendProperties
    <3>2. p \in Seq(Points) /\ Len(p) = Len(Rs) + 1
      <4> HIDE DEF R
      <4>1. QED BY <1>2, <1>4, AppendProperties
    <3> HIDE DEF c, p
    <3>3. MultiscalarMul(c, p) \in Int
      BY <1>1, <3>1, <3>2, MultiscalarType
    <3>4. QED BY <3>3 DEF c, p
  <2>3. Z + z * R \in Int
    <3> HIDE DEF Z, R
    <3>1. z * R \in Int
      BY <1>2, <1>3
    <3>2. QED BY <1>4, <3>1
  <2> HIDE DEF Z1, Z, R
  <2>4. QED BY <2>1, <2>2, <2>3, CongWeaken
<1>10. B1 \in Int /\ Cong(B1, B - z * s, L)
  <2> DEFINE x == B - z * s
  <2>1. x \in Int
    <3> HIDE DEF s, B
    <3>1. z * s \in Int
      BY <1>2, <1>3
    <3>2. QED BY <1>4, <3>1
  <2> HIDE DEF x
  <2>2. (x % L) \in 0 .. L - 1 /\ Cong(x % L, x, L)
    BY <1>3, <2>1, ReduceCong
  <2>3. QED BY <1>3, <2>2 DEF x
<1>11. a1 \in Int /\ Cong(a1, a + z * h, L)
  <2> DEFINE x == a + z * h
  <2>1. x \in Int
    <3> HIDE DEF h, a
    <3>1. z * h \in Int
      BY <1>2, <1>3
    <3>2. QED BY <1>4, <3>1
  <2> HIDE DEF x
  <2>2. (x % L) \in 0 .. L - 1 /\ Cong(x % L, x, L)
    BY <1>3, <2>1, ReduceCong
  <2>3. QED BY <1>3, <2>2 DEF x
<1>12. /\ B_coeff' = B1 /\ A_coeff' = a1 /\ Rs' = Append(Rs, R)
       /\ R_coeffs' = Append(R_coeffs, z) /\ A_coeffs' = A_coeffs /\ As' = As
       /\ vk' = vk
  BY DEF Accumulate, Decompress
<1>13. Cong(B1 * 8 + Y + Z1 + a1 * P, T1, L)
  <2> HIDE DEF q, P, R, s, h, a, B, Y, Z, T, d, E, B1, a1, Z1, T1
  <2>1. /\ P \in Int /\ R \in Int /\ s \in Int /\ h \in Int /\ a \in Int
        /\ B \in Int /\ Y \in Int /\ Z \in Int /\ T \in Int /\ z \in Int
        /\ B1 \in Int /\ a1 \in Int /\ Z1 \in Int /\ T1 \in Int
    BY <1>2, <1>3, <1>4, <1>8, <1>9, <1>10, <1>11
  <2>2. StandFor(B, Y, Z, a, P, T)
    BY <1>5 DEF StandFor
  <2>3. Loses(B1, B, z, s)
    BY <1>10 DEF Loses
  <2>4. Gains(a1, a, z, h) /\ Gains(Z1, Z, z, R)
    BY <1>9, <1>11 DEF Gains
  <2>5. GainsTerm(T1, T, z, s, h, P, R)
    BY <1>8 DEF GainsTerm
  <2>6. StandFor(B1, Y, Z1, a1, P, T1)
    <3>1. OneMoreTerm(B, Y, Z, a, P, T, z, s, h, R, B1, Z1, a1, T1)
      BY <2>1, <2>2, <2>3, <2>4, <2>5 DEF OneMoreTerm
    <3>2. QED BY <3>1, TermAccumulates
  <2>7. QED BY <2>6 DEF StandFor
<1>14. Len(R_coeffs') = Len(Rs')
  <2>1. Len(R_coeffs') = Len(R_coeffs) + 1
    BY <1>3, <1>4, <1>12, AppendProperties
  <2>2. Len(Rs') = Len(Rs) + 1
    <3> HIDE DEF R
    <3>1. QED BY <1>2, <1>4, <1>12, AppendProperties
  <2>3. QED BY <1>1, <2>1, <2>2
<1>15. Own' = a1 * P
  BY <1>2, <1>12 DEF Own
<1>16. Cong(B_coeff' * 8 + MultiscalarMul(A_coeffs', As')
              + MultiscalarMul(R_coeffs', Rs') + Own', PointSum(Terms'), L)
  <2> HIDE DEF a1, B1, P, E
  <2>1. QED BY <1>7, <1>12, <1>13, <1>15
<1>17. QED BY <1>1, <1>12, <1>14, <1>16 DEF SumsInv

LEMMA NextSignatureInvariant ==
  ASSUME Inv, NEW z \in Draws, NextSignature(z)
  PROVE  Inv'
<1>1. /\ TypeOK /\ QueueInv /\ WalkInv /\ VerdictInv
      /\ pc = "Signatures" /\ sigs # <<>>
  BY DEF Inv, NextSignature
<1> DEFINE q == Head(sigs)
<1>2. CASE ~ Readable(q)
  <2>1. Return("InvalidSignature")
    BY <1>2 DEF NextSignature
  <2>2. PICK k \in DOMAIN queued : queued[k] = q
    BY <1>1, HeadFacts
  <2>3. ~ IsValid(queued[k])
    BY <1>2, <2>2 DEF IsValid, Verdict, Valid, Readable
  <2>4. QED BY <1>1, <2>1, <2>3, GivesUp
<1>3. CASE Readable(q)
  <2>1. Accumulate(q, z, A_coeff)
    BY <1>3 DEF NextSignature
  <2>2. WalkInv' /\ SumsInv'
    BY <1>1, <1>3, <2>1, AccumulateWalk, AccumulateSums
  <2>3. UNCHANGED <<batch, pc, todo, vk, A_coeffs, As, result>>
    BY <2>1 DEF Accumulate
  <2>4. TypeOK'
    <3>1. q \in Items /\ sigs' \in Seq(Items) /\ q.R.point \in Points
      BY <1>1, <1>3, <2>1, HeadFacts DEF Accumulate, Readable, IsDecodable
    <3>2. R_coeffs' \in Seq(Draws) /\ R_coeffs' = Append(R_coeffs, z)
      BY <1>1, <2>1, AppendProperties DEF TypeOK, Accumulate
    <3>3. Rs' \in Seq(Points)
      <4> DEFINE R == q.R.point
      <4>1. Rs' = Append(Rs, R) /\ R \in Points /\ Rs \in Seq(Points)
        BY <1>1, <2>1, <3>1 DEF TypeOK, Accumulate, Decompress
      <4> HIDE DEF R
      <4>2. QED BY <4>1, AppendProperties
    <3>4. L \in Nat /\ L > 0 /\ z \in Int /\ A_coeff \in Int /\ B_coeff \in Int
          /\ q.s \in Int /\ q.h \in Int
      <4>1. q.s \in Int /\ q.h \in Int
        BY <3>1, ItemFacts
      <4>2. QED BY <1>1, <4>1, OrderPositive, BatchAssumption DEF TypeOK
    <3>5. A_coeff' \in 0 .. L - 1 /\ B_coeff' \in 0 .. L - 1
      <4> DEFINE x == B_coeff - z * q.s
                 y == A_coeff + z * q.h
                 s == q.s
                 h == q.h
      <4>1. x \in Int /\ y \in Int
        <5>1. s \in Int /\ h \in Int
          BY <3>4
        <5> HIDE DEF s, h
        <5>2. z * s \in Int /\ z * h \in Int
          BY <3>4, <5>1
        <5>3. B_coeff - z * s \in Int /\ A_coeff + z * h \in Int
          BY <3>4, <5>2
        <5>4. QED BY <5>3 DEF s, h
      <4>2. B_coeff' = x % L /\ A_coeff' = y % L
        BY <2>1 DEF Accumulate
      <4> HIDE DEF x, y
      <4>3. QED BY <3>4, <4>1, <4>2, ReduceCong
    <3>6. QED BY <1>1, <2>3, <3>1, <3>2, <3>3, <3>5 DEF TypeOK, batch
  <2>5. QueueInv'
    BY <1>1, <2>3, SameQueue
  <2>6. VerdictInv'
    BY <1>1, <2>3 DEF VerdictInv, WalkInv, ValidBatchIsAccepted, InvalidIsRejected
  <2>7. QED BY <2>2, <2>4, <2>5, <2>6 DEF Inv
<1>4. QED BY <1>2, <1>3

LEMMA StutterInvariant ==
  ASSUME Inv, UNCHANGED vars
  PROVE  Inv'
<1>1. UNCHANGED <<batch, pc, todo, vk, sigs, sums, result>>
  BY DEF vars
<1>2. TypeOK'
  BY <1>1 DEF Inv, TypeOK, batch, sums
<1>3. QueueInv'
  BY <1>1, SameQueue DEF Inv
<1>4. WalkInv'
  BY <1>1 DEF Inv, WalkInv, ReadSlots, ItemsRead, Slots, Held, batch, sums
<1>5. SumsInv'
  BY <1>1, SameSums DEF Inv
<1>6. VerdictInv'
  BY <1>1 DEF Inv, VerdictInv, ValidBatchIsAccepted, InvalidIsRejected, batch, sums
<1>7. QED BY <1>2, <1>3, <1>4, <1>5, <1>6 DEF Inv

LEMMA NextInvariant == Inv /\ [Next]_vars => Inv'
<1> SUFFICES ASSUME Inv, [Next]_vars
             PROVE  Inv'
  OBVIOUS
<1>1. ASSUME NEW q \in Items, Queue(q) PROVE Inv'
  BY <1>1, QueueInvariant
<1>2. CASE StartVerify
  BY <1>2, StartInvariant
<1>3. ASSUME NEW a \in todo, NextKey(a) PROVE Inv'
  BY <1>3, NextKeyInvariant
<1>4. ASSUME NEW z \in Draws, NextSignature(z) PROVE Inv'
  BY <1>4, NextSignatureInvariant
<1>5. CASE FinishKey
  BY <1>5, FinishInvariant
<1>6. CASE Check
  BY <1>6, CheckInvariant
<1>7. CASE UNCHANGED vars
  BY <1>7, StutterInvariant
<1>8. QED BY <1>1, <1>2, <1>3, <1>4, <1>5, <1>6, <1>7 DEF Next
-----------------------------------------------------------------------------
(* The inductive invariant of the walk: every reachable state satisfies    *)
(* it, for every set of items, draws, prime order and batch size.          *)
THEOREM BatchInvariant == Spec => []Inv
<1>1. Init => Inv
  BY InitInv
<1>2. Inv /\ [Next]_vars => Inv'
  BY NextInvariant
<1>3. QED BY <1>1, <1>2, PTL DEF Spec

(* The verifier's fields keep their types: the coefficients stay reduced   *)
(* scalars and the decompressed points stay points, whatever was queued.   *)
THEOREM BatchTypes == Spec => []TypeOK
<1>1. Inv => TypeOK
  BY DEF Inv
<1>2. QED BY <1>1, BatchInvariant, PTL

(* Coalescing the z * k terms of a key and reducing the coefficients does  *)
(* not change the sum verify() checks, once the cofactor has removed the   *)
(* torsion the reduction may leave.                                        *)
THEOREM CoalescingExact == Spec => []CoalescingIsExact
<1>1. Inv => CoalescingIsExact
  BY Coalesced
<1>2. QED BY <1>1, BatchInvariant, PTL

(* verify() accepts every batch of individually valid items: whatever the  *)
(* draws, the order of the hash map and the torsion parts of A and R.      *)
THEOREM ValidBatches == Spec => []ValidBatchIsAccepted
<1>1. Inv => ValidBatchIsAccepted
  BY DEF Inv, VerdictInv
<1>2. QED BY <1>1, BatchInvariant, PTL

(* verify() accepts only a batch it read whole, one draw for each item;    *)
(* and a single invalid item fails the batch unless its own draw is 0.     *)
THEOREM InvalidBatches == Spec => []InvalidIsRejected
<1>1. Inv => InvalidIsRejected
  BY DEF Inv, VerdictInv
<1>2. QED BY <1>1, BatchInvariant, PTL
=============================================================================

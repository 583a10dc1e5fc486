------------------------------ MODULE MulCalls ------------------------------
(***************************************************************************)
(* Calls of the scalar multiplications and the answers they may get: the   *)
(* sum of the points times their scalars; None if a point is undecodable;  *)
(* a panic if the lists do not match, or, if a point is undecodable too,   *)
(* None before it is noticed that they do not.  triple_base promises       *)
(* nothing for long scalars in the places of the short ones.               *)
(***************************************************************************)
EXTENDS EdwardsGroup, SequencesExt

CONSTANTS
  ShortBound,  (* what triple_base expects its first scalars to be below   *)
  Calls     (* records: method, static (the points of a precomputation),   *)
            (* static_scalars, scalars, points (-1 for an undecodable one) *)

(* The entry points, by the recoding they use. *)
NafMethods == {"double_base", "triple_base", "straus", "precomputed"}
WindowMethods == {"variable_base", "straus_ct", "pippenger", "base_table"}

(* Answers other than a point. *)
None == -1
Panic == -2
Pending == -3

(* These two methods add the basepoint to the caller's points. *)
AllPoints(c) ==
  IF c.method \in {"double_base", "triple_base"} THEN Append(c.points, Basepoint)
  ELSE c.points

HasNone(c) == \E i \in DOMAIN c.points : c.points[i] = None
Mismatched(c) ==
  \/ Len(c.static_scalars) > Len(c.static)
  \/ Len(c.scalars) # Len(AllPoints(c))

(* Only the methods that take lists may get an undecodable point or lists  *)
(* that do not match.                                                      *)
ASSUME CallsAssumption ==
  \A c \in Calls :
    /\ c.method \in NafMethods \cup WindowMethods
    /\ c.static \in Seq(Points) /\ c.points \in Seq(Points \cup {None})
    /\ c.static_scalars \in Seq(Nat) /\ c.scalars \in Seq(Nat)
    /\ c.method # "precomputed" => c.static = <<>> /\ c.static_scalars = <<>>
    /\ c.method \notin {"straus", "precomputed", "pippenger"} => ~ HasNone(c)
    /\ c.method \notin {"straus", "precomputed", "pippenger", "straus_ct"} =>
         /\ ~ Mismatched(c)
         /\ Len(c.points) = IF c.method = "triple_base" THEN 2 ELSE 1

(* A triple_base whose first scalars are long: outside what it is made for.*)
IsShort(x) == x < ShortBound
HasLong(c) ==
  c.method = "triple_base" /\ ~ (IsShort(c.scalars[1]) /\ IsShort(c.scalars[2]))

(* s[1] * P[1] + s[2] * P[2] + ... over the shorter of the two lists. *)
Combine(s, P) ==
  LET n == IF Len(s) < Len(P) THEN Len(s) ELSE Len(P)
  IN  FoldLeft(Add, 0, [i \in 1 .. n |-> Mul(s[i], P[i])])

Outcomes(c) ==
  CASE HasLong(c) -> Points \cup {Panic}
    [] Mismatched(c) -> {Panic} \cup (IF HasNone(c) THEN {None} ELSE {})
    [] HasNone(c) /\ ~ Mismatched(c) -> {None}
    [] OTHER -> {Add(Combine(c.static_scalars, c.static),
                     Combine(c.scalars, AllPoints(c)))}
=============================================================================

------------------------- MODULE BatchVerification -------------------------
(***************************************************************************)
(* batch::Verifier.  A caller queues items, grouped by verification key,   *)
(* and then asks once whether all of them are valid.  verify() walks the   *)
(* hash map in an order nobody chose, draws a random coefficient z for     *)
(* each signature, coalesces the z * k terms of each key, and checks one   *)
(* multiscalar multiplication:                                             *)
(*   8 (-sum(z * s) B + sum(z * k) A + sum(z R)) = 0.                      *)
(***************************************************************************)
EXTENDS EdwardsGroup, Sequences, SequencesExt, FiniteSetsExt

CONSTANTS
  Items,     (* what a caller may queue: records (A, R, s, h)              *)
  Draws,     (* the values gen_u128 may return, all below 2^128 < L        *)
  MaxBatch   (* bound on the number of queued items                        *)

ASSUME BatchAssumption ==
  /\ \A q \in Items : /\ q.A \in Encodings /\ q.R \in Encodings
                      /\ q.s \in Nat /\ q.h \in 0 .. L - 1
  /\ Draws \subseteq 0 .. L - 1
  /\ MaxBatch \in Nat

VARIABLES
  signatures,  (* the signatures of each key, in the order queued          *)
  batch_size,
  pc,          (* "Queueing", "Keys", "Signatures" or "Done"      *)
  todo,        (* the keys the iteration has not reached                   *)
  vk,          (* the key it is at, and the signatures left of that key    *)
  sigs,
  A_coeff, A_coeffs, As, R_coeffs, Rs, B_coeff,
  result,
  queued,      (* history: the items in the order they were queued         *)
  drawn        (* history: the items verify() has read, each with its z    *)

batch == <<signatures, batch_size, queued>>
sums == <<A_coeff, A_coeffs, As, R_coeffs, Rs, B_coeff, drawn>>
vars == <<batch, pc, todo, vk, sigs, sums, result>>

NoKey == Undecodable

(* EdwardsPoint::vartime_multiscalar_mul *)
MultiscalarMul(coeffs, points) ==
  FoldLeft(Add, 0, [i \in DOMAIN points |-> Mul(coeffs[i], points[i])])
-----------------------------------------------------------------------------
Init ==
  /\ signatures = <<>> /\ batch_size = 0
  /\ pc = "Queueing" /\ todo = {} /\ vk = NoKey /\ sigs = <<>>
  /\ A_coeff = 0 /\ A_coeffs = <<>> /\ As = <<>>
  /\ R_coeffs = <<>> /\ Rs = <<>> /\ B_coeff = 0
  /\ result = "Pending"
  /\ queued = <<>> /\ drawn = <<>>

(* Verifier::queue; Item::from has hashed the message by then. *)
Queue(q) ==
  /\ pc = "Queueing" /\ Len(queued) < MaxBatch
  /\ LET before == IF q.A \in DOMAIN signatures THEN signatures[q.A] ELSE <<>>
     IN  signatures' = [a \in DOMAIN signatures \cup {q.A} |->
                          IF a = q.A THEN Append(before, q) ELSE signatures[a]]
  /\ batch_size' = batch_size + 1
  /\ queued' = Append(queued, q)
  /\ UNCHANGED <<pc, todo, vk, sigs, sums, result>>

(* Verifier::verify takes the batch by value: nothing is queued after it. *)
StartVerify ==
  /\ pc = "Queueing"
  /\ pc' = "Keys" /\ todo' = DOMAIN signatures
  /\ UNCHANGED <<batch, vk, sigs, sums, result>>

Return(r) ==
  /\ result' = r /\ pc' = "Done"
  /\ UNCHANGED <<batch, todo, vk, sigs, sums>>

(* Mutant of NextKey: an undecodable key is skipped. *)
NextKeySkips(a) ==
  /\ pc = "Keys" /\ todo' = todo \ {a}
  /\ \/ /\ IsDecodable(a) /\ A_coeff' = 0
        /\ pc' = "Signatures" /\ vk' = a /\ sigs' = signatures[a]
     \/ ~ IsDecodable(a) /\ UNCHANGED <<pc, vk, sigs, A_coeff>>
  /\ UNCHANGED <<batch, A_coeffs, As, R_coeffs, Rs, B_coeff, drawn, result>>

(* The next key of the hash map, decompressed. *)
NextKey(a) ==
  /\ pc = "Keys"
  /\ \/ /\ IsDecodable(a)
        /\ pc' = "Signatures" /\ todo' = todo \ {a}
        /\ vk' = a /\ sigs' = signatures[a]
        /\ A_coeff' = 0
        /\ UNCHANGED <<batch, A_coeffs, As, R_coeffs, Rs, B_coeff, drawn, result>>
     \/ ~ IsDecodable(a) /\ Return("InvalidSignature")

(* What verify() adds up for signature q and its draw z, with a the        *)
(* coefficient A_coeff had.                                                *)
Accumulate(q, z, a) ==
  /\ B_coeff' = (B_coeff - z * q.s) % L
  /\ Rs' = Append(Rs, Decompress(q.R))
  /\ R_coeffs' = Append(R_coeffs, z)
  /\ A_coeff' = (a + z * q.h) % L
  /\ drawn' = Append(drawn, [item |-> q, z |-> z])
  /\ sigs' = Tail(sigs)
  /\ UNCHANGED <<batch, pc, todo, vk, A_coeffs, As, result>>

Readable(q) == IsDecodable(q.R) /\ q.s < L

(* Mutants of NextSignature: R and s are not checked; A_coeff holds the    *)
(* last term only; an unreadable signature is waited on.                   *)
NextSignatureUnchecked(z) ==
  /\ pc = "Signatures" /\ sigs # <<>>
  /\ Accumulate(Head(sigs), z, A_coeff)

NextSignatureOverwrites(z) ==
  /\ pc = "Signatures" /\ sigs # <<>>
  /\ \/ Readable(Head(sigs)) /\ Accumulate(Head(sigs), z, 0)
     \/ ~ Readable(Head(sigs)) /\ Return("InvalidSignature")

NextSignatureWaits(z) ==
  /\ pc = "Signatures" /\ sigs # <<>>
  /\ Readable(Head(sigs)) /\ Accumulate(Head(sigs), z, A_coeff)

(* The next signature of the key: R, then s, then z. *)
NextSignature(z) ==
  /\ pc = "Signatures" /\ sigs # <<>>
  /\ \/ Readable(Head(sigs)) /\ Accumulate(Head(sigs), z, A_coeff)
     \/ ~ Readable(Head(sigs)) /\ Return("InvalidSignature")

FinishKey ==
  /\ pc = "Signatures" /\ sigs = <<>>
  /\ As' = Append(As, Decompress(vk))
  /\ A_coeffs' = Append(A_coeffs, A_coeff)
  /\ pc' = "Keys" /\ vk' = NoKey /\ A_coeff' = 0
  /\ UNCHANGED <<batch, todo, sigs, R_coeffs, Rs, B_coeff, drawn, result>>

(* The one multiscalar multiplication. *)
CheckPoint ==
  MultiscalarMul(<<B_coeff>> \o A_coeffs \o R_coeffs, <<Basepoint>> \o As \o Rs)

(* Mutant of Check: the cofactor is left out. *)
CheckWithoutCofactor ==
  /\ pc = "Keys" /\ todo = {}
  /\ Return(IF IsIdentity(CheckPoint) THEN "Ok" ELSE "InvalidSignature")

Check ==
  /\ pc = "Keys" /\ todo = {}
  /\ Return(IF IsIdentity(MulByCofactor(CheckPoint))
            THEN "Ok" ELSE "InvalidSignature")

Next ==
  \/ \E q \in Items : Queue(q)
  \/ StartVerify
  \/ \E a \in todo : NextKey(a)
  \/ \E z \in Draws : NextSignature(z)
  \/ FinishKey
  \/ Check

Verifying == pc \notin {"Queueing", "Done"}

(* verify() runs in the caller's thread: once started it is never left. *)
Spec == Init /\ [][Next]_vars /\ WF_vars(Verifying /\ Next)
-----------------------------------------------------------------------------
TypeOK ==
  /\ DOMAIN signatures \subseteq Encodings
  /\ \A a \in DOMAIN signatures : signatures[a] \in Seq(Items)
  /\ batch_size \in 0 .. MaxBatch
  /\ pc \in {"Queueing", "Keys", "Signatures", "Done"}
  /\ todo \subseteq DOMAIN signatures
  /\ vk \in Encodings /\ sigs \in Seq(Items)
  /\ A_coeff \in 0 .. L - 1 /\ B_coeff \in 0 .. L - 1
  /\ A_coeffs \in Seq(0 .. L - 1) /\ As \in Seq(Points)
  /\ R_coeffs \in Seq(Draws) /\ Rs \in Seq(Points)
  /\ result \in {"Pending", "Ok", "InvalidSignature"}

IsValid(q) == Verdict(q) = "Ok"

(* z (R + [h]A - [s]B), one item's contribution without coalescing *)
Term(d) ==
  Mul(d.z, Add(d.item.R.point,
               Add(Mul(d.item.h, d.item.A.point),
                   Neg(Mul(d.item.s, Basepoint)))))

(* At every point of the walk the coalesced, reduced coefficients stand    *)
(* for the uncoalesced sum of the terms read so far.  The two points may   *)
(* differ by torsion (z * h is reduced modulo L though A may have a        *)
(* torsion part), so it is only after the cofactor that they agree.        *)
CoalescingIsExact ==
  pc # "Done" =>
    MulByCofactor(
      Add(CheckPoint,
          IF IsDecodable(vk) THEN Mul(A_coeff, Decompress(vk)) ELSE 0))
      = MulByCofactor(FoldLeft(Add, 0, [i \in DOMAIN drawn |-> Term(drawn[i])]))

(* A batch of individually valid items is accepted, whatever the draws and *)
(* the order of the keys: when verify() fails, falling back on             *)
(* verify_single finds an invalid item.                                    *)
ValidBatchIsAccepted ==
  pc = "Done" /\ (\A i \in DOMAIN queued : IsValid(queued[i])) => result = "Ok"

(* A batch is accepted only after it was read whole: every item got its    *)
(* own draw, and no point was undecodable and no s too large.  One invalid *)
(* item, queued once among valid ones, fails the batch unless its z is 0:  *)
(* the draws of the other items cannot make up for it.                     *)
InvalidIsRejected ==
  result = "Ok" =>
    /\ Len(drawn) = Len(queued)
    /\ \A i \in DOMAIN queued : IsDecodable(queued[i].A) /\ Readable(queued[i])
    /\ Cardinality({i \in DOMAIN queued : ~ IsValid(queued[i])}) = 1
         => \E i \in DOMAIN drawn : ~ IsValid(drawn[i].item) /\ drawn[i].z = 0

(* verify() returns. *)
VerifyReturns == Verifying ~> pc = "Done"
=============================================================================

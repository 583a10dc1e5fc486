------------------------------ MODULE Signing -------------------------------
(***************************************************************************)
(* A SigningKey, how it is computed from a seed, and how it is loaded,     *)
(* zeroized and used to sign. SHA-512 of a seed is a constant function:    *)
(* Digest[seed] has the low half of the digest as an integer and the high  *)
(* half as the prefix. Scale stands for 2^254: the clamped low half keeps  *)
(* its bits 3 .. 253 and has bit 254 set and bit 255 clear. The two hashes *)
(* of sign are sampled when they are first needed and remembered: every    *)
(* pair of hash functions over the inputs of a run is a behaviour, and no  *)
(* input ever hashes to two values.                                        *)
(***************************************************************************)
EXTENDS EdwardsGroup, FiniteSets

CONSTANTS
  Seeds,         (* the 32-byte secret keys                                *)
  ZeroSeed,      (* [0; 32]                                                *)
  HashPrefixes,  (* the 32-byte high halves of digests                     *)
  ZeroPrefix,    (* [0; 32]                                                *)
  Scale,         (* 2^254                                                  *)
  Digest         (* SHA-512 of a seed                                      *)

(* 2^254 is a multiple of 8 and L exceeds 2^252 = Scale \div 4. *)
ASSUME SigningAssumption ==
  /\ Scale \in Nat /\ Scale >= 8 /\ Scale % 8 = 0 /\ Scale < 4 * L
  /\ ZeroSeed \in Seeds /\ ZeroPrefix \in HashPrefixes
  /\ Digest \in [Seeds -> [low : 0 .. 4 * Scale - 1, prefix : HashPrefixes]]

(* Mutant of Clamp: bit 254 is not set. *)
ClampWithoutTopBit(n) == (n % (2 * Scale)) - (n % 8)

(* bytes[0] &= 248; bytes[31] &= 127; bytes[31] |= 64 *)
Clamp(n) == Scale + (n % Scale) - (n % 8)

(* A VerificationKey holds the encoding and the negated point. *)
KeyOf(A) == [A_bytes |-> Compress(A), minus_A |-> Neg(A)]
DefaultVerificationKey == KeyOf(0)
Keys == [A_bytes : Encodings, minus_A : Points]

(* From<SecretKey> for SigningKey *)
FromSeed(seed) ==
  LET a == Clamp(Digest[seed].low) % L
  IN  [seed |-> seed, s |-> a, prefix |-> Digest[seed].prefix,
       vk |-> KeyOf(Mul(a, Basepoint))]

(* SigningKey::zeroize; a zeroized VerificationKey is the default one. *)
Zeroized ==
  [seed |-> ZeroSeed, s |-> 0, prefix |-> ZeroPrefix, vk |-> DefaultVerificationKey]

SigningKeySet ==
  [seed : Seeds, s : 0 .. L - 1, prefix : HashPrefixes, vk : Keys]
-----------------------------------------------------------------------------
CONSTANTS
  Messages,
  Nonces,         (* what the hash of (prefix, msg) may be, mod L          *)
  Challenges,     (* what the hash of (R, A, msg) may be, mod L            *)
  MaxSignatures   (* bound: how many signatures a run makes                *)

ASSUME HashAssumption ==
  Nonces \subseteq 0 .. L - 1 /\ Challenges \subseteq 0 .. L - 1

VARIABLES
  sk,          (* the SigningKey in hand                                   *)
  live,        (* history: sk came from a seed and was not zeroized        *)
  nonces,      (* the known values of SHA-512(prefix || msg)               *)
  challenges,  (* the known values of SHA-512(R || A || msg)               *)
  signatures   (* history: what was signed, and with which key             *)

signingVars == <<sk, live, nonces, challenges, signatures>>

(* Mutant of Hash: a fresh value each time, as from a random nonce. *)
HashAfresh(known, x, range) == range

(* The values a hash may take on input x: the known one, or any. *)
Hash(known, x, range) == IF x \in DOMAIN known THEN {known[x]} ELSE range

Remember(known, x, y) ==
  [z \in DOMAIN known \cup {x} |-> IF z = x THEN y ELSE known[z]]
-----------------------------------------------------------------------------
SigningInit ==
  /\ sk \in {FromSeed(seed) : seed \in Seeds} /\ live = TRUE
  /\ nonces = <<>> /\ challenges = <<>> /\ signatures = {}

(* Another key, or the same one rebuilt from its bytes. *)
Load ==
  /\ sk' \in {FromSeed(seed) : seed \in Seeds} /\ live' = TRUE
  /\ UNCHANGED <<nonces, challenges, signatures>>

(* Mutant of Zeroize: the verification key is forgotten about. *)
ZeroizeKeepsKey ==
  /\ sk' = [Zeroized EXCEPT !.vk = sk.vk] /\ live' = FALSE
  /\ UNCHANGED <<nonces, challenges, signatures>>

Zeroize ==
  /\ sk' = Zeroized /\ live' = FALSE
  /\ UNCHANGED <<nonces, challenges, signatures>>

(* Mutant of NonceInput: the prefix alone. *)
NonceInputFixed(msg) == <<sk.prefix>>

NonceInput(msg) == <<sk.prefix, msg>>

ChallengeInput(R_bytes, msg) == <<R_bytes, sk.vk.A_bytes, msg>>

(* Mutant of Response: the sum is not reduced. *)
ResponseUnreduced(r, k) == r + k * sk.s

Response(r, k) == (r + k * sk.s) % L

(* SigningKey::sign: R = [r]B with r the hash of the prefix and the        *)
(* message, s = r + k * sk.s with k the hash of R, the key and the message.*)
SignWith(msg, r, k) ==
  LET R_bytes == Compress(Mul(r, Basepoint))
  IN  /\ r \in Hash(nonces, NonceInput(msg), Nonces)
      /\ k \in Hash(challenges, ChallengeInput(R_bytes, msg), Challenges)
      /\ nonces' = Remember(nonces, NonceInput(msg), r)
      /\ challenges' = Remember(challenges, ChallengeInput(R_bytes, msg), k)
      /\ signatures' = signatures \cup
           {[key |-> sk, live |-> live, msg |-> msg,
             R |-> R_bytes, s |-> Response(r, k)]}

Sign ==
  /\ Cardinality(signatures) < MaxSignatures
  /\ \E msg \in Messages, r \in Nonces, k \in Challenges : SignWith(msg, r, k)
  /\ UNCHANGED <<sk, live>>

SigningNext == Load \/ Zeroize \/ Sign

SigningSpec == SigningInit /\ [][SigningNext]_signingVars
-----------------------------------------------------------------------------
SigningTypes ==
  /\ sk \in SigningKeySet /\ live \in BOOLEAN
  /\ DOMAIN nonces \subseteq HashPrefixes \X Messages
  /\ \A x \in DOMAIN nonces : nonces[x] \in Nonces
  /\ DOMAIN challenges \subseteq Encodings \X Encodings \X Messages
  /\ \A x \in DOMAIN challenges : challenges[x] \in Challenges
  /\ signatures \subseteq
       [key : SigningKeySet, live : BOOLEAN, msg : Messages,
        R : Encodings, s : 0 .. L - 1]

(* The verification key is the key of the scalar, also after a zeroize,    *)
(* and no seed has a key in the torsion subgroup: clamping keeps the       *)
(* scalar away from the multiples of L even after it is reduced mod L.     *)
KeysMatch ==
  /\ sk.vk = KeyOf(Mul(sk.s, Basepoint))
  /\ live => ~ IsIdentity(MulByCofactor(Decompress(sk.vk.A_bytes)))

(* A signature is a request to the verifier, with the challenge the        *)
(* verifier hashes from its parts.                                         *)
Request(x) ==
  [A |-> x.key.vk.A_bytes, R |-> x.R, s |-> x.s,
   h |-> challenges[<<x.R, x.key.vk.A_bytes, x.msg>>]]

(* Every signature passes the equations of both verification modes under   *)
(* the key that goes with the signing key, whatever the hashes return and  *)
(* also when the key was zeroized before signing.                          *)
SignaturesVerify ==
  \A x \in signatures :
    /\ <<x.R, x.key.vk.A_bytes, x.msg>> \in DOMAIN challenges
    /\ Valid(Request(x))
    /\ x.R = Compress(Add(Mul(Request(x).h, x.key.vk.minus_A),
                          Mul(x.s, Basepoint)))

(* Two keys that compare equal, eq looks at the seed only, sign a message  *)
(* the same way.  A zeroized key compares equal to the key of [0; 32] and  *)
(* does not sign like it, so the property is about keys still in use.      *)
EqualKeysSignAlike ==
  \A x, y \in signatures :
    x.live /\ y.live /\ x.key.seed = y.key.seed /\ x.msg = y.msg =>
      x.R = y.R /\ x.s = y.s

(* Two signatures under one key with one R and two challenges give the     *)
(* scalar away.  It takes a collision of the hash of (prefix, msg).        *)
NonceReuseNeedsCollision ==
  \A x, y \in signatures :
    /\ x.key.vk = y.key.vk /\ x.R = y.R
    /\ Request(x).h # Request(y).h
    => \E a, b \in DOMAIN nonces : a # b /\ nonces[a] = nonces[b]
=============================================================================

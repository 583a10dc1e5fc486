---------------------------- MODULE KeyDocuments ----------------------------
(***************************************************************************)
(* The conversions of signing and verification keys to and from byte       *)
(* slices, KeypairBytes, PKCS#8 and SPKI documents.  A run starts from a   *)
(* key made by this library or from a foreign document, and applies        *)
(* conversions to what it holds, in any order, until one fails.            *)
(*                                                                         *)
(* A slice is raw (32 bytes), wrapped (the 34 bytes 0x04 0x20 and 32 more, *)
(* the octet string of RFC 8410) or of another length.                     *)
(***************************************************************************)
EXTENDS Naturals

CONSTANTS
  Bytes32,    (* 32-byte strings: secret keys and encoded points           *)
  Decodable,  (* those that decode to a point                              *)
  Public,     (* the encoded public key of each secret key                 *)
  NoBytes     (* the absence of a field                                    *)

ASSUME DocumentAssumption ==
  /\ Decodable \subseteq Bytes32
  /\ Public \in [Bytes32 -> Decodable]
  /\ NoBytes \notin Bytes32

VARIABLES
  held,    (* the value or document in hand, or the failure                *)
  origin,  (* history: what the run started from                           *)
  last     (* history: the last conversion and what it was applied to      *)

documentVars == <<held, origin, last>>

Raw(b)     == [form |-> "Raw", bytes |-> b]
Wrapped(b) == [form |-> "Wrapped", bytes |-> b]
Slices == [form : {"Raw", "Wrapped"}, bytes : Bytes32]
            \cup {[form |-> "Other", bytes |-> NoBytes]}
Algorithms == {"Ed25519", "Parameters", "OtherOid"}

(* What a caller passes around.  Slices are kept apart by what they hold:  *)
(* no conversion is given a public key as a secret.                        *)
SigningKey(seed)  == [kind |-> "SigningKey", seed |-> seed, A_bytes |-> Public[seed]]
VerificationKey(b) == [kind |-> "VerificationKey", A_bytes |-> b]
Keypair(seed, b)  == [kind |-> "KeypairBytes", secret_key |-> seed, public_key |-> b]
Pkcs8(alg, slice, b) ==
  [kind |-> "Pkcs8", algorithm |-> alg, private_key |-> slice, public_key |-> b]
Spki(alg, slice) ==
  [kind |-> "Spki", algorithm |-> alg, subject_public_key |-> slice]
SecretSlice(x) == [kind |-> "SecretSlice", slice |-> x]
PublicSlice(x) == [kind |-> "PublicSlice", slice |-> x]
Garbage      == [kind |-> "Garbage"]
Error(e)     == [kind |-> "Error", error |-> e]
Panic        == [kind |-> "Panic"]

SigningKeys      == {SigningKey(b) : b \in Bytes32}
VerificationKeys == {VerificationKey(b) : b \in Decodable}
Foreign ==
  {Pkcs8(a, x, b) : a \in Algorithms, x \in Slices, b \in Bytes32 \cup {NoBytes}}
    \cup {Spki(a, x) : a \in Algorithms, x \in Slices}
    \cup {SecretSlice(x) : x \in Slices} \cup {PublicSlice(x) : x \in Slices}
    \cup {Garbage}

(* The conversion named method turns what is held into result. *)
Apply(method, result) ==
  /\ held' = result
  /\ last' = [method |-> method, input |-> held]
  /\ UNCHANGED origin

DocumentsInit ==
  /\ held \in SigningKeys \cup VerificationKeys \cup Foreign
  /\ origin = held
  /\ last = [method |-> "none", input |-> held]
-----------------------------------------------------------------------------
(* What a SigningKey is turned into.                                       *)
ToBytes ==
  held.kind = "SigningKey" /\ Apply("to_bytes", SecretSlice(Raw(held.seed)))
ToKeypair ==
  /\ held.kind = "SigningKey"
  /\ Apply("keypair", Keypair(held.seed, held.A_bytes))

(* Mutant of ToPkcs8: the seed is not wrapped. *)
ToPkcs8Bare ==
  /\ held.kind = "SigningKey"
  /\ Apply("to_pkcs8_der", Pkcs8("Ed25519", Raw(held.seed), held.A_bytes))

ToPkcs8 ==
  /\ held.kind = "SigningKey"
  /\ Apply("to_pkcs8_der", Pkcs8("Ed25519", Wrapped(held.seed), held.A_bytes))

ToPkcs8V1 ==
  /\ held.kind = "SigningKey"
  /\ Apply("to_pkcs8_der_v1", Pkcs8("Ed25519", Wrapped(held.seed), NoBytes))
ToVerificationKey ==
  /\ held.kind = "SigningKey"
  /\ Apply("verification_key", VerificationKey(held.A_bytes))

(* TryFrom<&[u8]> for SigningKey takes 32 bytes. *)
FromSlice(x) ==
  IF x.form = "Raw" THEN SigningKey(x.bytes) ELSE Error("InvalidSliceLength")

TryFromSlice ==
  held.kind = "SecretSlice" /\ Apply("try_from_slice", FromSlice(held.slice))

(* TryFrom<PrivateKeyInfo>: the private key field is taken as the slice.   *)
TryFromPrivateKeyInfo ==
  /\ held.kind = "Pkcs8"
  /\ Apply("try_from_private_key_info",
           IF held.algorithm = "Ed25519"
           THEN FromSlice(held.private_key) ELSE Error("MalformedSecretKey"))

(* SigningKey::from_der, on any byte string: 32 bytes are the seed, every  *)
(* other length is an error.  A document with a key in it is longer, and   *)
(* Garbage is any byte string that is neither 32 bytes nor a document.     *)
FromDerOf(bytes) ==
  IF bytes.kind = "SecretSlice" /\ bytes.slice.form = "Raw"
  THEN SigningKey(bytes.slice.bytes) ELSE Error("ParametersMalformed")
FromDer ==
  /\ \/ held.kind \in {"SecretSlice", "Garbage"}
     \/ held.kind = "Pkcs8" /\ held.private_key.form # "Other"
  /\ Apply("from_der", FromDerOf(held))

(* KeypairBytes::from_pkcs8_der of the ed25519 crate. *)
ParseKeypair(doc) ==
  IF /\ doc.kind = "Pkcs8" /\ doc.algorithm = "Ed25519"
     /\ doc.private_key.form = "Wrapped"
  THEN Keypair(doc.private_key.bytes, doc.public_key) ELSE Error("KeyMalformed")

(* Mutant of FromPkcs8Of: the public key is not compared. *)
FromPkcs8Unchecked(doc) ==
  LET keypair == ParseKeypair(doc)
  IN  IF keypair.kind = "Error" THEN Panic ELSE SigningKey(keypair.secret_key)

(* SigningKey::from_pkcs8_der unwraps the parsed key pair and compares a   *)
(* public key when there is one.                                           *)
FromPkcs8Of(doc) ==
  LET keypair == ParseKeypair(doc)
  IN  IF keypair.kind = "Error" THEN Panic
      ELSE IF keypair.public_key \in {NoBytes, Public[keypair.secret_key]}
      THEN SigningKey(keypair.secret_key) ELSE Error("KeyMalformed")
FromPkcs8 ==
  /\ held.kind \in {"Pkcs8", "Spki", "Garbage"}
  /\ Apply("from_pkcs8_der", FromPkcs8Of(held))

(* What the caller of the ed25519 crate gets instead. *)
DecodeKeypair ==
  /\ held.kind \in {"Pkcs8", "Garbage"}
  /\ Apply("keypair_from_pkcs8_der", ParseKeypair(held))

(* Mutant of FromPublicDer: a point that does not decode is let through. *)
FromPublicDerUnchecked(doc) ==
  IF doc.kind # "Spki" THEN Error("Asn1")
  ELSE IF doc.algorithm = "OtherOid" THEN Error("OidUnknown")
  ELSE IF doc.algorithm = "Ed25519" /\ doc.subject_public_key.form = "Raw"
  THEN VerificationKey(doc.subject_public_key.bytes) ELSE Error("KeyMalformed")

(* VerificationKey::from_public_key_der *)
FromPublicDer(doc) ==
  IF doc.kind # "Spki" THEN Error("Asn1")
  ELSE IF doc.algorithm = "OtherOid" THEN Error("OidUnknown")
  ELSE IF /\ doc.algorithm = "Ed25519" /\ doc.subject_public_key.form = "Raw"
          /\ doc.subject_public_key.bytes \in Decodable
  THEN VerificationKey(doc.subject_public_key.bytes) ELSE Error("KeyMalformed")

(* TryFrom<&KeypairBytes>: from_der always takes the 32-byte secret key;   *)
(* the public key, when there is one, goes through from_public_key_der,    *)
(* which is given its 32 raw bytes.                                        *)
FromKeypairOf(keypair) ==
  LET expected == FromPublicDer(PublicSlice(Raw(keypair.public_key)))
      key      == SigningKey(keypair.secret_key)
  IN  IF keypair.public_key = NoBytes THEN key
      ELSE IF expected.kind = "Error" THEN Error("KeyMalformed")
      ELSE IF key.A_bytes = expected.A_bytes THEN key ELSE Error("KeyMalformed")
TryFromKeypair ==
  held.kind = "KeypairBytes" /\ Apply("try_from_keypair", FromKeypairOf(held))
-----------------------------------------------------------------------------
(* The verification key's own conversions. *)
ToSpki ==
  /\ held.kind \in {"VerificationKey", "SigningKey"}
  /\ Apply("to_public_key_der", Spki("Ed25519", Raw(held.A_bytes)))
FromSpki ==
  /\ held.kind \in {"Spki", "Pkcs8", "Garbage", "PublicSlice"}
  /\ Apply("from_public_key_der", FromPublicDer(held))

(* Mutant of KeyToBytes: the point is encoded again. *)
KeyToBytesReencoded ==
  /\ held.kind = "VerificationKey"
  /\ Apply("vk_bytes", PublicSlice(Raw(CHOOSE b \in Decodable : TRUE)))

KeyToBytes ==
  held.kind = "VerificationKey" /\ Apply("vk_bytes", PublicSlice(Raw(held.A_bytes)))

(* TryFrom<&[u8]> for VerificationKey *)
KeyFromSlice(x) ==
  IF x.form # "Raw" THEN Error("InvalidSliceLength")
  ELSE IF x.bytes \in Decodable THEN VerificationKey(x.bytes)
  ELSE Error("MalformedPublicKey")
KeyTryFromSlice ==
  held.kind = "PublicSlice" /\ Apply("vk_try_from_slice", KeyFromSlice(held.slice))

DocumentsNext ==
  \/ ToBytes \/ ToKeypair \/ ToPkcs8 \/ ToPkcs8V1 \/ ToVerificationKey
  \/ TryFromSlice \/ TryFromPrivateKeyInfo \/ FromDer \/ FromPkcs8
  \/ DecodeKeypair \/ TryFromKeypair
  \/ ToSpki \/ FromSpki \/ KeyToBytes \/ KeyTryFromSlice

DocumentsSpec == DocumentsInit /\ [][DocumentsNext]_documentVars
-----------------------------------------------------------------------------
Errors == {"InvalidSliceLength", "MalformedSecretKey", "MalformedPublicKey",
           "ParametersMalformed", "KeyMalformed", "Asn1", "OidUnknown"}
Keypairs == {Keypair(b, c) : b \in Bytes32, c \in Bytes32 \cup {NoBytes}}

DocumentTypes ==
  /\ held \in SigningKeys \cup VerificationKeys \cup Foreign \cup Keypairs
               \cup {Error(e) : e \in Errors} \cup {Panic}
  /\ origin \in SigningKeys \cup VerificationKeys \cup Foreign

Failed == held.kind \in {"Error", "Panic"}

(* A key that starts as a signing key is still that key after any chain of *)
(* conversions, and the verification key taken from any of its documents   *)
(* is its public key.  A verification key keeps the very bytes it was      *)
(* parsed from, canonical or not: the challenge is hashed over them, so    *)
(* re-encoding the point would change which signatures verify.             *)
KeysSurvive ==
  /\ origin.kind = "SigningKey" /\ held.kind = "SigningKey" => held = origin
  /\ held.kind = "VerificationKey" =>
    CASE origin.kind = "SigningKey" -> held.A_bytes = origin.A_bytes
      [] origin.kind = "VerificationKey" -> held = origin
      [] origin.kind = "Spki" -> held.A_bytes = origin.subject_public_key.bytes
      [] origin.kind = "PublicSlice" -> held.A_bytes = origin.slice.bytes
      [] OTHER -> TRUE

(* from_pkcs8_der and the conversion of a KeypairBytes never return a key  *)
(* for a document that names another public key.                           *)
MismatchRejected ==
  /\ last.method \in {"from_pkcs8_der", "try_from_keypair"}
  /\ held.kind = "SigningKey"
  => last.input.public_key \in {NoBytes, held.A_bytes}

(* What this library writes, the matching decoder reads: raw seeds, PKCS#8 *)
(* documents of either version, raw and SPKI public keys.                  *)
OwnDocumentsAccepted ==
  /\ origin.kind \in {"SigningKey", "VerificationKey"}
  /\ <<last.method, last.input.kind>> \in
       {<<"try_from_slice", "SecretSlice">>, <<"from_pkcs8_der", "Pkcs8">>,
        <<"keypair_from_pkcs8_der", "Pkcs8">>, <<"vk_try_from_slice", "PublicSlice">>,
        <<"from_public_key_der", "Spki">>}
  => ~ Failed

(* The comment in TryFrom<&KeypairBytes>: the public key is validated when *)
(* present, so a pair with the right public key is accepted.               *)
MatchingKeypairAccepted ==
  /\ last.method = "try_from_keypair"
  /\ last.input.public_key = Public[last.input.secret_key]
  => held.kind = "SigningKey"

=============================================================================

# A TLA+ development of the ed25519 signature library

This directory models the repository's Rust code: the half-size decomposition of the
challenge scalar ("HEEA") down to its limbs, the two verification modes built on it,
batch verification, signing keys and their documents; below them the limbs of field
elements and scalars, the recodings, the coordinates, encodings, maps and
multiplications of every kind of point, on the serial and the vector back end and
through CUDA; and beside them the BLS12-381 and BN254 system calls and the proof of
knowledge of a seed (POKOS). The modules are checked on small instances with
TLC; the decomposition, verification, batch verification, signing with its composition with
verification, key documents, the recodings of scalars, the scalar multiplications and POKOS are
also proved for every value of their constants with TLAPS.

`C/` below stands for `curve25519/solana-ed25519/src/`.

## 1. The system

| Part | State it keeps | Operations | Talks to |
|---|---|---|---|
| HEEA (`C/scalar/heea.rs`, `C/scalar.rs:539-571`) | loop rows `(r0, t0)`, `(r1, t1)`, cached lengths | `curve25519_heea_vartime`, `heea_decompose` | called by `verify_zebra_prehashed` |
| Verification (`C/ed_sigs/verification_key.rs`) | a key: `A_bytes`, `minus_A` | `try_from`, `default`, `verify`/`verify_zebra`, `verify_dalek` | HEEA, `mul_128_128_256`, decompression, SHA-512 |
| Batch (`C/ed_sigs/batch.rs`) | hash map from key to queued `(k, sig)`, `batch_size` | `queue`, `verify`, `verify_single` | caller's RNG, multiscalar multiplication, verification |
| Signing (`C/ed_sigs/signing_key.rs`) | seed, clamped scalar, prefix, key | expansion, `sign`, PKCS#8 conversions | base multiplication, SHA-512 |
| Recoding and scalar multiplication (`C/scalar.rs`, `C/window.rs`, `C/backend/**/scalar_mul`) | digit arrays, lookup tables | `non_adjacent_form`, `as_radix_16`, `as_radix_2w`, Straus, Pippenger, interleaved loops | Edwards formulas |
| Scalar and field arithmetic (`C/backend/**/{field,scalar}.rs`, `C/field.rs`, `C/scalar.rs`) | limbs | Montgomery reduction, inversion, square roots | everything above |
| Groups (`C/edwards.rs`, `C/ristretto.rs`, `C/montgomery.rs`, `C/lizard`, `C/short_weierstrass.rs`) | coordinates | encodings, group law, maps to the curve | verification, users |
| Back ends (`C/backend.rs`, `C/backend/vector`) | four-lane points, cached tables | the same operations in other coordinates | dispatch on the CPU and on the number of points |
| CUDA MSM (`curve25519/curve25519-cuda`) | none | `msm_curve25519` with its fallback | a kernel that is not in the repository, Edwards points |
| POKOS (`experimental/ed25519-pokos`) | trace rows, sealed proof, envelope | `gen_pokos`, `verify_pokos`, `serialize_proof`, `deserialize_proof` | an external STARK, ed25519 signatures |
| System calls (`syscall/*`) | none | point addition, subtraction, multiplication, decompression, validation, pairing | the runtime, external curve libraries |

The Lean development under `verification/`, the scripts, the constant tables and
the benchmarks are not program behaviour.

### What is hard here

Nothing in this library is concurrent and nothing is persisted. What a test
hardly reaches is numeric or structural:

* The Euclidean loop works with *approximate* quotients (powers of two), so
  remainders and cofactors change sign, and the loop's soundness (both halves
  short, no overflow of 256 bits, no infinite loop) hangs on an invariant that is
  written nowhere. `PROJECT.json` lists these at their lines.
* The transformed equation multiplies by `tau` and reduces `tau * s` modulo the
  prime order, on points that may have a torsion part. It is equivalent to the
  documented one only because `tau` is invertible and because of the cofactor.
* The same request can be decided by two modes with different equations.
* Recodings cut a scalar in windows that straddle 64-bit limbs and carry into the
  next digit; a digit is then an index into a table of a fixed size.
* Sums of 256-bit magnitudes drop their carries; some tables and halves of
  scalars are cut to fewer columns than the scalar has.
* Keys, their bytes and their documents have five forms that are converted into
  each other by a dozen functions, some of which check the public key.
* A point has a dozen representations and each operation several formulas, chosen by the
  CPU and the length of a list; a denominator that may be zero, a sign rule or a
  non-canonical string is a corner of one of them.
* Two byte orders of one system call must agree, and answers are fed to later calls.
* The constraints of an AIR must accept the honest trace, padding rows included, and
  nothing that proves another statement; a test only shows the first half.
* A batch is walked in the arbitrary order of a hash map, coefficients of one
  key are coalesced, and several early returns leave sums half built.

## 2. Modules and how they correspond to the code

| Module | Models |
|---|---|
| `Powers` | magnitudes, powers of two, `bit_length_i256`; signed digits and what an array of them stands for |
| `HalfSizePair`, `HalfSizeSplit` | what `HEEADecomposition` promises; the one-step abstract decomposition |
| `Heea` | `curve25519_heea_vartime` and `heea_decompose`: actions `Keep` (the new remainder replaces `r0`), `Swap` (the rows swap), `Return` (sign fix-up) |
| `EdwardsGroup` | points as logarithms in a cyclic group of order `8 * L`; encodings as (point, canonical?); the criteria listed in the doc of `VerificationKey::verify` |
| `Zip215` | the one-step abstract verifier |
| `Verification` | key parsing and both verification modes, one action per fallible step |
| `BatchVerification` | `batch::Verifier`: `Queue`, `StartVerify`, `NextKey`, `NextSignature`, `FinishKey`, `Check` |
| `LimbHeea` | the same loop on `I256` values, sign and four limbs with the carries they drop, which implements `Heea` (`LimbsImplementHeea`) |
| `Recoding` | the scans `non_adjacent_form`, `as_radix_16`, `as_radix_2w`, one action per window |
| `FieldLimbs`, `ScalarLimbs` | `FieldElement51`, one lane of `FieldElement2625x4`; `Scalar52` with Montgomery reduction, and the operations of `Scalar` over it, batch inversion included |
| `Numbers` | one recoding, or a sequence of calls on scalars and field elements |
| `MulCalls`, `LinearCombination` | calls of a multiplication; the one-step abstract multiplication |
| `ScalarMul` | a call of any of eight multiplications: double-base, triple-base, Straus and precomputed Straus over non-adjacent forms, where `Start*` builds tables and digits and `DoubleAndAdd` is one place; variable base, constant-time Straus and Pippenger with buckets, where `ShiftAndAdd` is one place; basepoint tables with their two passes `OddDigit` and `EvenDigit` |
| `CurveReference` | a small prime field with its exponent chains; what calls on points promise, over affine points and the complete addition law |
| `EdwardsPoints`, `MontgomeryForm`, `Ristretto` | the coordinates and formulas of `EdwardsPoint`; the ladder, Elligator 2 and the Weierstrass form; Ristretto encoding, equality and maps, Lizard and the inverse maps |
| `PointTables` | the four-lane points of the vector back end, and the lookup tables of both back ends |
| `PointTypes` | the multiplications of both back ends on their coordinates, the dispatch, the methods of the point types, hashing to the curve, `msm_curve25519` |
| `PointAnswers`, `Points` | the one-step answer every call promises; calls on points: read, operate, write |
| `Syscalls` | every system call of both curves, one action per call, on a point a program keeps |
| `Pokos` | the chain of three hashes, its trace and constraints, the sealed proof and its envelope: `LayRow` and `FinishSegment` lay any rows the constraints let through; `BuildBundle`, `Send`, `Fault`, `Receive` are an honest owner, a wire and a verifier |
| `Signing` | expansion with clamping; `Load`, `Zeroize`, `Sign` |
| `SignAndVerify` | `Signing` composed with `Verification`: what is signed is submitted |
| `KeyDocuments` | every conversion between keys, byte strings, key pairs, PKCS#8 and SPKI documents |
| `MC*` | the instances TLC checks |
| `PowersProofs` | induction and recursion over the naturals; lemmas on powers of two, bit lengths, division, sums of digits |
| `EdwardsGroupProofs` | lemmas on congruences, the group and sums of points |
| `HeeaProofs`, `BatchVerificationProofs`, `SignatureProofs` (`Verification`, `Signing`, `SignAndVerify` and `KeyDocuments`), `RecodingProofs`, `ScalarMulProofs`, `PokosProofs` | the theorems |

Composition. `LimbHeea` implements `Heea` (`ImplementsHeea`: the limbs of each I256 are mapped
to the integer they stand for). `Heea` implements `HalfSizeSplit` (`ImplementsSplit`).
`Verification` uses the *abstract* split: `ZebraDecompose` takes any member of
`HalfSizePair!Splits(h)`. So what is shown of verification holds for the loop
and for any replacement of it that keeps the promise. `Verification` in turn
implements `Zip215`. `BatchVerification` measures its verdicts against the same
criteria. `ScalarMul` takes the digits `Powers` defines and implements `LinearCombination`;
`Numbers` extends `Recoding` and shows that the code's scans compute those digits. Both choose
the method in their initial states and state each property once for all methods.
`SignAndVerify` extends `Signing` and `Verification`: signing steps until a signature
is submitted, then the verifier does, with that signature as its request.

`Points` runs the loops of both kinds again on real coordinates (`PointTypes`) and implements
`PointAnswers`, which knows affine points only: that refinement covers every representation,
formula, back end and table at once. Where `Verification`, `BatchVerification` and
`ScalarMul` take the group law as given, `Points` is what shows that the code's formulas
compute it.

State. In `Heea`, `v`, `r0`, `r1`, `t0`, `t1`, `bl_r0`, `bl_r1` are the Rust locals;
`done` and `out` are the return value. In `Verification`, `key` and `minus_A` are the
`VerificationKey`, `pc` with `split`, `s`, `neg_R` the running call, `zebra` and `dalek` the last verdict of
each mode. In `BatchVerification`, `signatures`, `batch_size` and the coefficient and
point vectors have the names of the code, `todo` is what the map iterator has
not yet yielded, `queued` and `drawn` are history variables no action reads.

Abstractions. In `Verification` SHA-512 is left out: a request carries its challenge
`h`, and the properties hold for every `h`. In `Signing` the two hashes of `sign` are
sampled when first needed and remembered, so that a run covers every pair of
functions on the inputs it meets; the hash of the seed is a constant function. In
`Heea` the I256 values are integers; `NoLimbOverflow` says that they fit, and
`LimbHeea` that the limbs then hold them. A curve
point is its logarithm in these modules; the formulas have modules of their own. An
encoding that does not decode is one value, `Undecodable`.

In `Points` a field element is an integer modulo a prime of 7 bits; the strings of the code are
the integers they spell, of 8 bits, so that both signs, values from `p` on and points off the
curve occur. Constant-time selection is its result. In `Numbers` a vector register is one lane:
the shuffles between lanes are in `PointTables`. In `Syscalls` the curve libraries are
external: curves over fields of 19 and 43 elements and their quadratic extensions, with the libraries' own
flags, decoders and subgroup tests (`blstrs`; `ark_bn254` 0.5.0, `DeserializeUncompressed`), modelled from those
libraries' formats because their source is not in the repository. `StandsFor` lists the encodings of a point: one on BLS12-381; on BN254
two, with and without the library's sign flag, and for infinity also any coordinates under its infinity flag. In `Pokos` the sizes are constants: the
bits of a limb, four of which make a word, the modulus, the rounds, the rows of a segment, the words of a block
and of its payload, the lags the schedule reads; so are the initial state, the round constants and the domains. A
value's bit columns exist exactly when it is in range. The STARK is external: it accepts a proof
for public values when a trace satisfies the constraints, under the settings and the preprocessed
rows it was made for. A cell of an envelope is a field of it; its length comes from the wire.

## 3. What the runs check

| Run | Instance | Shows |
|---|---|---|
| `heea` | all 4099 challenges below `L = 2^12 + 3`, `BL = 13`, `Half = 7`, on integers and on four limbs of 4 bits (`Width = 16`) at once | the loop's invariants, `ImplementsHeea` (the limbs compute what the integers do), `ImplementsSplit`, `Terminates` |
| `verification` | a group of order 40, all encodings for `A` and `R`, all `h`, `s` on both sides of `L`, every admissible split, calls of both modes in any order and number | `ImplementsZip215`, `DalekImpliesZebra`, `DalekIsStrict`, `TripleMulOperands` |
| `batch` | up to 3 items out of 8 (valid, torsion, bad `s`, large `s`, undecodable `R` and `A`), two keys and one undecodable, every draw | the batch properties |
| `numbers` | recodings: two limbs of 12 bits, edge values in each limb, widths 2, 5, 8 and 4 to 8, digits in a real i8; scalars: three limbs of 6 bits, `L = 4133`; field elements: three limbs of 9 bits in words of 20, or six of 5 and 4 | the digits stand for the scalar at every step, are those of the reference definition and fit the tables; `LimbsExact`: every call on limbs answers what the integers modulo `L` and `p` do |
| `scalar_mul` | a group of order 8 * 127, lists of 0 to 3 points, undecodable ones too; non-adjacent forms: scalars of 8 bits cut in halves of 4, tables for digits of 3 and 4 bits; windows: scalars of 16 bits with digits of the real widths 4 to 8 | `ImplementsCombination`, `SelectsInTable`, `HornerInv` |
| `points` | the field of 109 elements, a curve of order 8 * 13 with a twist of order 4 * 29; every string, every Elligator argument, operands of every torsion with several denominators, lists of 0 to 4 points and scalars of 16 bits | `ImplementsReference`, `VerdictsAreExact`, `InversesAreExact` |
| `lizard_inverse` | the same | expected violation, see 6 |
| `syscalls` | programs of three calls, both curves, both groups, both byte orders, good, bad and flagged encodings, every length | `AnswersAreExact`, `HeldIsEncoded` |
| `pokos` | two seeds; all rows a prover may lay, carries included; settings below, at and above the verifier's minimum; envelopes cut, extended, changed and mixed | `HonestTraceSatisfies`, `AcceptedTracesAreHonest`, `EnvelopesAreExact` |
| `sign_and_verify` | `L = 11`, `Scale = 32`, every clamped scalar, two messages, two signatures, splits below 4 | the key and signature properties, `HonestSignaturesAccepted` |
| `key_documents` | four byte strings, one of which does not decode and two of which are public keys | the conversion properties |
| `matching_keypair` | the same | expected violation, see 6 |

Why the bounds are enough. `L = 2^k + c` with small `c` is the shape of the real order
and makes the first quotient extreme; all its challenges are tried, with runs of sign
changes, long shifts, and `v = 0`, and `Width = BL + 3` is the real margin
(`253 + 3 = 256`). With `L = 5`
every residue, every torsion class and every split occurs. Three items allow a
coalesced key, a second key, and an early return between them.

The curve of `points` keeps what the formulas depend on: `p = 5 mod 8`, the constants' signs,
order eight times a prime, a twist of four times a prime. All its field elements are tried, so
zero denominators, exceptional points and non-canonical strings all occur. A second operation
after the first would start from points that already occur with several denominators, so a
call follows at most one reading, one operation and one writing. The operations
the code reaches only with reduced limbs are called on limbs at their bounds in `numbers`, `LimbEdges`.
In `syscalls` three calls cover an answer that is fed to a call whose answer is fed on. BN254's
prime has 6 of 8 bits, and twice the prime exceeds 64, so flags share a byte with `y` and a coordinate past the prime runs into them, as with
254 of 256 bits; encodings under each flag, on the curve, off it and past the prime, are operands of every BN254 call. In `pokos` (`MCPokos`) a word has four limbs of 2 bits, a compression 8 rounds,
a segment 16 rows, and the schedule looks back 5 words;
the modulus 41 exceeds every sum of limbs and is smaller than a word, as the real one is, so that
limbs are exact and whole words are not; 16 rows leave padding rows after the one that follows the rounds, past the
last lag. After 8 rounds every constant of the schedule's look-back has been used, and every state
word has come from a sum.

The recodings of `numbers` have short limbs but the real widths, so a window straddles two
limbs at every offset and the last window is cut short; 127 and 128 are among the
digits met. The multiplications differ between lists of no, one and several
points; the numbers of points at which Pippenger starts and changes
its width are 1, 2 and 3. `Scale = 32` with `L = 11` keeps `Scale < 4 L`, which is what makes a
clamped scalar less than `8 L`. Two signatures are enough for the properties of
`Signing`, which compare two. In `sign_and_verify` halves below 4 cover both signs,
`rho = 0`, and several decompositions of one challenge. `I256` has four limbs as in the code; limbs of 4
bits have values that are neither 0 nor full, shifts inside a limb and over several.

Deadlock checking is on where the system goes on for ever (`sign_and_verify`) or says that it has ended (`pokos`) and off where it really stops: a decomposition or a multiplication
returns, a malformed key is never used, a batch is consumed, a conversion ends in
an error.

Fairness. `Heea!FairSpec` and `BatchVerification!Spec` assume weak fairness of the
running call's steps only: these are loops in the caller's thread, which nothing
blocks. Callers are not assumed to make any call.

## 4. What is proved

All theorems hold for every value of the constants that satisfies the named
assumptions (`HeeaAssumption`, `LimbAssumption`, `GroupAssumption`, `VerificationAssumption`,
`BatchAssumption`, `SigningAssumption`, `HashAssumption`, `RequestsAssumption`, `LegacyOutsideSubgroup`, `DocumentAssumption`,
`RecodingAssumption`, `CallsAssumption`, `NafAssumption`, `WindowAssumption`, `SizesAssumption`, `ConstantsAssumption`);
the listed literals of the code (253, 127, 256, `2^128`, 64 bits, 80 rounds) are instances.

**Decomposition (`HeeaProofs`).** Everything follows from one inductive
invariant: `TypeOK`, `CachedLengths`, `CongruentRows`, `UnitDeterminant`, `CofactorInv` (and
facts on `out`). Only the last is not evident. In an exact Euclidean algorithm
`|r0 * t1| <= L` because the two terms of the determinant have
opposite signs. Here quotients are rounded down to powers of two, remainders
change sign, and that fails. `CofactorInv` repairs it: writing `Product` for
`r0 * t1` with the determinant's sign, and `P0`, `P1` for the leading powers of two of
`r0`, `r1`,

    Product <= 2L
    Product * (2 P0 - |r0|)  <=  L * |r0|
    -Product * P1            <=  L * (|r1| - P1)

A row operation turns `Product` into `M` with `M <= L` and `-M * P0 <= L * (b - P0)` (lemma
`CofactorStep`); `Keep` leaves `M` as the next product and `Swap` leaves `L - M`. When the
loop stops this yields `|t1| < 2^(BL + 1 - Half)`, `2^127` in the code, which is
what `mul_128_128_256` needs, and with `|t1| < L` and `t1 # 0` the invertibility of `tau`
(`TauStaysInvertible`). `LimbsNeverOverflow`, `LoopShortens` and `HeeaImplementsSplit` are consequences.

`LimbsImplementHeea` carries all of this over to the code as compiled, on four limbs of any width. Its invariant `LimbInv` adds to
the loop's that each `I256` is `Proper`: its limbs are in range and no zero has its sign flag set, which is what makes
`Ord` and `IsNegative` decide as integers do. For proper values each operation is shown to be the integers' one when its
result fits: the carries and borrows of `add_limbs` and `sub_limbs` telescope (`ColumnsAdd`), `cmp_magnitude` is the order of
the magnitudes, and a shifted array with the bits above its top limb is the product (`FiveIs`), so that
those bits are 0 when the product is below `2^Width` (`TopsVanish`). `NoLimbOverflow` is exactly that condition, for
both rows (`LimbCombineIs`); `bit_length_i256` is the length of the integer (`BitLengthI256Is`).

**Verification (`SignatureProofs`).** The transformed sum is congruent to
`tau * (8 s - R - h A)` modulo `L`, whichever sign `flip_h` records. `tau` is invertible
modulo the prime `L`, and multiplication by the cofactor kills exactly the multiples of `L`
(`CofactorKills`), so the check passes exactly when the ZIP-215 equation holds:
`ZebraImplementsZip215`. `DalekIsSubsumed`, `DalekStrict` and `OperandsFit` follow from the
same inductive invariant, which records what each program counter value has
already checked.

**Signing (`SignatureProofs`).** The inductive invariant `SigningInv` adds to `SigningTypes` where keys come from
(`KeyInv`: `FromSeed` of the seed, or `Zeroized`) and that a signature is computed from the hash
values now remembered (`SignatureInv`; it needs `SigningTypes` to place those values below `L`, and
it is kept because `Remember` never changes a known value). `KeysNeverTorsion`: a clamped
scalar is `8 m` with `0 < m < L` (`ClampRange`, from `Scale < 4 L`), so it is not zero modulo the prime
`L`, and only the multiple 0 of the basepoint is torsion. `SignedVerifies` is the group arithmetic of
both verification equations. `NonceReuseIsCollision`: the multiples of the basepoint below `L`
differ, so one `R` is one nonce, and two signatures with one nonce input and one `R` have
one challenge. `SigningDeterministic` follows from the invariant.

For the composition, `SystemInv` joins this invariant and the verifier's. `RequestsAssumption` says that the
verifier's requests include whatever a signer can make. It adds that the verifier has done nothing before it has a request, that the request
is a signature in hand, and why the strict mode rejected it. Such a request is `Honest`: its points are
multiples of the basepoint, it satisfies ZIP-215 and the recomputation of `R`. An honest key decodes and is not the
excluded point of order 4, because `L` is odd; an honest `R` is none of the legacy encodings but the
identity's, for the same reason and by `LegacyOutsideSubgroup`, which says that the two large-order points of the list are
no multiples of 8. `DalekRejects` goes through the steps of the strict mode with these
facts, and `SignedIsAccepted` follows. `SystemSigns`: the composition is a behaviour of `Signing`, so the other theorems hold in it too.

**Key documents (`SignatureProofs`).** `DocumentInv` relates what is in hand to what the run started
from: `Follows` lists, for each kind of origin, the keys and documents its conversions can reach, and two of the
properties join it because they speak of the last conversion. Every conversion returns one of the listed forms of the
same key, or an error (`Kept`, and one lemma per form).
`KeysAreKept`, `MismatchesRejected` and `OwnDocumentsRead` hold for any byte strings, whichever of them decode or are public
keys of others.

**Batch (`BatchVerificationProofs`).** `BatchInvariant` is the inductive invariant. It says what
the hash map holds (`QueueInv`: its entries are the queued items, key by key), how far the walk is
(`WalkInv`: what was drawn is, key by key, what the walk has passed), what the sums stand for
(`SumsInv`: the coefficients and points collected so far are, modulo `L` after the cofactor, the sum
of the drawn terms) and what a verdict means (`VerdictInv`). Sums are folds, so the
proof rests on lemmas about the partial sums of `FoldLeft(Add, 0, s)`: what appending and
concatenating do, and that a sum of points that `L` divides, but one, is that one modulo `L`. Hence
`CoalescingExact`: coalescing the `z * h` of a key and reducing them does not change the sum once the
cofactor is applied, in whatever order the map is walked. `ValidBatches`: then every term is a
multiple of `L`, whatever the draws. `InvalidBatches`: an acceptance follows a walk over every item; with
one invalid item the sum is its own term `z * (8s - R - h A)`, and `L` is prime.

**Recodings (`RecodingProofs`).** The recurrences of Algorithm 3.35 and of repeated centered
division have solutions on all naturals, `NafK` and `RadixQ` (`NatRecursion`), with which the recursive functions of
`Powers` agree on their finite domains. `RecodingInvariant` ties the scans to them: what a scan has not read,
with its carry, is `NafK` or `RadixQ` at the place reached; the digits written are theirs; the digits and
the rest add up to the scalar. A step changes one digit or two, and `DigitSumUpdate` says what that does to the sum.
`BitBufIsWindow` shows that a window cut from one limb or or-ed from two is the window of the scalar, for every
limb width above 8; `ToI8` is shown to lose nothing, which for 7 bits needs that 7 does not divide the number
of bits (`TopQuotient`) and for 8 the extra digit. `RecodingsAreExact` and `DigitsFit` follow.

**Scalar multiplication (`ScalarMulProofs`).** A sum of weighed points is linear in its weights (`WeighCombines`),
and what one place of a loop adds is such a sum, weighed by the digits at the place: in Straus' tables
(`TableColumnIs`) and in Pippenger's buckets, whose two running sums weigh bucket `b` by `b + 1` (`BucketSumIs`). What
a recoding leaves of a scalar at a place is `2^w` times what it leaves at the next, plus the digit. So the inductive
invariant `ScalarMulInv` says: the accumulator is the sum of the points weighed by what is left of their scalars above the place
the loop is at, and what is left at place 0 is the scalars. It must also say that nothing is left above the place a
loop *starts* at, which is where the methods differ: the highest nonzero digit (`NafStartsAtTop`), for
`triple_base` no higher than one place above the halves because the carry of a half goes no further
(`TripleStarts`; its four terms then weigh `b` by `b mod 2^Half` and `b div 2^Half`), or the last digit. A basepoint table sums the
odd places, shifts, and sums the even ones: its invariant has one partial sum per pass. `ScalarMulInvariant` gives
`DigitsSelect`, `Horner` and `MulsAreCombinations`: each method returns the linear combination, in every
build, or refuses as its call allows. Assumed are the sizes in the code (halves of 128 bits with `2^128 <= L`, digit
widths of 2 to 8, scalars below `2^255`, Pippenger only from its threshold on) and the calls' arities.

**POKOS (`PokosProofs`).** `SizesAssumption` asks that the modulus exceeds nine times a limb, that a block
has room for domain, payload, end marker and length, and that a segment has rows beyond its rounds. Words are four limbs of any width,
and a rotation or choice written as a polynomial in bits is the bitwise function (`BigSigma0IsWord` to `MajIsWord`).
Both halves of what constraints are for are proved.

*Soundness* (`TracesAreHonest`). With limbs in range and carries of at most four no limb-wise sum reaches the modulus, so
the field sees what the integers do (`SumExact`). `TracesAreBound` is the inductive
invariant: row by row, the state of the row being laid is that of the seed's compression (`StateMatches`; A and E only loosely, until the
row's bits are asked for), its lags are the
schedule's words from the first round on, the private key columns are the derived key once the second segment has
spoken of them, and the public values found are residues of the states after the rounds. `RoundIsExact` is its step:
`W` is bound by the template, by the seed's or key's columns, or by the recurrence, whose lags are by then no longer the
free ones of a first row. After the last round A and E have no bits; `Loose` says what is left of them, `LooseSum` that
the private key is exact all the same, although its sum borrows carries of up to 7, and `LooseValue` how far
two of the public values are open.

*Completeness* (`HonestTraceSatisfied`). `RowsAreHonest` writes the trace's rows out, state, helpers,
lags and carries. `HonestNext` says how a row follows from the one before it, in the rounds and in the padding after them;
with `OperandsSum`, that computed carries satisfy a sum and fit their columns, it gives every
constraint of a row: `SegmentHolds` for the three segments, the borrowed carries of the derived key included (`HonestKey`),
`PaddingHolds` for the fourth. The rows the verifier derives agree with the prover's because outside the payload a block does not depend
on it (`TemplateIsBlock`, `SamePreprocessed`).

*The envelope* (`EnvelopesExact`). The invariant `EnvelopesAreKnown` lists what can be on the wire: an honest envelope, or one
with a cell changed, its end cut, or another appended. `VerdictOfCells` is the verdict on eight cells, cell by cell; a changed
cell either breaks one of its equations or is the cell of another honest envelope in full (`ArrivalVerdict`).

Induction over data is expressed as induction over a set of naturals (`SetInduction`, derived from
`LeastElement`), because the library's induction theorems take an operator as a parameter.

## 5. Only model-checked

Liveness (`Terminates`, `VerifyReturns`), which the proof system does not reach, though
`LoopShortens` is the ranking argument; everything about coordinates (`points`), the limbs of field elements and
scalars (`LimbsExact`) and system calls, where the formulas are checked exhaustively over small fields. A proof of those needs polynomial
identities in up to eight variables over a prime field, or products of many limbs, which is nonlinear arithmetic the solvers do not finish.

## 6. Findings

Each is a run that TLC must find violated, with the line it contradicts in
`PROJECT.json`.

`RistrettoPoint::map_to_curve_inverse` misses a preimage: the Jacobi quartic has two arguments
with a zero denominator and only one of them is looked for, so a point that
`map_to_curve_restricted` makes of the other is not found again, against that function's
doc (run `lizard_inverse`). `InversesAreExact` states what holds instead.

`TryFrom<&KeypairBytes>` validates a public key by parsing its 32 raw bytes as an
SPKI document and so rejects every pair that has one (run `matching_keypair`).
Not runs of their own, but visible in the models: `verify_dalek` is documented to recompute the
canonical encoding of `R` and compare it (`C/ed_sigs/verification_key.rs:427-431`), and first rejects an
all-zero `A` and eleven listed encodings of `R` (line 442), also when the recomputed encoding is the
listed one. Of the eleven, five are canonical
encodings of points of order 4, 1, 8, 8 and 2; two are non-canonical; two
(`b417..fa`, `d9ff..ff`) do not decode; and two (`13e8..85`, `daff..ff`) are the canonical
encodings of points of large order. The latter have a torsion part of order 8,
so no honest `R` equals them: of honest signatures the mode rejects only
those with nonce 0 (`HonestSignaturesAccepted`, proved as `SignedIsAccepted`).
`TryFrom<PrivateKeyInfo>` (`C/ed_sigs/signing_key.rs:185`) takes the private key field as the seed although the library's own
documents wrap the seed in a second octet string, as the comment in `to_pkcs8_der` says they must; it
refuses them (`KeyDocuments!TryFromPrivateKeyInfo`). `SigningKey::from_der`, documented to parse
DER, takes exactly 32 raw bytes (`KeyDocuments!FromDerOf`); `mul_128_128_256` is documented
(`C/edwards.rs:1076-1078`) for `a1`, `a2` below 2^128, and in a release build it ignores the digits
of a longer scalar above place 128 (`MulCalls!Outcomes`; `Verification` never passes one:
`TripleMulOperands`, proved as `OperandsFit`); `from_pkcs8_der` panics on a document whose inner
structure does not parse; a zeroized signing key compares equal to the key of
32 zero bytes, because equality looks at the seed alone; the doc of `HEEADecomposition::heea_decompose`
(`C/traits.rs:431-437`) says `k = k1 + k2 * h` for a fixed `h`; the code
returns `rho = +-tau * k`, as the comment in `C/scalar.rs:540-545` says.

Of points: the inverse of 0 is found twice by `map_to_curve_inverse`; `SwPoint::to_edwards` has no image
for the point of order two, so `msm_curve25519` sums a list with it on a card and refuses it without
one (`PointAnswers!OnCuda`); `to_montgomery` takes the identity to 0; the table
`AFFINE_ODD_MULTIPLES_OF_BASEPOINT_128` holds projective Niels points; a precomputed multiplication
reports an undecodable point before lists of different lengths, the other ones after.

Of the BN254 calls: `into_affine` appends a zero byte "to indicate infinity = false"
(`syscall/bn254-syscall/src/lib.rs:114`). The library's format takes its two flags from the top bits of the last byte of `y`
(`y.c1` on G2), for which the prime leaves room, and never reads the appended byte. So bytes other than zeros
can be infinity, and a point has a second encoding; `AnswersAreExact` says which, and `HeldIsEncoded` that no call
answers one. No run contradicts the comment: the contradiction is in code the repository does not hold.

Of POKOS: public values are compared in the field only, so a digest word is bound modulo its 31-bit prime; after
the rounds the limbs of A and E have no bit columns, so their top carries are open and these two words are bound up to
a multiple of the word's modulus (`AcceptedTracesAreHonest` says so exactly); no constraint ties the authentication
key to the private key, which the crate's readme documents; `VerifyError::InvalidSignature`
cannot occur, since a signature of the right length always parses; `ACTIVE_AIR_TRACE_COLS` is 1076,
without the 44 selector and private columns that follow, and is not used.

## 7. Not modelled

The pre-computed tables of the constants files, whose entries enter as the constants of smaller
curves and whose generated multiples `PointTables` computes: their 9 000 lines are data. The CUDA kernel, the STARK prover and verifier, the curve libraries of the system calls, and
hash functions: external. PEM and serde are other text forms of what `KeyDocuments` has.
Benches, scripts and the Lean development are no program behaviour. Timing
and memory wiping beyond the fields `zeroize` assigns are out of reach of this kind of model.

## 8. Plan

Done: every component of section 1, with hashing inside verification left as a parameter. What is left, in order of importance:

1. **Theorems.** The completeness of the addition law over `CurveReference`, from the nonsquare `d`.
2. **Larger instances.** A second curve for `points` with other residues of its constants; longer
   programs for `syscalls`.

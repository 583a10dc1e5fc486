------------------------------- MODULE Pokos -------------------------------
(***************************************************************************)
(* Proof of knowledge of a seed: the three-segment SHA-512 chain, the      *)
(* columns and constraints (the AIR) that prove it, and the signed,        *)
(* serialized envelope around the proof.                                   *)
(*                                                                         *)
(* The arithmetic keeps the code's shape whatever its sizes: a word has    *)
(* LIMBS_PER_WORD limbs of LIMB_BITS bits, columns hold residues modulo P, *)
(* and P is smaller than a word but larger than any sum of limbs, as in    *)
(* the code.  The bit columns of a value are not kept: they exist exactly  *)
(* when the value is in range, and that is how their constraints read      *)
(* here.  The proof system itself is external: it accepts a proof when the *)
(* trace behind it satisfies the constraints.                              *)
(*                                                                         *)
(* Two kinds of behaviour start from a seed.  One lays out ANY rows that   *)
(* satisfy the constraints, one row per step; the other generates an       *)
(* envelope, sends it over a faulty wire, and reads and verifies it.       *)
(***************************************************************************)
EXTENDS Powers, Sequences

CONSTANTS
  LIMB_BITS,           \* bits per limb (16 in the code)
  P,                   \* the field's modulus (2^31 - 2^24 + 1)
  ROUNDS,              \* rounds of a compression (80)
  TRACE_ROWS,          \* rows of a segment (128)
  BLOCK_WORDS,         \* words of a block (16)
  PAYLOAD_WORD_START,  \* words of the domain, which the payload follows (4)
  PAYLOAD_WORD_COUNT,  \* words of a payload (4)
  LAG_ADDED,           \* the words the schedule reads back, besides the     *)
  LAG_SIGMA0,          \* second one and the last (7 - 1 and 15 - 1)
  INITIAL_STATE, K,    \* the constants of the hash
  COMMIT_OF_SEED_DOMAIN, DERIVE_SK_DOMAIN, HASH_OF_SK_DOMAIN,
  FreeLags,            \* limbs a prover may give the lags of a first row
  Seeds                \* the seeds tried, as numbers

LIMBS_PER_WORD == 4
LIMB_VALUES == Pow2[LIMB_BITS]
WORD_BITS == LIMBS_PER_WORD * LIMB_BITS
WORDS == Pow2[WORD_BITS]
Word == 0..WORDS - 1
Field == 0..P - 1
Limbs == 0..LIMB_VALUES - 1
FIXED_MESSAGE_WORDS == PAYLOAD_WORD_START + PAYLOAD_WORD_COUNT

(* The trace keeps the words of a block's length as lags, newest first. *)
LAG_COUNT == BLOCK_WORDS
LAG_SIGMA1 == 1
LAG_LAST == LAG_COUNT - 1

ASSUME SizesAssumption ==
  /\ LIMB_BITS \in Nat \ {0}
  /\ P \in Nat /\ P > 9 * LIMB_VALUES           \* no sum of limbs wraps in the field
  /\ PAYLOAD_WORD_START \in Nat /\ PAYLOAD_WORD_COUNT \in 1..4
  /\ BLOCK_WORDS \in Nat /\ BLOCK_WORDS >= FIXED_MESSAGE_WORDS + 2
  /\ FIXED_MESSAGE_WORDS * WORD_BITS < WORDS
  /\ LAG_ADDED \in 1..LAG_LAST /\ LAG_SIGMA0 \in 1..LAG_LAST
  /\ ROUNDS \in Nat /\ ROUNDS > BLOCK_WORDS
  /\ TRACE_ROWS \in Nat /\ TRACE_ROWS > ROUNDS + 1

ASSUME ConstantsAssumption ==
  /\ INITIAL_STATE \in [1..8 -> Word] /\ K \in [1..ROUNDS -> Word]
  /\ {COMMIT_OF_SEED_DOMAIN, DERIVE_SK_DOMAIN, HASH_OF_SK_DOMAIN}
       \subseteq [1..PAYLOAD_WORD_START -> Word]
  /\ FreeLags \subseteq [1..LIMBS_PER_WORD -> Field]
  /\ Seeds \subseteq Nat

(* -------------------------- words and bits -------------------------- *)

bb(x) == x % P

BitPlaces == 0..WORD_BITS - 1
Bit(x, i) == (x \div Pow2[i]) % 2

(* The word with these bits. *)
FromBits(bits) == DigitSum(bits, 1, WORD_BITS)

Xor(b, c, d) == (b + c + d) % 2
RotateRight(x, n) == FromBits([i \in BitPlaces |-> Bit(x, (i + n) % WORD_BITS)])
XorWords(x, y, z) ==
  FromBits([i \in BitPlaces |-> Xor(Bit(x, i), Bit(y, i), Bit(z, i))])
WrappingAdd(x, y) == (x + y) % WORDS

ch(x, y, z) ==
  FromBits([i \in BitPlaces |-> IF Bit(x, i) = 1 THEN Bit(y, i) ELSE Bit(z, i)])
maj(x, y, z) ==
  FromBits([i \in BitPlaces |-> IF Bit(x, i) + Bit(y, i) + Bit(z, i) >= 2 THEN 1 ELSE 0])
big_sigma0(x) ==
  XorWords(RotateRight(x, 28), RotateRight(x, 34), RotateRight(x, 39))
big_sigma1(x) ==
  XorWords(RotateRight(x, 14), RotateRight(x, 18), RotateRight(x, 41))
small_sigma0(x) ==
  XorWords(RotateRight(x, 1), RotateRight(x, 8), x \div Pow2[7])
small_sigma1(x) ==
  XorWords(RotateRight(x, 19), RotateRight(x, 61), x \div Pow2[6])

u64_to_limbs(value) ==
  [l \in 1..LIMBS_PER_WORD |-> (value \div Pow2[LIMB_BITS * (l - 1)]) % LIMB_VALUES]
limbs_to_u64(limbs) ==
  limbs[1] + Pow2[LIMB_BITS] * limbs[2] + Pow2[LIMB_BITS * 2] * limbs[3]
    + Pow2[LIMB_BITS * 3] * limbs[4]
EachInLimbs(values) == [i \in DOMAIN values |-> u64_to_limbs(values[i])]

(* A word as the field sees it, whatever its limbs hold. *)
pack_word_from_limbs(limbs) == limbs_to_u64(limbs) % P

(* The sum of one limb of all operands. *)
ColumnSum(operands, l) ==
  Sum([o \in Nat |-> IF o < Len(operands) THEN operands[o + 1][l] ELSE 0])[Len(operands)]

(* The carries of a limb-wise addition. *)
add_with_carries(operands) ==
  LET c1 == ColumnSum(operands, 1) \div LIMB_VALUES
      c2 == (ColumnSum(operands, 2) + c1) \div LIMB_VALUES
      c3 == (ColumnSum(operands, 3) + c2) \div LIMB_VALUES
  IN  <<c1, c2, c3, (ColumnSum(operands, 4) + c3) \div LIMB_VALUES>>

(* ------------------------- the compression -------------------------- *)

(* A round from the two words it adds: the registers shift. *)
Shifted(s, t1, t2) ==
  <<WrappingAdd(t1, t2), s[1], s[2], s[3], WrappingAdd(s[4], t1), s[5], s[6], s[7]>>
Temp1(s, k, w) == (s[8] + big_sigma1(s[5]) + ch(s[5], s[6], s[7]) + k + w) % WORDS
Temp2(s) == WrappingAdd(big_sigma0(s[1]), maj(s[1], s[2], s[3]))

(* The word of the schedule at place t, from the ones before it. *)
ScheduleWord(w, t) ==
  (small_sigma1(w[t - LAG_SIGMA1 - 1]) + w[t - LAG_ADDED - 1]
     + small_sigma0(w[t - LAG_SIGMA0 - 1]) + w[t - LAG_LAST - 1]) % WORDS

(* The words and the round states of one compression of a block.           *)
compress_block(state, block) ==
  LET filled[i \in 0..ROUNDS - BLOCK_WORDS] ==
        IF i = 0 THEN [t \in 1..ROUNDS |-> IF t <= BLOCK_WORDS THEN block[t] ELSE 0]
        ELSE [filled[i - 1] EXCEPT
                ![BLOCK_WORDS + i] = ScheduleWord(filled[i - 1], BLOCK_WORDS + i)]
      words == filled[ROUNDS - BLOCK_WORDS]
      after[n \in 0..ROUNDS] ==
        IF n = 0 THEN state
        ELSE LET s == after[n - 1] IN Shifted(s, Temp1(s, K[n], words[n]), Temp2(s))
  IN  [words |-> words, round_states |-> [n \in 0..ROUNDS |-> after[n]]]

segment_domain ==
  [Commit |-> COMMIT_OF_SEED_DOMAIN, Derive |-> DERIVE_SK_DOMAIN,
   HashSk |-> HASH_OF_SK_DOMAIN]

payload_words(seed) ==
  [i \in 1..PAYLOAD_WORD_COUNT |->
     (seed \div Pow2[WORD_BITS * (PAYLOAD_WORD_COUNT - i)]) % WORDS]

(* The domain, the payload, the end marker and the length in bits. *)
fixed_single_block(domain, payload) ==
  [i \in 1..BLOCK_WORDS |->
     CASE i <= PAYLOAD_WORD_START -> domain[i]
       [] i \in PAYLOAD_WORD_START + 1..FIXED_MESSAGE_WORDS -> payload[i - PAYLOAD_WORD_START]
       [] i = FIXED_MESSAGE_WORDS + 1 -> WORDS \div 2
       [] i \in FIXED_MESSAGE_WORDS + 2..BLOCK_WORDS - 1 -> 0
       [] i = BLOCK_WORDS -> FIXED_MESSAGE_WORDS * WORD_BITS]
segment_block(kind, payload) == fixed_single_block(segment_domain[kind], payload)

(* The digest of a segment's message: a single block from the standard's   *)
(* initial state, with the feed-forward addition.                          *)
sha512(kind, payload) ==
  LET trace == compress_block(INITIAL_STATE, segment_block(kind, payload))
  IN  [i \in 1..8 |-> WrappingAdd(INITIAL_STATE[i], trace.round_states[ROUNDS][i])]

commit_of_seed(seed) == sha512("Commit", payload_words(seed))

(* The private key's seed is the leading words of the derived digest, and  *)
(* the key that signs comes from it.                                       *)
derive_secret_key_material(seed) ==
  LET derived == sha512("Derive", payload_words(seed))
      sk_seed == [i \in 1..PAYLOAD_WORD_COUNT |-> derived[i]]
  IN  [sk_seed |-> sk_seed, hash_of_sk |-> sha512("HashSk", sk_seed),
       authentication_key |-> <<"key", sk_seed>>]

statement_from_seed(seed, derived) ==
  [commit_of_seed |-> commit_of_seed(seed), hash_of_sk |-> derived.hash_of_sk]

blocks_from_witness(seed, sk_seed) ==
  <<segment_block("Commit", seed), segment_block("Derive", seed),
    segment_block("HashSk", sk_seed)>>

(* The verifier knows the blocks only up to their payloads. *)
verifier_template_blocks ==
  LET zero == payload_words(0) IN blocks_from_witness(zero, zero)

(* ----------------------- the rows of the trace ---------------------- *)

(* The words of a row, as named in the layout of the columns; all are held *)
(* in limbs.                                                               *)
HelperWords == {"W", "K", "SIGMA0", "SIGMA1", "CH", "MAJ", "T1", "T2"}
RANGED_WORDS == {"D", "H", "W", "K", "T1", "T2"}
BitWords == {"A", "B", "C", "E", "F", "G"}
CarryColumns == {"T1", "T2", "A", "E", "SCHED"}
SkCarryColumns == <<"T1", "T2", "A", "E">>

carry_bit_width(col) == CASE col = "T1" -> 3 [] col = "SCHED" -> 2 [] OTHER -> 1

ZeroLimbs == u64_to_limbs(0)

(* The columns of a state and of the helper words; and the state of a row. *)
RowWords(s, h) ==
  [A |-> s[1], B |-> s[2], C |-> s[3], D |-> s[4],
   E |-> s[5], F |-> s[6], G |-> s[7], H |-> s[8],
   W |-> h.W, K |-> h.K, SIGMA0 |-> h.SIGMA0, SIGMA1 |-> h.SIGMA1,
   CH |-> h.CH, MAJ |-> h.MAJ, T1 |-> h.T1, T2 |-> h.T2]
StateOf(w) == <<w.A, w.B, w.C, w.D, w.E, w.F, w.G, w.H>>

(* The lags of a row: the words of the rows before it, newest first. *)
LagsAt(words, row) ==
  [lag \in 1..LAG_COUNT |->
     IF row - lag \in 0..ROUNDS - 1 THEN words[row - lag + 1] ELSE 0]
advance_lags(lags, word) ==
  [lag \in 1..LAG_COUNT |-> IF lag = 1 THEN word ELSE lags[lag - 1]]

(* A row from its state, its helper words and the operands of its sums.    *)
AirRow(state, helpers, lags, sums) ==
  [words |-> RowWords(EachInLimbs(state), EachInLimbs(helpers)),
   lags |-> EachInLimbs(lags),
   carries |-> [col \in CarryColumns |-> add_with_carries(EachInLimbs(sums[col]))]]

RoundRow(trace, i) ==
  LET s == trace.round_states[i]
      w == trace.words
      k == K[i + 1]
      sigma0 == big_sigma0(s[1])
      sigma1 == big_sigma1(s[5])
      choose == ch(s[5], s[6], s[7])
      majority == maj(s[1], s[2], s[3])
      t1 == Temp1(s, k, w[i + 1])
      t2 == Temp2(s)
  IN  AirRow(s, [W |-> w[i + 1], K |-> k, SIGMA0 |-> sigma0, SIGMA1 |-> sigma1,
                 CH |-> choose, MAJ |-> majority, T1 |-> t1, T2 |-> t2],
             LagsAt(w, i),
             [T1 |-> <<s[8], sigma1, choose, k, w[i + 1]>>,
              T2 |-> <<sigma0, majority>>, A |-> <<t1, t2>>, E |-> <<s[4], t1>>,
              SCHED |-> IF i < BLOCK_WORDS THEN <<0, 0, 0, 0>>
                        ELSE <<small_sigma1(w[i - LAG_SIGMA1]), w[i - LAG_ADDED],
                               small_sigma0(w[i - LAG_SIGMA0]), w[i - LAG_LAST]>>])

(* The operands of the sums of a row after the rounds. *)
PaddingSums(h, d) ==
  [T1 |-> <<h, 0, 0, 0, 0>>, T2 |-> <<0, 0>>, A |-> <<h, 0>>, E |-> <<d, h>>,
   SCHED |-> <<0, 0, 0, 0>>]

(* Mutant of seed_padding_helpers: T1 is left empty as well. *)
EmptyPaddingHelpers(state) ==
  [helpers |-> [name \in HelperWords |-> 0], sums |-> PaddingSums(state[8], state[4])]

(* The helpers of a row after the rounds: T1 is H and all other sums are   *)
(* empty.                                                                  *)
seed_padding_helpers(state) ==
  [helpers |-> [name \in HelperWords |-> IF name = "T1" THEN state[8] ELSE 0],
   sums |-> PaddingSums(state[8], state[4])]
NoHelpers == [helpers |-> [name \in HelperWords |-> 0], sums |-> PaddingSums(0, 0)]

(* The state of a padding row: T1 is H, T2 is 0, and the registers shift. *)
PaddedState(s) == Shifted(s, s[8], 0)

(* The rows of a segment; the last one has no helpers at all.              *)
build_plonky3_air_trace(trace) ==
  LET state[n \in 0..TRACE_ROWS - 1] ==
        IF n <= ROUNDS THEN trace.round_states[n] ELSE PaddedState(state[n - 1])
      padding(n) ==
        IF n = TRACE_ROWS - 1 THEN NoHelpers ELSE seed_padding_helpers(state[n])
  IN  [n \in 0..TRACE_ROWS - 1 |->
         IF n < ROUNDS THEN RoundRow(trace, n)
         ELSE AirRow(state[n], padding(n).helpers, LagsAt(trace.words, n), padding(n).sums)]

(* Mutant of ReadsPrivateKey: the last payload is the seed too. *)
ReadsSeedOnly(seg) == FALSE

(* The payload of the last segment is the private key. *)
ReadsPrivateKey(seg) == seg = 3

(* The words of a preprocessed row of one compression.                     *)
InstanceRow(block, row) ==
  [W |-> IF row < BLOCK_WORDS THEN u64_to_limbs(block[row + 1]) ELSE ZeroLimbs,
   K |-> IF row < ROUNDS THEN u64_to_limbs(K[row + 1]) ELSE ZeroLimbs,
   state |-> EachInLimbs(INITIAL_STATE)]
NoWords == [W |-> ZeroLimbs, K |-> ZeroLimbs, state |-> [i \in 1..8 |-> ZeroLimbs]]

(* The preprocessed row: what the verifier knows of a row without the      *)
(* payload, and which constraints are on. A segment 4 only pads.           *)
PrepRow(blocks, seg, row) ==
  LET real == seg <= 3
      payload == row - PAYLOAD_WORD_START + 1
      isPayload == payload \in 1..PAYLOAD_WORD_COUNT
      fixed == row < BLOCK_WORDS /\ ~isPayload
      words == IF real THEN InstanceRow(blocks[seg], row) ELSE NoWords
  IN  [start |-> real /\ row = 0,
       transition |-> real /\ row + 1 < TRACE_ROWS /\ row # ROUNDS,
       round |-> real /\ row < ROUNDS,
       fixedInitW |-> real /\ fixed,
       payload |-> IF real /\ isPayload THEN payload ELSE 0,
       hashSegment |-> ReadsPrivateKey(seg),
       commitFinal |-> seg = 1 /\ row = ROUNDS,
       deriveFinal |-> seg = 2 /\ row = ROUNDS,
       hashFinal |-> seg = 3 /\ row = ROUNDS,
       W |-> IF fixed THEN words.W ELSE ZeroLimbs,
       K |-> words.K,
       state |-> words.state]
PrepRowAt(blocks, n) == PrepRow(blocks, (n - 1) \div TRACE_ROWS + 1, (n - 1) % TRACE_ROWS)

(* The row with the limbs of the seed and of the private key. *)
set_private_seed_chain_words(row, seed, sk) ==
  [words |-> row.words, lags |-> row.lags, carries |-> row.carries,
   seed |-> EachInLimbs(seed), sk |-> EachInLimbs(sk)]

(* The row with the carries of state + INITIAL_STATE among those of sums.  *)
set_private_seed_chain_derive_final_carries(row, state) ==
  LET carries(i) == add_with_carries(EachInLimbs(<<state[i], INITIAL_STATE[i]>>))
  IN  [row EXCEPT !.carries = [col \in CarryColumns |->
         IF \E i \in 1..PAYLOAD_WORD_COUNT : SkCarryColumns[i] = col
         THEN carries(CHOOSE i \in 1..PAYLOAD_WORD_COUNT : SkCarryColumns[i] = col)
         ELSE row.carries[col]]]

ZeroRow ==
  AirRow([i \in 1..8 |-> 0], NoHelpers.helpers, [lag \in 1..LAG_COUNT |-> 0],
         NoHelpers.sums)

(* The rows of the three segments and of the padding segment, and the      *)
(* public values: the states after the rounds of the first and the third.  *)
build_private_seed_chain_air_bundle(blocks) ==
  LET payload(seg) == [i \in 1..PAYLOAD_WORD_COUNT |-> blocks[seg][PAYLOAD_WORD_START + i]]
      trace == [seg \in 1..3 |-> compress_block(INITIAL_STATE, blocks[seg])]
      rows == [seg \in 1..3 |-> build_plonky3_air_trace(trace[seg])]
      final(seg) == trace[seg].round_states[ROUNDS]
      row(seg, n) ==
        IF seg = 4 THEN ZeroRow
        ELSE IF seg = 2 /\ n = ROUNDS
        THEN set_private_seed_chain_derive_final_carries(rows[seg][n], final(seg))
        ELSE rows[seg][n]
  IN  [main |-> [n \in 1..4 * TRACE_ROWS |->
         set_private_seed_chain_words(
           row((n - 1) \div TRACE_ROWS + 1, (n - 1) % TRACE_ROWS), payload(1), payload(3))],
       public |-> [i \in 1..16 |-> bb(IF i <= 8 THEN final(1)[i] ELSE final(3)[i - 8])]]

(* ------------------------- the constraints -------------------------- *)

(* A limb has boolean columns for its bits exactly when it is in range. *)
HasBits(limbs) == \A l \in 1..LIMBS_PER_WORD : limbs[l] \in Limbs

constrain_carry_max(carry, col, max) ==
  /\ carry \in 0..Pow2[carry_bit_width(col)] - 1
  /\ max = 4 => carry <= 4
CarriesWithin(carries, col, max) ==
  \A l \in 1..LIMBS_PER_WORD : constrain_carry_max(carries[l], col, max)

CarryIn(carries, l) == IF l = 1 THEN 0 ELSE carries[l - 1]

(* The sum of words held in limbs is out, limb by limb in the field. *)
constrain_add(operands, out, carries) ==
  \A l \in 1..LIMBS_PER_WORD :
    (ColumnSum(operands, l) + CarryIn(carries, l) - out[l] - carries[l] * LIMB_VALUES) % P = 0

(* The words the rotations and the choices of a row's bits make. The sums  *)
(* of bits written as polynomials are the bitwise functions on bits.       *)
xor2_expr(x, y) == x + y - 2 * x * y
xor3_expr(x, y, z) == xor2_expr(xor2_expr(x, y), z)
RotatedBit(x, i) == Bit(x, i % WORD_BITS)
ShiftedBit(x, i) == IF i < WORD_BITS THEN Bit(x, i) ELSE 0
BigSigma0Limbs(a) == u64_to_limbs(FromBits([i \in BitPlaces |->
  xor3_expr(RotatedBit(a, i + 28), RotatedBit(a, i + 34), RotatedBit(a, i + 39))]))
BigSigma1Limbs(e) == u64_to_limbs(FromBits([i \in BitPlaces |->
  xor3_expr(RotatedBit(e, i + 14), RotatedBit(e, i + 18), RotatedBit(e, i + 41))]))
ChLimbs(e, f, g) == u64_to_limbs(FromBits([i \in BitPlaces |->
  Bit(e, i) * Bit(f, i) + (1 - Bit(e, i)) * Bit(g, i)]))
MajLimbs(a, b, c) == u64_to_limbs(FromBits([i \in BitPlaces |->
  Bit(a, i) * Bit(b, i) + Bit(a, i) * Bit(c, i) + Bit(b, i) * Bit(c, i)
    - 2 * Bit(a, i) * Bit(b, i) * Bit(c, i)]))
pack_small_sigma0_limb(lag) == u64_to_limbs(FromBits([i \in BitPlaces |->
  xor3_expr(RotatedBit(lag, i + 1), RotatedBit(lag, i + 8), ShiftedBit(lag, i + 7))]))
pack_small_sigma1_limb(lag) == u64_to_limbs(FromBits([i \in BitPlaces |->
  xor3_expr(RotatedBit(lag, i + 19), RotatedBit(lag, i + 61), ShiftedBit(lag, i + 6))]))

(* K and the known words of the block are the preprocessed ones; W is zero *)
(* outside the rounds.                                                     *)
FixedWordsBound(w, prep) ==
  /\ prep.round => w.K = prep.K
  /\ prep.fixedInitW => w.W = prep.W
  /\ ~prep.round => w.W = ZeroLimbs

(* A payload word is the private seed's, or the private key's in the last  *)
(* segment.                                                                *)
PayloadBound(w, seed, sk, prep) ==
  prep.payload # 0 =>
    w.W = (IF prep.hashSegment THEN sk ELSE seed)[prep.payload]

(* The private key is the digest of the derive segment: its state after    *)
(* the rounds plus the initial state, with the carries of other sums.      *)
constrain_private_sk_from_derive_final(row, prep) ==
  \A i \in 1..PAYLOAD_WORD_COUNT :
    LET carries == row.carries[SkCarryColumns[i]]
    IN  /\ CarriesWithin(carries, SkCarryColumns[i], 1)
        /\ prep.deriveFinal =>
             constrain_add(<<StateOf(row.words)[i], prep.state[i]>>, row.sk[i], carries)

StartBound(w, prep) ==
  prep.start => \A i \in 1..8 : StateOf(w)[i] = prep.state[i]

PublicBound(w, prep, public) ==
  \A i \in 1..8 :
    /\ prep.commitFinal => public[i] = pack_word_from_limbs(StateOf(w)[i])
    /\ prep.hashFinal => public[8 + i] = pack_word_from_limbs(StateOf(w)[i])

(* In the rounds A, B, C, E, F and G have bits, and the words computed     *)
(* from bits are what their bits give.                                     *)
RoundConstrained(w, prep) ==
  prep.round =>
    /\ \A name \in BitWords : HasBits(w[name])
    /\ w.SIGMA0 = BigSigma0Limbs(limbs_to_u64(w.A))
    /\ w.SIGMA1 = BigSigma1Limbs(limbs_to_u64(w.E))
    /\ w.CH = ChLimbs(limbs_to_u64(w.E), limbs_to_u64(w.F), limbs_to_u64(w.G))
    /\ w.MAJ = MajLimbs(limbs_to_u64(w.A), limbs_to_u64(w.B), limbs_to_u64(w.C))

(* D, H, W, K, T1, T2 and the two lags read by the schedule have bits.     *)
RangesConstrained(row) ==
  /\ \A name \in RANGED_WORDS : HasBits(row.words[name])
  /\ HasBits(row.lags[LAG_SIGMA1 + 1])
  /\ HasBits(row.lags[LAG_SIGMA0 + 1])

(* After the known words, W is the recurrence over the lags. *)
ScheduleOperands(lags) ==
  <<pack_small_sigma1_limb(limbs_to_u64(lags[LAG_SIGMA1 + 1])), lags[LAG_ADDED + 1],
    pack_small_sigma0_limb(limbs_to_u64(lags[LAG_SIGMA0 + 1])), lags[LAG_LAST + 1]>>
constrain_schedule_recurrence(row, prep) ==
  /\ CarriesWithin(row.carries.SCHED, "SCHED", 3)
  /\ prep.round /\ ~prep.fixedInitW /\ prep.payload = 0 =>
       constrain_add(ScheduleOperands(row.lags), row.words.W, row.carries.SCHED)

(* One round from a row to the next: the four sums, the registers and the  *)
(* lags shifted by one.                                                    *)
TransitionConstrained(row, next, prep) ==
  LET w == row.words
      n == next.words
  IN  prep.transition =>
        /\ CarriesWithin(row.carries.T1, "T1", 4)
        /\ \A col \in {"T2", "A", "E"} : CarriesWithin(row.carries[col], col, 1)
        /\ constrain_add(<<w.H, w.SIGMA1, w.CH, w.K, w.W>>, w.T1, row.carries.T1)
        /\ constrain_add(<<w.SIGMA0, w.MAJ>>, w.T2, row.carries.T2)
        /\ constrain_add(<<w.T1, w.T2>>, n.A, row.carries.A)
        /\ constrain_add(<<w.D, w.T1>>, n.E, row.carries.E)
        /\ n.B = w.A /\ n.C = w.B /\ n.D = w.C
        /\ n.F = w.E /\ n.G = w.F /\ n.H = w.G
        /\ next.lags = advance_lags(row.lags, w.W)
        /\ constrain_schedule_recurrence(row, prep)

LastRowConstrained(row) ==
  /\ \A name \in HelperWords : row.words[name] = ZeroLimbs
  /\ \A col \in CarryColumns : row.carries[col] = ZeroLimbs
  /\ \A lag \in 1..LAG_COUNT : row.lags[lag] = ZeroLimbs

(* All constraints of the row n of a trace, with its next row. *)
eval(main, prep, public, n) ==
  LET row == main[n]
      next == main[n + 1]
      w == row.words
  IN  /\ FixedWordsBound(w, prep)
      /\ PayloadBound(w, row.seed, row.sk, prep)
      /\ constrain_private_sk_from_derive_final(row, prep)
      /\ StartBound(w, prep)
      /\ PublicBound(w, prep, public)
      /\ RoundConstrained(w, prep)
      /\ RangesConstrained(row)
      /\ n + 1 \in DOMAIN main => /\ next.seed = row.seed /\ next.sk = row.sk
                                  /\ TransitionConstrained(row, next, prep)
      /\ n + 1 \notin DOMAIN main => LastRowConstrained(row)

(* A trace the proof system accepts for these public values, under the     *)
(* preprocessed rows of these blocks.                                      *)
Satisfied(made, blocks) ==
  \A n \in 1..4 * TRACE_ROWS : eval(made.main, PrepRowAt(blocks, n), made.public, n)

(* ------------------- the proof and its envelope --------------------- *)

(* The settings of the proof system. Under one set of settings a proof     *)
(* takes as many units of bytes as it answers queries.                     *)
default_settings ==
  [log_blowup |-> 3, log_final_poly_len |-> 5, num_queries |-> 28,
   commit_proof_of_work_bits |-> 16, query_proof_of_work_bits |-> 16, rng_seed |-> 1]
MIN_VERIFIER ==
  [log_blowup |-> 3, log_final_poly_len |-> 4, num_queries |-> 2,
   commit_proof_of_work_bits |-> 1, query_proof_of_work_bits |-> 1]
MAX_INNER_PROOF_BYTES == 40
MAX_SEGMENT_CHAIN_PROOF_BYTES == 160
USIZE_MAX == 1000

meets_minimum_verifier_policy(settings) ==
  \A field \in DOMAIN MIN_VERIFIER : settings[field] >= MIN_VERIFIER[field]

(* What the commitment to the preprocessed rows can differ in. *)
setup_preprocessed(blocks) ==
  [n \in 1..3 * TRACE_ROWS |-> PrepRowAt(blocks, n).W]

(* External: a proof convinces under the settings, the preprocessed rows   *)
(* and the public values it was made for.                                  *)
prove_with_preprocessed(config, blocks, public) ==
  [config |-> config, vk |-> setup_preprocessed(blocks), public |-> public]
verify_with_preprocessed(config, vk, proof, public) ==
  proof = [config |-> config, vk |-> vk, public |-> public]
TemplateKey == setup_preprocessed(verifier_template_blocks)

Size(settings) == settings.num_queries
ProofError == <<>>

(* The bytes of a proof with its settings, or ProofError. *)
serialize_segment_chain_proof(proof, settings) ==
  IF Size(settings) > MAX_INNER_PROOF_BYTES
     \/ Size(settings) + 1 > MAX_SEGMENT_CHAIN_PROOF_BYTES
  THEN ProofError
  ELSE <<proof, settings>>

deserializes_segment_chain_proof(bytes) ==
  /\ Len(bytes) = 2
  /\ DOMAIN bytes[2] = DOMAIN default_settings
  /\ Size(bytes[2]) + 1 <= MAX_SEGMENT_CHAIN_PROOF_BYTES
  /\ Size(bytes[2]) <= MAX_INNER_PROOF_BYTES
  /\ DOMAIN bytes[1] = {"config", "vk", "public"}

prove_private_seed_chain_with_settings(made, blocks, settings) ==
  IF ~meets_minimum_verifier_policy(settings) THEN ProofError
  ELSE serialize_segment_chain_proof(
         prove_with_preprocessed(settings, blocks, made.public), settings)

public_values_from_statement(statement) ==
  [i \in 1..16 |->
     IF i <= 8 THEN bb((statement.commit_of_seed[i] - INITIAL_STATE[i]) % WORDS)
     ELSE bb((statement.hash_of_sk[i - 8] - INITIAL_STATE[i - 8]) % WORDS)]

verify_private_seed_chain_statement_with_settings(sealed, statement, settings) ==
  /\ meets_minimum_verifier_policy(settings)
  /\ deserializes_segment_chain_proof(sealed)
  /\ sealed[2] = settings
  /\ verify_with_preprocessed(settings, TemplateKey,
                              sealed[1], public_values_from_statement(statement))

(* A signature by a key, over the transcript of a statement. *)
sign(key, statement) == [signer |-> key, transcript |-> statement]

gen_pokos(prover, sealed_proof) ==
  [statement |-> prover.statement, sha512_proof |-> sealed_proof,
   authentication_key |-> prover.derived.authentication_key,
   authentication_signature |->
     sign(prover.derived.authentication_key, prover.statement)]

verify_pokos(proof) ==
  IF ~verify_private_seed_chain_statement_with_settings(
        proof.sha512_proof, proof.statement, default_settings)
  THEN "InvalidSkDerivationProof"
  ELSE IF proof.authentication_signature
            = sign(proof.authentication_key, proof.statement)
       THEN "Ok"
       ELSE "AuthenticationSignatureInvalid"

(* The fields of an envelope in the order they are written; a cell of the  *)
(* wire is one field, and the sealed proof is as many as it has parts.     *)
PROOF_FORMAT_MAGIC == "EPKOS001"
serialize_proof(proof) ==
  <<PROOF_FORMAT_MAGIC, proof.statement.commit_of_seed, proof.statement.hash_of_sk,
    Len(proof.sha512_proof)>>
  \o proof.sha512_proof
  \o <<proof.authentication_key, proof.authentication_signature>>

(* Mutant of deserialize_error: what follows the last field is not read. *)
TrailingUnread(bytes) ==
  LET n == Len(bytes)
  IN  CASE n < 1 -> "Truncated"
        [] n >= 1 /\ bytes[1] # PROOF_FORMAT_MAGIC -> "InvalidMagic"
        [] n \in 1..3 /\ bytes[1] = PROOF_FORMAT_MAGIC -> "Truncated"
        [] n >= 4 /\ bytes[1] = PROOF_FORMAT_MAGIC ->
             IF bytes[4] > USIZE_MAX - 6 \/ 6 + bytes[4] > n THEN "Truncated" ELSE "Ok"

(* The error of reading some bytes, or "Ok". A length whose end overflows  *)
(* is as bad as one past the end.                                          *)
deserialize_error(bytes) ==
  LET n == Len(bytes)
      end == IF bytes[4] > USIZE_MAX - 4 THEN USIZE_MAX ELSE 4 + bytes[4]
  IN  CASE n < 1 -> "Truncated"
        [] n >= 1 /\ bytes[1] # PROOF_FORMAT_MAGIC -> "InvalidMagic"
        [] n \in 1..3 /\ bytes[1] = PROOF_FORMAT_MAGIC -> "Truncated"
        [] n >= 4 /\ bytes[1] = PROOF_FORMAT_MAGIC ->
             IF end + 2 > n THEN "Truncated"
             ELSE IF end + 2 < n THEN "TrailingBytes" ELSE "Ok"

deserialize_proof(bytes) ==
  LET end == 4 + bytes[4]
  IN  [statement |-> [commit_of_seed |-> bytes[2], hash_of_sk |-> bytes[3]],
       sha512_proof |-> SubSeq(bytes, 5, end),
       authentication_key |-> bytes[end + 1],
       authentication_signature |-> bytes[end + 2]]

(* ----------------------------- behaviours --------------------------- *)

VARIABLES
  provers,   \* what each seed's owner derives from it
  stage,     \* what happens next
  seed,      \* the seed in play
  row,       \* the row being laid: its place, its state and its lags
  sk,        \* the private key columns, once a constraint speaks of them
  public,    \* the public values found so far
  bundle,    \* the honest prover's trace
  settings,  \* the settings it proves under
  wire,      \* the bytes of an envelope
  result     \* what reading and verifying them returned

vars == <<provers, stage, seed, row, sk, public, bundle, settings, wire, result>>

None == <<>>

(* Settings a prover may be called with: the default, each field below the *)
(* verifier's minimum, stronger ones, another transcript seed, too big.    *)
SettingsChoices ==
  {default_settings}
    \union {[default_settings EXCEPT ![f] = MIN_VERIFIER[f] - 1] : f \in DOMAIN MIN_VERIFIER}
    \union {[default_settings EXCEPT ![f] = @ + 1] : f \in DOMAIN default_settings}
    \union {[default_settings EXCEPT !.num_queries = MAX_INNER_PROOF_BYTES + 1]}

(* The lags of a segment's first row are free. *)
FirstRows(seg) ==
  {[seg |-> seg, n |-> 0, lags |-> lags, state |-> EachInLimbs(INITIAL_STATE)] :
     lags \in [1..LAG_COUNT -> FreeLags]}

(* What the owner of a seed derives and claims. *)
Prover(s) ==
  LET derived == derive_secret_key_material(s)
  IN  [derived |-> derived, statement |-> statement_from_seed(s, derived)]

Init ==
  /\ provers = [s \in Seeds |-> Prover(s)]
  /\ seed \in Seeds
  /\ \/ stage = "lay" /\ row \in FirstRows(1)
     \/ stage = "build" /\ row = None
  /\ sk = None /\ public = None /\ bundle = None /\ settings = None
  /\ wire = None /\ result = None

(* The limb of a sum that its columns and carries give, and all ways to    *)
(* extend the carries found below a limb so that it is among outs.         *)
SumLimb(column, carries, l) ==
  (column[l] + CarryIn(carries, l) - carries[l] * LIMB_VALUES) % P
WithCarry(found, l, column, max, outs) ==
  {c \in {[lower EXCEPT ![l] = carry] : lower \in found, carry \in 0..max} :
     SumLimb(column, c, l) \in outs}

(* All ways to give a sum its carries, and limbs among outs. *)
SumSolutions(operands, max, outs) ==
  LET column == [l \in 1..LIMBS_PER_WORD |-> ColumnSum(operands, l)]
      low == WithCarry(WithCarry({ZeroLimbs}, 1, column, max, outs), 2, column, max, outs)
      high == WithCarry(WithCarry(low, 3, column, max, outs), 4, column, max, outs)
  IN  {[out |-> [l \in 1..LIMBS_PER_WORD |-> SumLimb(column, c, l)], carries |-> c] : c \in high}

(* The helper words of the row laid so far: those its bits determine. *)
BitHelpers(st, prep) ==
  LET word(i) == limbs_to_u64(st[i])
  IN  [W |-> ZeroLimbs, K |-> prep.K, T1 |-> ZeroLimbs, T2 |-> ZeroLimbs,
       SIGMA0 |-> BigSigma0Limbs(word(1)), SIGMA1 |-> BigSigma1Limbs(word(5)),
       CH |-> ChLimbs(word(5), word(6), word(7)),
       MAJ |-> MajLimbs(word(1), word(2), word(3))]
ZeroHelpers == [name \in HelperWords |-> ZeroLimbs]
RowOf(r, helpers, carries, key) ==
  [words |-> RowWords(r.state, helpers), lags |-> r.lags, carries |-> carries,
   seed |-> EachInLimbs(payload_words(seed)), sk |-> key]

(* The words a constraint could bind W to in a row of the rounds. *)
WordChoices(r, prep) ==
  IF prep.fixedInitW THEN {[out |-> prep.W, carries |-> ZeroLimbs]}
  ELSE IF prep.payload # 0
  THEN {[out |-> (IF prep.hashSegment THEN sk ELSE EachInLimbs(payload_words(seed)))
                   [prep.payload], carries |-> ZeroLimbs]}
  ELSE SumSolutions(ScheduleOperands(r.lags), 3, Limbs)

(* A row with these words and carries is laid, and the state of the next.  *)
Lay(prep, base, w, t2, t1, a, e) ==
  LET st == row.state
      laid == [seg |-> row.seg, n |-> row.n + 1, lags |-> advance_lags(row.lags, w.out),
               state |-> <<a.out, st[1], st[2], st[3], e.out, st[5], st[6], st[7]>>]
      full == [base EXCEPT !.W = w.out, !.T1 = t1.out, !.T2 = t2.out]
      carries == [T1 |-> t1.carries, T2 |-> t2.carries, A |-> a.carries,
                  E |-> e.carries, SCHED |-> w.carries]
  IN  /\ eval(<<RowOf(row, full, carries, sk), RowOf(laid, ZeroHelpers, None, sk)>>,
              prep, public, 1)
      /\ row' = laid

(* Any choice of words, sums and carries of a row of the rounds that       *)
(* satisfies the constraints. The words of the state after the last round  *)
(* need no bits.                                                           *)
LayRow ==
  /\ stage = "lay" /\ row.n < ROUNDS
  /\ \E prep \in {PrepRow(verifier_template_blocks, row.seg, row.n)},
        outs \in {IF row.n + 1 < ROUNDS THEN Limbs ELSE Field} :
     \E base \in {BitHelpers(row.state, prep)} :
     \E w \in WordChoices(row, prep),
        t2 \in SumSolutions(<<base.SIGMA0, base.MAJ>>, 1, Limbs) :
     \E t1 \in SumSolutions(<<row.state[8], base.SIGMA1, base.CH, prep.K, w.out>>, 4, Limbs) :
     \E a \in SumSolutions(<<t1.out, t2.out>>, 1, outs),
        e \in SumSolutions(<<row.state[4], t1.out>>, 1, outs) :
       Lay(prep, base, w, t2, t1, a, e)
  /\ UNCHANGED <<provers, stage, seed, sk, public, bundle, settings, wire, result>>

(* All ways to give the private key its limbs and its sums their carries.  *)
KeySums(st, prep) ==
  LET choices == [i \in 1..PAYLOAD_WORD_COUNT |->
                    SumSolutions(<<st[i], prep.state[i]>>,
                                 Pow2[carry_bit_width(SkCarryColumns[i])] - 1, Limbs)]
  IN  {sums \in [1..PAYLOAD_WORD_COUNT -> UNION {choices[i] : i \in 1..PAYLOAD_WORD_COUNT}] :
         \A i \in 1..PAYLOAD_WORD_COUNT : sums[i] \in choices[i]}

(* The row after the rounds; its carries are those of the private key's    *)
(* sums.                                                                   *)
FinalRow(sums, key) ==
  LET columns == SubSeq(SkCarryColumns, 1, IF row.seg = 2 THEN PAYLOAD_WORD_COUNT ELSE 0)
  IN  RowOf(row, ZeroHelpers,
            [col \in CarryColumns |->
               IF \E i \in DOMAIN columns : columns[i] = col
               THEN sums[CHOOSE i \in DOMAIN columns : columns[i] = col].carries
               ELSE ZeroLimbs],
            key)

(* The state after the rounds gives public values, or the private key the  *)
(* later payload rows will repeat; then the next segment starts.           *)
FinishSegment ==
  /\ stage = "lay" /\ row.n = ROUNDS
  /\ \E prep \in {PrepRow(verifier_template_blocks, row.seg, ROUNDS)} :
     \E sums \in (IF row.seg = 2 THEN KeySums(row.state, prep) ELSE {None}) :
     LET key == IF row.seg = 2 THEN [i \in 1..PAYLOAD_WORD_COUNT |-> sums[i].out] ELSE sk
         values == [i \in 1..8 |-> pack_word_from_limbs(row.state[i])]
         found == IF row.seg = 2 THEN public ELSE public \o values
         full == FinalRow(sums, key)
     IN  /\ eval(<<full, full>>, prep, found, 1)
         /\ sk' = key /\ public' = found
  /\ IF row.seg < 3 THEN row' \in FirstRows(row.seg + 1) /\ UNCHANGED stage
     ELSE row' = None /\ stage' = "accepted"
  /\ UNCHANGED <<provers, seed, bundle, settings, wire, result>>

BlocksOf(s) == blocks_from_witness(payload_words(s), provers[s].derived.sk_seed)

(* The honest prover builds its trace. *)
BuildBundle ==
  /\ stage = "build"
  /\ bundle' = build_private_seed_chain_air_bundle(BlocksOf(seed))
  /\ stage' = "prove"
  /\ UNCHANGED <<provers, seed, row, sk, public, settings, wire, result>>

(* It proves, signs and serializes, or reports the prover's error. *)
Send ==
  /\ stage = "prove"
  /\ \E chosen \in SettingsChoices :
     \E sealed \in {prove_private_seed_chain_with_settings(bundle, BlocksOf(seed), chosen)} :
       /\ settings' = chosen
       /\ IF sealed = ProofError
          THEN stage' = "done" /\ result' = "ProverError" /\ UNCHANGED wire
          ELSE /\ stage' = "sent" /\ wire' = serialize_proof(gen_pokos(provers[seed], sealed))
               /\ UNCHANGED result
  /\ bundle' = None
  /\ UNCHANGED <<provers, seed, row, sk, public>>

(* The envelope of an honest sender; the cells of two may get mixed. *)
HonestWire(s) ==
  serialize_proof(gen_pokos(provers[s],
    prove_private_seed_chain_with_settings(
      [public |-> public_values_from_statement(provers[s].statement)],
      BlocksOf(s), default_settings)))

(* The wire loses the end of an envelope, lengthens it, changes a cell,    *)
(* its magic or its length, or mixes in a cell of another envelope.        *)
Fault ==
  /\ stage = "sent" /\ settings = default_settings
  /\ \/ \E n \in 0..Len(wire) - 1 : wire' = SubSeq(wire, 1, n)
     \/ \E honest \in {HonestWire(s) : s \in Seeds} :
          \/ wire' = wire \o honest
          \/ \E i \in 1..Len(wire) : wire' = [wire EXCEPT ![i] = honest[i]]
     \/ wire' = [wire EXCEPT ![1] = "EPKOS002"]
     \/ \E n \in (0..4) \union {USIZE_MAX} : wire' = [wire EXCEPT ![4] = n]
  /\ stage' = "arrived"
  /\ UNCHANGED <<provers, seed, row, sk, public, bundle, settings, result>>

Receive ==
  /\ stage \in {"sent", "arrived"}
  /\ result' = IF deserialize_error(wire) # "Ok" THEN deserialize_error(wire)
               ELSE verify_pokos(deserialize_proof(wire))
  /\ stage' = "done"
  /\ UNCHANGED <<provers, seed, row, sk, public, bundle, settings, wire>>

Finished == stage \in {"accepted", "done"} /\ UNCHANGED vars

Next == LayRow \/ FinishSegment \/ BuildBundle \/ Send \/ Fault \/ Receive \/ Finished

Spec == Init /\ [][Next]_vars

(* ---------------------------- properties ---------------------------- *)

(* The trace the prover builds satisfies every constraint in every row,    *)
(* under the preprocessed rows a verifier derives from blocks without the  *)
(* payload, and gives the public values the statement gives: the code's    *)
(* carry reuse in the row after the rounds, its padding rows, and its      *)
(* selectors agree with one another.                                       *)
HonestTraceSatisfies ==
  bundle # None =>
    /\ Satisfied(bundle, verifier_template_blocks)
    /\ bundle.public = public_values_from_statement(provers[seed].statement)

(* What the constraints force: whatever rows are laid for a seed, the      *)
(* private key is the derived one and the public values are those of the   *)
(* seed's statement. The limbs of A and E after the rounds have no bits,   *)
(* so their top carry is open and their values are bound only up to one    *)
(* word's modulus; the values are residues, so all are bound modulo P.     *)
AcceptedTracesAreHonest ==
  stage = "accepted" =>
    LET honest == public_values_from_statement(provers[seed].statement)
        derived == provers[seed].derived.sk_seed
    IN  /\ sk = EachInLimbs(derived)
        /\ \A i \in 1..16 :
             \/ public[i] = honest[i]
             \/ /\ i % 8 \in {1, 5}
                /\ (public[i] - honest[i]) % P \in {WORDS % P, (-WORDS) % P}

(* An envelope is accepted exactly when all its cells are those of one     *)
(* prover under the default settings; a shortened one is truncated, a      *)
(* lengthened one has trailing bytes, and a proof under other settings     *)
(* or one the prover may not make is never accepted.                       *)
EnvelopesAreExact ==
  stage = "done" =>
    /\ result = "Ok" <=> \E s \in Seeds : wire = HonestWire(s)
    /\ \A honest \in {HonestWire(s) : s \in Seeds} :
         /\ (\E n \in 1..Len(honest) - 1 : wire = SubSeq(honest, 1, n))
              => result = "Truncated"
         /\ Len(wire) > Len(honest) /\ SubSeq(wire, 1, Len(honest)) = honest
              => result = "TrailingBytes"
====

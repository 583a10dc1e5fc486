------------------------------ MODULE MCPokos ------------------------------
(***************************************************************************)
(* Words of four limbs of two bits, a field of 41 elements, eight rounds   *)
(* over a block of five words with a payload of two; the constants are the *)
(* leading bits of the standard's.                                         *)
(***************************************************************************)
EXTENDS Pokos

LeadingBits(bytes) == [i \in DOMAIN bytes |-> bytes[i] % WORDS]

MCK == LeadingBits(<<66, 113, 181, 233, 57, 89, 146, 171>>)
MCInitialState == LeadingBits(<<106, 187, 60, 165, 81, 155, 31, 91>>)
MCCommitDomain == LeadingBits(<<99>>)
MCDeriveDomain == LeadingBits(<<100>>)
MCHashDomain == LeadingBits(<<104>>)

(* A lag that is zero, and one whose limbs have all bits. *)
MCFreeLags == {ZeroLimbs, u64_to_limbs(WORDS - 1)}
=============================================================================

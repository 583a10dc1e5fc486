CONSTANTS
  LIMB_BITS = 2
  P = 41
  ROUNDS = 8
  TRACE_ROWS = 16
  BLOCK_WORDS = 5
  PAYLOAD_WORD_START = 1
  PAYLOAD_WORD_COUNT = 2
  LAG_ADDED = 2
  LAG_SIGMA0 = 3
  INITIAL_STATE <- MCInitialState
  K <- MCK
  COMMIT_OF_SEED_DOMAIN <- MCCommitDomain
  DERIVE_SK_DOMAIN <- MCDeriveDomain
  HASH_OF_SK_DOMAIN <- MCHashDomain
  FreeLags <- MCFreeLags
  Seeds = {0, 4711}
SPECIFICATION Spec
INVARIANTS
  HonestTraceSatisfies
  AcceptedTracesAreHonest
  EnvelopesAreExact

CONSTANTS
  L = 11
  NonCanonicalPoints <- MCNonCanonicalPoints
  Seeds = {0, 1, 2, 3, 4, 5}
  ZeroSeed = 0
  HashPrefixes = {"P0", "P1"}
  ZeroPrefix = "P0"
  Scale = 32
  Digest <- MCDigest
  Messages = {m1, m2}
  Nonces = {0, 7}
  Challenges = {0, 3, 10}
  MaxSignatures = 2
  Requests <- MCRequests
  RhoBound = 4
  TauBound = 4
  SplitBase = 4
  LegacyLarge = {9, 27}
SPECIFICATION SystemSpec
INVARIANTS
  SigningTypes
  KeysMatch
  SignaturesVerify
  EqualKeysSignAlike
  NonceReuseNeedsCollision
  HonestSignaturesAccepted

CONSTANTS
  FieldBits = 7
  Offset = 19
  EDWARDS_D = 11
  BasepointOrder = 13
  BasepointCode = 43
  ED25519_BASEPOINT_POINT <- MCBasepoint
  ED25519_BASEPOINT_128_POINT <- MCBasepoint128
  EIGHT_TORSION <- MCEightTorsion
  MONTGOMERY_A = 71
  APLUS2_OVER_FOUR = 100
  MulBits = 16
  NafWidth = 4
  BigWidth = 6
  ManyPoints = 2
  Wider = 3
  Widest = 4
  PippengerBits = 4
  MaxSeparator = 2
  HashOf <- MCHashOf
  DataBits = 2
  LowBits = 2
  Digest <- MCDigest
  Operands <- MCOperands
  SubgroupOperands <- MCSubgroupOperands
  RistrettoOperands <- MCRistrettoOperands
  Factors <- MCFactors
  Shorts <- MCShorts
  ScalarLists <- MCScalarLists
  PointLists <- MCPointLists
  Messages <- MCMessages
  Separators <- MCSeparators
  Samples <- MCSamples
SPECIFICATION Spec
INVARIANTS
  TypeOK
  VerdictsAreExact
  InversesAreExact
PROPERTIES
  ImplementsReference
CHECK_DEADLOCK FALSE

CONSTANTS
  L <- MCL
  NonCanonicalPoints <- MCNonCanonicalPoints
  Items <- MCItems
  Draws <- MCDraws
  MaxBatch = 3
SPECIFICATION Spec
INVARIANTS
  TypeOK
  CoalescingIsExact
  ValidBatchIsAccepted
  InvalidIsRejected
PROPERTIES
  VerifyReturns
CHECK_DEADLOCK FALSE

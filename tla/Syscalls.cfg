CONSTANTS
  MAX_PAIRING_LENGTH = 2
  MaxCalls = 3
SPECIFICATION Spec
INVARIANTS
  AnswersAreExact
  HeldIsEncoded
CHECK_DEADLOCK FALSE

CONSTANTS
  L <- MCL
  BL = 13
  Half = 7
  Width = 16
  LimbBits = 4
  Challenges <- MCChallenges
SPECIFICATION LimbSpec
INVARIANTS
  TypeOK
  RowsInv
PROPERTIES
  ImplementsHeea
  ImplementsSplit
  Terminates
CHECK_DEADLOCK FALSE

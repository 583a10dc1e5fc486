CONSTANTS
  L <- MCL
  NonCanonicalPoints = {}
  ShortBound = 16
  Calls <- MCCalls
  NafBits = 8
  Half = 4
  NafWidth = 3
  BigWidth = 4
  RadixBits = 16
  ManyPoints = 1
  Width7 = 2
  Width8 = 3
SPECIFICATION Spec
INVARIANTS
  SelectsInTable
  HornerInv
PROPERTIES
  ImplementsCombination
CHECK_DEADLOCK FALSE

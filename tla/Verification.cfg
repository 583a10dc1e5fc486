CONSTANTS
  L <- MCL
  NonCanonicalPoints <- MCNonCanonicalPoints
  Requests <- MCRequests
  RhoBound = 4
  TauBound = 4
  SplitBase = 4
  LegacyLarge <- MCLegacyLarge
SPECIFICATION Spec
INVARIANTS
  TypeOK
  DalekImpliesZebra
  DalekIsStrict
  TripleMulOperands
PROPERTIES
  ImplementsZip215
CHECK_DEADLOCK FALSE

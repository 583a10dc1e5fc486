CONSTANTS
  LimbBits = 12
  Limbs = 2
  Scalars <- MCScalars
  Widths = {2, 5, 8}
  FieldLimbCount = 3
  FieldLimbBits = 9
  FieldOffset = 3
  WordBits = 20
  NegationShift = 12
  ScalarLimbCount = 3
  ScalarLimbBits = 6
  ScalarBits = 16
  LInteger = 4133
  Windows <- MCWindows
  ScalarStrings <- MCStrings
  ScalarOperands <- MCOperands
  ScalarHighs <- MCHighs
  FieldElements <- MCFieldElements
SPECIFICATION NumbersSpec
INVARIANTS
  RecodingMatchesReference
  DigitsFitTables
PROPERTY
  LimbsExact
CHECK_DEADLOCK FALSE

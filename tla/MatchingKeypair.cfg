CONSTANTS
  b1 = b1
  b2 = b2
  b3 = b3
  b4 = b4
  NoBytes = NoBytes
  Bytes32 = {b1, b2, b3, b4}
  Decodable = {b1, b2, b3}
  Public <- MCPublic
SPECIFICATION DocumentsSpec
INVARIANTS
  MatchingKeypairAccepted
CHECK_DEADLOCK FALSE

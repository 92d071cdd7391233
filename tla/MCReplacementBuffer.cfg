CONSTANTS
  Chars <- MCChars
  Display <- TwoKeys
  Ids <- MCIds
  MaxText = 6
SPECIFICATION BufferSpec
CHECK_DEADLOCK FALSE
INVARIANTS
  StreamingEqualsOneShot
  HoldbackBounded

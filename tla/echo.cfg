CONSTANTS
  Plain <- PlainBytes
  Escaped <- EscapedBytes
  Digits <- HexDigits
  MaxUnits = 3
  Unfinished <- BreaksOff
SPECIFICATION Spec
INVARIANTS StoresMeant PrintsMeantFirst
CHECK_DEADLOCK FALSE

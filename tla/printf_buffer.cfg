CONSTANTS
  OutSize = 18
  Lengths = {0, 1, 5, 30}
SPECIFICATION Spec
INVARIANTS CountsText SendsFromBuffer
PROPERTY WritesNearBuffer

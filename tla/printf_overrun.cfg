CONSTANTS
  OutSize = 22
  Lengths = {0, 1, 5, 30}
SPECIFICATION Spec
INVARIANT WritesInBuffer

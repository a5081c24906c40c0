CONSTANTS
  InSize = 8
  Typed <- ParseKeys
  MaxWork = 0
  MaxCalls = 0
SPECIFICATION Spec
CONSTRAINT FirstLine
INVARIANTS ParserInBounds UnreadIntact
PROPERTY RefinesCommandLine

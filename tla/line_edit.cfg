CONSTANTS
  InSize = 4
  Typed <- EditKeys
  MaxWork = 1
  MaxCalls = 1
SPECIFICATION FairSpec
INVARIANTS TypeOK ScreenShowsLine TerminatedArgs
PROPERTIES RefinesCommandLine PromptNears PromptReturns

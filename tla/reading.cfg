CONSTANTS
  Columns = 2
  HostMax = 2
  Files <- DemoFiles
  Commands <- DemoCommands
  Typed <- DemoTyped
  Dirs <- DemoDirs
  PathOf <- DemoPathOf
  PathFrom <- DemoPathFrom
  Kind <- DemoKinds
  Initially <- DemoMemory
  Mounted <- DemoMounted
  Home <- DemoHome
  Bytes <- DemoBytes
  Arguments <- EchoArguments
  Removable <- DemoRemovable
  MaxArgs = 2
  MaxPokes = 1
CHECK_DEADLOCK FALSE
VIEW Live
SPECIFICATION FairSpec
INVARIANTS CatFindsAgain CatShows XxdShows
PROPERTIES ReadsOn ReadingEnds

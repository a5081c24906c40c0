CONSTANTS
  n1 = n1
  n2 = n2
  cwd = cwd
  Nodes <- TwoNodes
  NoNode = NoNode
  Letters <- TwoLetters
  Cwd = cwd
  FilesOf <- SomeFiles
  NameOf <- SomeNames
  NameMax = 3
  InSize = 6
  LineMax = 2
VIEW Live
SPECIFICATION FairSpec
INVARIANTS ScreenShowsLine KeepsToBuffer
PROPERTIES RefinesCompletion ListsCandidates TabAdvances TabReturns

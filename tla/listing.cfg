CONSTANTS
  n1 = n1
  n2 = n2
  n3 = n3
  dir = dir
  Nodes <- ThreeNodes
  Dir = dir
  FilesOf <- SomeFiles
  NoNode = NoNode
SPECIFICATION FairSpec
INVARIANTS RowsWhole ListsOnce
PROPERTIES ListsAll KeepsLists Advances ListingEnds

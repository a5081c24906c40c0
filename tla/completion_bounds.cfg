CONSTANTS
  n1 = n1
  n2 = n2
  cwd = cwd
  Nodes <- TwoNodes
  NoNode = NoNode
  Letters <- TwoLetters
  Cwd = cwd
  FilesOf <- SomeFiles
  NameOf <- SomeNames
  NameMax = 3
  InSize = 4
  LineMax = 3
VIEW Live
SPECIFICATION Spec
INVARIANT KeepsToBuffer

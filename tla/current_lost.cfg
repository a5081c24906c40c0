CONSTANTS
  n1 = n1
  n2 = n2
  n3 = n3
  Nodes <- ThreeNodes
  Names <- TwoNames
  MaxDepth = 2
  FilesOf <- SameFiles
  Relative <- Upwards
  NoNode = NoNode
SPECIFICATION Spec
PROPERTY CurrentSurvives

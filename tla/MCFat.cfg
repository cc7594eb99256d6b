SPECIFICATION Spec
CONSTANTS
  Clusters = {2, 3, 4, 5}
  a = a
  b = b
  x = x
  y = y
  h = h
  Names <- MCNames
  Data <- MCData
  Handles <- MCHandles
  Size = 3
  RootSize = 2
  Depth = 2
  MaxFile = 6
  Sizes = {1, 4}
  AppendOnly = TRUE
  MaxCrashes = 0
INVARIANTS
  TypeOK
  NoLostClusters
  HandleFresh
  TableReadsBack
  DiskIsTree
PROPERTIES
  FileTreeSpec
SYMMETRY MCSymmetry
CHECK_DEADLOCK FALSE

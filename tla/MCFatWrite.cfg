SPECIFICATION Spec
CONSTANTS
  Clusters = {2, 3, 4, 5}
  a = a
  b = b
  x = x
  y = x
  h = h
  Names <- MCNames
  Data <- MCData
  Handles <- MCHandles
  Size = 3
  RootSize = 3
  Depth = 2
  MaxFile = 7
  Sizes = {7}
  AppendOnly = TRUE
  MaxCrashes = 0
INVARIANTS
  NoLostClusters
SYMMETRY MCSymmetry
CHECK_DEADLOCK FALSE

SPECIFICATION Spec
CONSTANTS
  Clusters = {2, 3, 4, 5}
  a = a
  b = b
  x = x
  y = x
  h = h
  Names <- MCNames
  Data <- MCData
  Handles <- MCHandles
  Size = 3
  RootSize = 3
  Depth = 2
  MaxFile = 4
  Sizes = {1, 2}
  AppendOnly = FALSE
  MaxCrashes = 0
INVARIANTS
  WrittenIsRecorded
SYMMETRY MCSymmetry
CHECK_DEADLOCK FALSE

SPECIFICATION Spec
CONSTANTS
  Clusters = {2, 3, 4, 5}
  a = a
  b = b
  x = x
  y = x
  h = h
  Names <- MCNames
  Data <- MCData
  Handles <- MCHandles
  Size = 3
  RootSize = 3
  Depth = 2
  MaxFile = 8
  Sizes = {4}
  AppendOnly = TRUE
  MaxCrashes = 1
INVARIANTS
  SoundAtEveryWrite
  FreeIsBlank
  SavedBetweenOperations
SYMMETRY MCSymmetry
CHECK_DEADLOCK FALSE

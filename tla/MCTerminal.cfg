SPECIFICATION FairSpec
CONSTANTS
  r = r
  EOT = EOT
  ETX = ETX
  CR = CR
  LF = LF
  BS = BS
  Key <- MCKey
  Rgen = r
  LineSize = 3
  MaxQueue = 2
  MaxAhead = 2
  MaxKeys = 6
INVARIANTS
  TypeOK
  GuardInFrame
  StrayEot
PROPERTIES
  EotStopsRgen
  JoinReturns
  OneMoreKey
CHECK_DEADLOCK FALSE

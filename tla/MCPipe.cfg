SPECIFICATION FairSpec
CONSTANTS
  a = a
  b = b
  eot = eot
  Zero = Zero
  Char <- MCChar
  EOT = eot
  Capacity = 2
  Messages <- MCMessages
  ReadSizes = {1, 3}
  MaxCalls = 3
INVARIANTS
  TypeOK
  PipeInv
  RingHoldsUnread
  DestroyedUnused
PROPERTIES
  ChannelSpec
  ProgramsEnd
CHECK_DEADLOCK FALSE

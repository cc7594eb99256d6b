SPECIFICATION FairSpec
CONSTANTS
  a = a
  b = b
  eot = eot
  Zero = Zero
  Char <- MCChar
  EOT = eot
  Capacity = 2
  Messages <- MCPlainMessages
  ReadSizes = {1, 2}
  MaxCalls = 2
PROPERTIES
  EndsGetClosed
CHECK_DEADLOCK FALSE

SPECIFICATION CancelSpec
CONSTANTS
  a = a
  b = b
  eot = eot
  Zero = Zero
  Char <- MCChar
  EOT = eot
  Capacity = 2
  Messages <- MCOneMessage
  ReadSizes = {2}
  MaxCalls = 1
PROPERTIES
  CancelEndsReader
CHECK_DEADLOCK FALSE

CONSTANTS
  Handles = 11
  PipeSize = 3
  ReadSize = 2
  MaxCommands = 2
  Collation <- MCCollation
  Dotted <- MCDotted
  Disk <- MCDisk
  Commands <- MCCommands
SPECIFICATION Spec
INVARIANTS
  CancelledCloses
CHECK_DEADLOCK FALSE

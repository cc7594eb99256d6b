CONSTANTS
  Handles = 11
  PipeSize = 3
  ReadSize = 2
  MaxCommands = 2
  Collation <- MCCollation
  Dotted <- MCDotted
  Disk <- MCDisk
  Commands <- MCCommands
SPECIFICATION Spec
INVARIANTS
  TypeOK
  IInv
  ParsedAsWritten
  HandlesReturned
  GivenHandlesStay
  OutputAsComposed
  Defined
  CdAgrees
PROPERTIES
  PromptReturns
CHECK_DEADLOCK FALSE

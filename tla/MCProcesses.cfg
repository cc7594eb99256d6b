SPECIFICATION FairSpec
CONSTANTS
  boot = boot
  shell = shell
  p = p
  q = q
  w = w
  Thread <- MCThread
  Boot = boot
  Process <- MCProcess
  Cloner <- MCCloner
  Waits <- MCWaits
  Readers <- MCReaders
  Code = {Success, Failure}
  Success = Success
  Unknown = Unknown
  None = None
INVARIANTS
  TypeOK
  NoDanglingListener
  NoLostWakeup
  EntryWhileRunning
  NoStaleEntry
PROPERTIES
  WaitForResult
  WaitReturns
CHECK_DEADLOCK FALSE

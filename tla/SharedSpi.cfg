SPECIFICATION FairSpec
CONSTANTS
  IoTasks = {io1, io2}
  EthTasks = {eth}
  Main = main
  None = none
  Bytes <- MCBytes
  Headers <- MCHeaders
  Vals <- MCVals
  Ops <- MCOps
  DEINIT = FALSE
INVARIANTS
  TypeOK
  OneTransfer
  Addressed
  GuardedByLock
PROPERTIES
  AtomicAccess
  AccessReturns

SPECIFICATION Spec
CONSTANTS
  IoTasks = {io1}
  EthTasks = {eth}
  Main = main
  None = none
  Bytes <- MCBytes
  Headers <- MCHeaders
  Vals <- MCVals
  Ops <- MCOps
  DEINIT = TRUE
INVARIANT
  GuardedByLock

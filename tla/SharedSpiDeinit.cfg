SPECIFICATION Spec
SYMMETRY MCSymmetry
CONSTANTS
  IoTasks = {io1, io2}
  EthTasks = {eth}
  Main = main
  None = none
  Bytes <- MCBytes
  Headers <- MCHeaders
  Vals <- MCVals
  Ops <- MCOps
  DEINIT = TRUE
INVARIANTS
  IInv
  OneTransfer
  Addressed

SPECIFICATION FairSpec
CONSTANTS
  BUILDS <- MCBuilds
  LAST = 2
  EthMac = ethmac
  NoMac = nomac
  NoAddr = noaddr
  Null = null
  Addrs = {a1, a2}
  Demos = {"echo", "bsd", "client"}
  QUEUE = 2
INVARIANTS
  TypeOK
  PortsWhole
  SplitBeforeOpen
  Toe0InStep
  DemosHaveAddress
  TearDownExact
PROPERTY
  AddressReachesChip
CHECK_DEADLOCK FALSE

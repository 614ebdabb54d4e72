SPECIFICATION Spec
CONSTANTS
  Servers = {server}
  Clients = {c1, c2}
  Checkers = {main}
  Builds <- AllTogether
  SERIAL = TRUE
  N = 2
  PORT = 5010
  NoFd = nofd
  LwipFd = lwipfd
INVARIANTS
  TypeOK
  MaskExact
  ListensOnBound
PROPERTY
  FallbackWhenFull
CHECK_DEADLOCK FALSE

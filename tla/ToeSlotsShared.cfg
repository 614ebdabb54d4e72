SPECIFICATION Spec
CONSTANTS
  Servers = {server}
  Clients = {client}
  Checkers = {main}
  Builds <- AllTogether
  SERIAL = FALSE
  N = 2
  PORT = 5010
  NoFd = nofd
  LwipFd = lwipfd
INVARIANT
  Exclusive
CHECK_DEADLOCK FALSE

SPECIFICATION FairSpec
CONSTANTS
  N = 2
  BASE = 65535
  ANYPORTS = {49152}
  RXMAX = 2
  TXMAX = 1
  BUFSIZE = 2
  MAXCONNS = 2
  MAXBYTES = 2
  CHECKS = {FALSE, TRUE}
  CHECKMAX = 1
INVARIANTS
  TypeOK
  Conserved
  OwnPort
PROPERTIES
  EchoesFaithfully
  HalfCloseDrained
  EchoedInFull
  Rearms

SPECIFICATION FairSpec
CONSTANTS
  RXMAX = 3
  TXMAX = 1
  BUFSIZE = 2
  MAXCONNS = 2
  MAXBYTES = 3
PROPERTY
  SendCompletes

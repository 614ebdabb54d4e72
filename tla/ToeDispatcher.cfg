SPECIFICATION FairSpec
CONSTANTS
  Socks = {0, 1}
  Bits = {recv, sendok}
  Tasks = {t1, t2}
  NoTask = notask
  Handlers = {h}
  NoHandler = null
  WAITS = 2
INVARIANTS
  TypeOK
  NoEventLost
PROPERTIES
  Socket0Untouched
  EventsHandled
  StopReturns
  StoppedTaskExitsAlone

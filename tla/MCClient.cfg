CONSTANTS
  Offset <- MCOffset
  MaxDelay = 1
  DisableScroll = FALSE
  MaxSocket = 3
  MaxTime = 4
SPECIFICATION FairSpec
INVARIANTS
  OneConnection
  ScrollsOnce
  WindowFollowsServer
  MarkedWhileDown
PROPERTIES
  EventuallySubscribed
CHECK_DEADLOCK FALSE

CONSTANTS
  c1 = c1
  c2 = c2
  Chan = {c1, c2}
  InboxCap = 2
  MaxPublish = 4
SPECIFICATION FairSpec
INVARIANTS
  DeliveredInOrder
  DropCountExact
  UnsubscribeIsFinal
PROPERTIES
  RequestsServed
  StopEnds
CHECK_DEADLOCK FALSE

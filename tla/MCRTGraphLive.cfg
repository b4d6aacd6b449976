CONSTANTS
  a = a
  b = b
  Series = {a, b}
  Time = {1, 2}
  Shown <- ShowsTwice
  WindowStart = 2
  Dates <- AnyOrAll
  v1 = v1
  Viewer = {v1}
  x1 = x1
  Conn = {x1}
  DbCh = DbCh
  NoConn = NoConn
  WireCap = 1
  InboxCap = 1
  BufSize = 1
  MaxPublish = 2
SPECIFICATION FairSpec
INVARIANTS
  SnapshotIsPrefix
  FirstSampleRecorded
PROPERTIES
  LiveDelivered
  EventuallyRecorded
CHECK_DEADLOCK FALSE

CONSTANTS
  a = a
  b = b
  Series = {a}
  Time = {1, 2}
  Shown <- ShowsOne
  WindowStart = 0
  Dates <- NoDate
  v1 = v1
  Viewer = {v1}
  x1 = x1
  x2 = x2
  Conn = {x1, x2}
  DbCh = DbCh
  NoConn = NoConn
  WireCap = 1
  InboxCap = 1
  BufSize = 1
  MaxPublish = 2
SPECIFICATION Spec
SYMMETRY ConnSymmetry
INVARIANTS
  TypeOK
  AtMostOnce
  LiveAfterSnapshot
  NothingLostInTransit
CHECK_DEADLOCK FALSE

CONSTANTS
  w1 = w1
  y1 = y1
  y2 = y2
  x1 = x1
  x2 = x2
  Null = Null
  Window = {w1}
  YRange = {y1, y2}
  X = {x1, x2}
  N = 3
  SyncRange = TRUE
  Interactive = TRUE
  MayThrow = TRUE
  MaxEvents = 4
  MaxReentry = 1
SPECIFICATION MCSpec
INVARIANTS
  OneLoop
  OnlyStaleDiffer
  PageHasSeen
  SelectionsMatch
PROPERTIES
  EventsEnd
CHECK_DEADLOCK FALSE

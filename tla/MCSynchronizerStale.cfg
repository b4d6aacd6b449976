CONSTANTS
  w1 = w1
  y1 = y1
  y2 = y2
  x1 = x1
  x2 = x2
  Null = Null
  Window = {w1}
  YRange = {y1, y2}
  X = {x1, x2}
  N = 2
  SyncRange = FALSE
  Interactive = TRUE
  MayThrow = FALSE
  MaxEvents = 3
  MaxReentry = 0
SPECIFICATION MCSpec
INVARIANTS
  Synchronized
CHECK_DEADLOCK FALSE

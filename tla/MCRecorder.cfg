CONSTANTS
  k1 = k1
  k2 = k2
  Key = {k1, k2}
  Value = {1, 2}
  Absent = Absent
  BufSize = 2
  MaxAccepted = 4
  MaxCrashes = 1
SPECIFICATION FairSpec
INVARIANTS
  PipelineIntact
  TableHoldsWritten
PROPERTIES
  ImplementsStore
  EventuallyWritten
CHECK_DEADLOCK FALSE

CONSTANTS
  NumSeries = 2
  Time = {1, 2, 3, 4}
  MaxGap = 1
  NaN = NaN
  Null = Null
  MaxAppends = 3
  MaxBatch = 2
SPECIFICATION Spec
INVARIANTS
  DrawnFromScratch
  RepeatedRowsAreGaps
  LastRowIsNewest
  IndicesDelimitWindow
CHECK_DEADLOCK FALSE

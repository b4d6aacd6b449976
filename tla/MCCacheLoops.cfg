CONSTANTS
  NumSeries = 2
  Time = {1, 2, 3, 4}
  MaxGap = 1
  NaN = NaN
  Null = Null
  MaxAppends = 2
  MaxBatch = 2
  SearchLen = 12
  NotFound <- MCNotFound
  MergeTime = {1, 2, 3}
  MergeLen = 4
SPECIFICATION MCSpec
INVARIANTS
  FindsFirst
  MergesStably
PROPERTIES
  DrawsLikeCache
CHECK_DEADLOCK FALSE

CONSTANTS
  Functions <- AllFunctions
  Dates <- NoneOrOne
  NoDate = NoDate
  Duration = 2
  Target = 1
  SampleValue = {0, 2}
  MaxSampleTime = 5
  MaxSamples = 4
  MaxLate = 1
SPECIFICATION SeriesSpec
INVARIANTS
  SumsMatchWindow
  ResultsExact
  ExactOnceFilled
CHECK_DEADLOCK FALSE

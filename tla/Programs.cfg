SPECIFICATION ProgramsSpec
CONSTANTS
  Tasks = {t1, t2}
  MaxRuns = 2
  Queries <- TokenSequences
  Stdins <- ValueSequences
  NaN = NaN
  Text <- TextOrder
  NumberOf <- Floats
  Digits <- DigitStrings
  ColumnSpecs <- Selections
  Wheres <- Predicates
  CsvInputs <- Tables
  Absent = Absent
  Repositories <- Variations
  PadWidth = 1
  LogOnly = {"e2"}
  LoopTiles = {"t2"}
INVARIANT LockCoversWork
INVARIANT PublishedWasEarned
INVARIANT MonitorSeesEnds
INVARIANT ProgramsMean
PROPERTY DispatchEnds
CHECK_DEADLOCK FALSE

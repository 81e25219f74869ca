SPECIFICATION FairSpec
CONSTANTS
  Tasks = {t1}
  Sessions = {s1, s2}
  Retries = 0
  MaxRuns = 2
  MaxBreaks = 2
INVARIANT WriterHoldsLock
PROPERTY StepEnds
CHECK_DEADLOCK FALSE

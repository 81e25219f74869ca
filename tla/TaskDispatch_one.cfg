SPECIFICATION Spec
CONSTANTS
  Tasks = {t1}
  Sessions = {s1}
  Retries = 1
  MaxRuns = 3
  MaxBreaks = 1
INVARIANT EndsExactlyOnce
INVARIANT DoneIsEarned
CHECK_DEADLOCK FALSE

SPECIFICATION Spec
CONSTANTS
  Tasks = {t1}
  Sessions = {s1}
  Retries = 2
  MaxRuns = 2
  MaxBreaks = 1
INVARIANT RetryIsNotRefused
CHECK_DEADLOCK FALSE

SPECIFICATION Spec
CONSTANTS
  Tasks = {t1}
  MaxRuns = 1
INVARIANT NoSilentTermination
CHECK_DEADLOCK FALSE

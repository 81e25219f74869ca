SPECIFICATION Spec
CONSTANTS
  Tasks = {t1}
  Sessions = {s1, s2}
  Retries = 1
  MaxRuns = 3
  MaxBreaks = 1
INVARIANT EarnedBySameWork
SYMMETRY SessionSymmetry
CHECK_DEADLOCK FALSE

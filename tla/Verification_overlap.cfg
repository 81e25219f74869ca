SPECIFICATION VerificationSpec
CONSTANTS
  v1 = v1
  v2 = v2
  Worktrees = {v1, v2}
  ChangesIn <- RefactorsOnly
  PathsOf <- LastAttempts
  CheckFaults = 0
INVARIANT StashAlwaysRestored
CHECK_DEADLOCK FALSE

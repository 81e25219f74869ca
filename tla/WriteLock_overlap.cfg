SPECIFICATION Spec
CONSTANTS
  p1 = p1
  p2 = p2
  j1 = j1
  j2 = j2
  j3 = j3
  Jobs = {j1, j2, j3}
  Procs = {p1, p2}
  Home <- TwoProcesses
  NoJob = NoJob
  Tokens = {k1, k2, k3}
  NoToken = NoToken
  MaxFaults = 2
CHECK_DEADLOCK FALSE
INVARIANT SingleWriter

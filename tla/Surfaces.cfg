SPECIFICATION SurfacesSpec
CONSTANTS
  p1 = p1
  j1 = j1
  j2 = j2
  Jobs = {j1, j2}
  Procs = {p1}
  Home <- OneProcess
  NoJob = NoJob
  Tokens = {k1, k2, k3}
  NoToken = NoToken
  MaxFaults = 2
  Surfaces = {"tui", "panel"}
  Tuis = {"tui"}
  EnvTarget = "no target"
  RunCap = 2
  QuestionCap = 2
  TaskCap = 2
  WhimCap = 1
  MishapCap = 1
INVARIANT SingleWriter
INVARIANT GuidanceHolds
PROPERTY StrandedLockFailsClosed
PROPERTY EverythingLetGo
PROPERTY HintsLeadHome
CHECK_DEADLOCK FALSE

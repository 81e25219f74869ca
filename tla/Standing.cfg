SPECIFICATION StandingSpec
CONSTANTS
  e1 = e1
  e2 = e2
  r1 = r1
  r2 = r2
  q1 = q1
  k1 = k1
  k2 = k2
  k3 = k3
  p1 = p1
  p2 = p2
  s1 = s1
  s2 = s2
  Classes = {c1}
  Evaluators = {e1, e2}
  Pruners = {p1}
  TrustDays = 1
  TrustHorizon = 4
  TrustRowCap = 2
  Requesters = {q1}
  Intakes = {k1, k2, k3}
  RequesterOf <- OneRequester
  MaxPerWindow = 2
  Window = 2
  CooldownFor = 2
  Permanent = 100
  IntakeHorizon = 3
  Reviewers = {r1, r2}
  Antibodies = {a1, a2}
  GateChanges = {g1, g2}
  Enactable = {g1}
  AutoRejected = {g2}
  ReviewCap = 3
  Projects = {p1, p2}
  Names = {"devharness", "other"}
  NameOf <- ProjectNames
  Entries = {e1, e2}
  MemoryStamps = {1, 2}
  Tasks = {"t1", "t2", "t3"}
  TaskOrder <- ThreeTasks
  DependsOn <- SecondOnFirst
  Specs = {1}
  PlanCap = 2
  DispatchCap = 4
  BuildMoves = 5
  BuildKills = 1
  Stores = {s1, s2}
  FirstStore = s1
  Requests = {r1, r2}
  NoTarget = NoTarget
  SwitchCap = 1
  Openers = {e1, e2}
  Scripts <- ThreeScripts
  MigrationKills = 2
  v1 = v1
  v2 = v2
  Worktrees = {v1, v2}
  ChangesIn <- ChangesHere
  PathsOf <- PathsHere
  CheckFaults = 1
  Jobs = {e1, e2, r1}
  Procs = {p1, p2}
  Home <- LockHomes
  NoJob = NoJob
  Tokens = {k1, k2, k3}
  NoToken = NoToken
  MaxFaults = 2
INVARIANT NoTrustAfterRevocation
INVARIANT RevokedStaysOut
INVARIANT Throttled
INVARIANT VerdictStands
INVARIANT TrustIsEarned
INVARIANT BuiltIsEarned
INVARIANT StoresDoNotMix
INVARIANT NeverOpensTorn
INVARIANT VerdictIsClaim
INVARIANT WorkComesBack
INVARIANT MonitorExact
CHECK_DEADLOCK FALSE

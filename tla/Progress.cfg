SPECIFICATION ProgressSpec
CONSTANTS
  Windows = {"w1", "w2"}
  Consoles = {"w2"}
  Builds = {"b1", "b2"}
  Backlog <- OneSettled
  NoContent = "none"
  KeyOf <- TaskEach
  YieldOf <- AntibodyEach
  NeedsLlm = {"b2"}
  RuleOf <- GuardRules
  CoreGate = {}
  OrphanChange = "orphan"
  SpineKills = 1
  SpineWindows = 2
  Interviews = {"i1", "i2"}
  CorrelationOf <- SameCorrelation
  Polled = {"i1"}
  MaxQuestions = 2
  MinQuestions = 1
  AnswerCap = 2
  InterviewKills = 1
  Clients = {"c1"}
  Kinds = {"a", "b"}
  AllKinds = "all"
  ChannelOf <- OnKindA
  Capacity = 1
  RelayLogCap = 3
  RelayFaults = 1
  Connections = 2
  TailStores = {"s1", "s2"}
  Launched = "s1"
  PageRows = 1
  TailLogCap = 2
  TailMoves = 2
INVARIANT RaceResidueBounded
INVARIANT AnswersFresh
INVARIANT StreamIsLog
INVARIANT TailIsLog
PROPERTY WindowEnds
PROPERTY InterviewEnds
PROPERTY EventReachesOperator
CHECK_DEADLOCK FALSE

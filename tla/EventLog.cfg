SPECIFICATION RecordSpec
CONSTANTS
  Conns = {c1, c2}
  NoConn = NoConn
  EventIds = {i1, i2, i3}
  Keys = {k1, k2}
  Corrs = {x}
  NoCorr = NoCorr
  Arts = {a1}
  MaxLog = 3
  ModelTasks = {w1, w2}
  Drafts = {d1, d2}
  Mine = "devharness"
  Foreign = "other"
  ShortLog = 4
  LongLog = 5
INVARIANT ChainIntact
INVARIANT ReadModelParity
INVARIANT TablesMeanLog
INVARIANT LiveKeysParity
INVARIANT NoPoisonedTransaction
INVARIANT TamperEvident
PROPERTY ImplementsAppendLog
PROPERTY LockReleased
CHECK_DEADLOCK FALSE

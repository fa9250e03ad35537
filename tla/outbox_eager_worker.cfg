CONSTANTS
  n1 = n1
  n2 = n2
  Rows = {n1}
  NoRow = NoRow
  Workers = {w1, w2}
  Dispatchers = {d1}
  Operators = {}
  Fallback <- NoFallback
  Rank <- SameRank
  BatchSize = 1
  MaxAttempts = 2
  MaxMessages = 2
  MaxFaults = 0
  MaxManual = 0
  FaultKinds = {}
  CrashPoints = {}
  MaySlow = FALSE
  EagerWorkers = TRUE
SPECIFICATION FairSpec
PROPERTIES EventuallySettled
CHECK_DEADLOCK FALSE

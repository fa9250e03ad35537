CONSTANTS
  n1 = n1
  n2 = n2
  Rows = {n1}
  NoRow = NoRow
  Workers = {w1, w2}
  Dispatchers = {d1}
  Operators = {o1}
  Fallback <- NoFallback
  Rank <- SameRank
  BatchSize = 1
  MaxAttempts = 2
  MaxMessages = 2
  MaxFaults = 0
  MaxManual = 1
  FaultKinds = {}
  CrashPoints = {}
  MaySlow = TRUE
  EagerWorkers = FALSE
SPECIFICATION Spec
SYMMETRY Symmetry
INVARIANTS TypeOK OneOwner LedgerContiguous SentMeansAccepted AttemptsBounded
PROPERTIES AttemptsNeverDecrease
CHECK_DEADLOCK FALSE

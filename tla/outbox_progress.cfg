CONSTANTS
  n1 = n1
  n2 = n2
  Rows = {n1, n2}
  NoRow = NoRow
  Workers = {w1}
  Dispatchers = {d1}
  Operators = {}
  Fallback <- NoFallback
  Rank <- FirstRank
  BatchSize = 1
  MaxAttempts = 2
  MaxMessages = 2
  MaxFaults = 1
  MaxManual = 0
  FaultKinds = {"broker_down", "broker_unsure", "duplicate", "callback_lost", "dispatcher_crash", "worker_crash", "ambiguous_send"}
  CrashPoints = {"claimed", "open"}
  MaySlow = FALSE
  EagerWorkers = FALSE
SPECIFICATION FairSpec
INVARIANTS QueuedHasMessage NextAttemptIsFree
PROPERTIES EventuallySettled
CHECK_DEADLOCK FALSE

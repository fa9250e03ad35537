CONSTANTS
  n1 = n1
  n2 = n2
  Rows = {n1, n2}
  NoRow = NoRow
  Workers = {w1, w2}
  Dispatchers = {d1}
  Operators = {}
  Fallback <- OneFallback
  Rank <- SameRank
  BatchSize = 1
  MaxAttempts = 2
  MaxMessages = 2
  MaxFaults = 2
  MaxManual = 0
  FaultKinds = {"broker_down", "broker_unsure", "loss", "duplicate", "callback_lost", "dispatcher_crash", "worker_crash"}
  CrashPoints = {"loaded", "claimed", "open", "opened", "finish", "save"}
  MaySlow = FALSE
  EagerWorkers = TRUE
SPECIFICATION Spec
SYMMETRY Symmetry
INVARIANTS DeliveredOnce FailureHasFallback
PROPERTIES ImplementsDelivery SettledIsFinal FallbackAfterFailure
CHECK_DEADLOCK FALSE

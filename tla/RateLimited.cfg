SPECIFICATION LimitedSpec
CONSTANTS
  None = None
  Callers = {a, b}
  MaxRetries = 3
  Backoff = 1
  RateLimitBackoff = 10
  Timeout = 40
  Latencies = {1, 4}
  RetryAfters = {None}
  MaxCalls = 2
  Budget <- LeastBudget
  Window = 10
  Prolongs = TRUE
  MaxLost = 1
INVARIANTS
  LimitedTypeOK
  LoneScanServed
  PairServed
PROPERTY
  EveryCallEnds
CHECK_DEADLOCK FALSE

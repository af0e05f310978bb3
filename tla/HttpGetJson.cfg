SPECIFICATION Spec
CONSTANTS
  None = None
  Callers = {a}
  MaxRetries = 3
  Backoff = 1
  RateLimitBackoff = 10
  Timeout = 40
  Latencies = {1, 40}
  RetryAfters = {None, 24}
  MaxCalls = 2
  Budget <- LeastBudget
INVARIANTS
  TypeOK
  AttemptsBounded
  ReportsLastAttempt
  WithinBudget
CHECK_DEADLOCK FALSE

SPECIFICATION Spec
CONSTANTS
  None = None
  Callers = {a}
  MaxRetries = 3
  Backoff = 1
  RateLimitBackoff = 10
  Timeout = 40
  Latencies = {1, 40}
  RetryAfters = {None}
  MaxCalls = 1
  Budget <- LeastBudget
INVARIANT DocumentedWorstCase
CHECK_DEADLOCK FALSE

CONSTANTS
  r1 = r1
  r2 = r2
  r3 = r3
  r4 = r4
  p1 = p1
  p2 = p2
  Request = {r1, r2, r4}
  Provider = {p1, p2}
  providerKey <- MCProviderKey
  HasFallback = {r1}
  MaxConcurrent = 2
  MaxAttempts = 2
  MaxRecoveries = 1
  MaxRetryAfter = 1
  RetryAfter = {1, 2}
  MaxAborts = 1
SPECIFICATION FairSpec
CHECK_DEADLOCK FALSE
INVARIANTS SlotsAreUsed
PROPERTIES RateLimitsAreRespected RequestsEnd

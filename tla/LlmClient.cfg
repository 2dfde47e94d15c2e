SPECIFICATION FairSpec
CONSTANTS
  c1 = c1  c2 = c2  p = p  l = l  Nobody = Nobody
  Clients = {c1, c2}
  LimiterOf <- OneLimiter
  Prompts = {p}
  Outdated = {p}
  Estimate <- LowEstimates
  MaxBill = 2
  Limit = 3
  Budget = 1
  MaxRetries = 2
  Window = 1
  MaxCalls = 1
INVARIANTS
  TypeOK
  WindowWithinLimit
  OvershootBounded
  ReservationsMatchRequests
PROPERTIES
  CallsEnd
CHECK_DEADLOCK FALSE

SPECIFICATION Spec
CONSTANTS
  c1 = c1  c2 = c2  p = p  l = l  Nobody = Nobody
  Clients = {c1, c2}
  LimiterOf <- OneLimiter
  Prompts = {p}
  Outdated = {p}
  Estimate <- Estimates
  MaxBill = 2
  Limit = 3
  Budget = 3
  MaxRetries = 2
  Window = 1
  MaxCalls = 1
INVARIANTS
  BudgetIsHardCap
CHECK_DEADLOCK FALSE

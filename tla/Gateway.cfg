SPECIFICATION Spec
CONSTANTS
  o1 = o1
  o2 = o2
  t1 = t1
  t2 = t2
  Callers = {o1, o2}
  Streams = {o2}
  IdleTimed = {o2}
  Targets = {t1, t2}
  Route <- MCRoute
  FailureThreshold = 1
  HalfOpenMaxProbes = 1
  MaxCircuits = 1
  Cooldowns = {1}
  MaxConcurrent = 1
  RequestsPerWindow = 2
  TokensPerWindow = 3
  Window = 1
  MaxQueue = 1
  ReserveTokens = 1
  Limit = 2
  ReserveAmount = 1
  MaxRetries = 1
  MaxTotalAttempts = 2
  Usages <- MCUsages
  MaxTime = 1
  MaxEpoch = 9
CHECK_DEADLOCK FALSE
INVARIANTS
  SlotsExact
  QuotaExact
  SpendingExact
PROPERTIES
  KeepsToBreaker
  EverythingGivenBack

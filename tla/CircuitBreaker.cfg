SPECIFICATION BreakerSpec
CONSTANTS
  Callers = {c1, c2, c3}
  Targets = {t1, t2, t3}
  FailureThreshold = 2
  HalfOpenMaxProbes = 1
  MaxCircuits = 2
  Cooldowns = {1, 2}
  MaxTime = 2
  MaxEpoch = 4
SYMMETRY Callers3
CHECK_DEADLOCK FALSE
INVARIANTS
  ProbesBounded
  InFlightExact
PROPERTIES
  RecoversByProbe

SPECIFICATION MonitorSpec
CONSTANTS
  Workers = {w1, w2}
  NoOwner = nobody
  RenewCreates = TRUE
CHECK_DEADLOCK FALSE
INVARIANTS
  EndedOwnsNothing
PROPERTIES
  LiveLeaseKept
  ReleaseBounded
  LossNoticed
  CancellationNoticed

SPECIFICATION Spec
CONSTANTS
  Workers = {w1, w2}
  NoOwner = nobody
  Steps = 2
  Outcomes = {"completed", "waiting", "failed"}
  Faults = {"expire", "store", "session"}
  MaxRev = 3
SYMMETRY WorkerSymmetry
CHECK_DEADLOCK FALSE
INVARIANTS
  TypeOK
  LossStopsOwner
PROPERTIES
  StaleOwnerWritesNothing
  RenewalOnlyExtends

SPECIFICATION Spec
CONSTANTS
  Workers = {w1}
  Reconcilers = {}
  Ops = {o1}
  ProviderIds = {p1}
  MaxSteps = 1
  NoOwner = nobody
  CancelModes = {"final"}
  Faults = {"interrupt"}
  Keyed = FALSE
CHECK_DEADLOCK FALSE
PROPERTIES
  FailurePreservesCancellation

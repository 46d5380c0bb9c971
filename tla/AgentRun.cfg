SPECIFICATION Spec
CONSTANTS
  Workers = {w1, w2}
  Reconcilers = {}
  Ops = {o1}
  ProviderIds = {p1}
  MaxSteps = 2
  NoOwner = nobody
  CancelModes = {"request", "final"}
  Faults = {"expire", "interrupt"}
  Keyed = FALSE
SYMMETRY Symmetry
CHECK_DEADLOCK FALSE
INVARIANTS
  TypeOK
  EffectAtMostOnce
  AtMostOneLateEffect
PROPERTIES
  NoLostUpdate
  CancellationSticks
  ActsAsOne

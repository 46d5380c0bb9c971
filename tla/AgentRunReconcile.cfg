SPECIFICATION Spec
CONSTANTS
  Workers = {w1, w2}
  Reconcilers = {r1}
  Ops = {o1}
  ProviderIds = {p1}
  MaxSteps = 2
  NoOwner = nobody
  CancelModes = {}
  Faults = {"expire", "unknown", "claim"}
  Keyed = TRUE
SYMMETRY Symmetry
CHECK_DEADLOCK FALSE
INVARIANTS
  ResultAgreesWithJournal
  IndeterminateFlagged
  OutcomeHonest
PROPERTIES
  JournalDecisionStable
  ActsAsOne

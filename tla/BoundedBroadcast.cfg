SPECIFICATION Spec
CONSTANTS
  p1 = p1
  p2 = p2
  s1 = s1
  s2 = s2
  Publishers = {p1, p2}
  Subscribers = {s1, s2}
  Publishes <- MCPublishes
  Accepts <- MCAccepts
  Policies = {"error", "drop-oldest"}
  MaxHistory = 1
  MaxQueue = 1
  MaxTerminal = 1
  MaxEvents = 3
CHECK_DEADLOCK FALSE
INVARIANTS
  PublisherOrder
  EndedHasAll
  Bounded
  NoLostWakeup
PROPERTIES
  PublishersProceed

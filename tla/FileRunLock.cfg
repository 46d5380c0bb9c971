SPECIFICATION Spec
CONSTANTS
  p1 = p1
  p2 = p2
  p3 = p3
  t1 = t1
  t2 = t2
  t3 = t3
  Tasks = {t1, t2, t3}
  Processes = {p1, p2, p3}
  Process <- MCProcess
  Crashing = {p1, p2}
  MaxLocks = 2
CHECK_DEADLOCK FALSE
INVARIANTS
  MutualExclusion
PROPERTIES
  NeverStolen
  OwnerExitRecoversUnlessOrphaned

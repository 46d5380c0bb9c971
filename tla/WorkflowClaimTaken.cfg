SPECIFICATION Spec
CONSTANTS
  Workers = {w1, w2}
  NoOwner = nobody
  Steps = 1
  Outcomes = {"completed"}
  Faults = {}
  MaxRev = 2
CHECK_DEADLOCK FALSE
PROPERTIES
  LiveClaimNotTaken

CONSTANTS
  root = root
  mid = mid
  leaf = leaf
  Runs = {root, mid, leaf}
  Root = root
  Parent <- MCParent
  Passes = 3
  Modes = {"request"}
  CascadeOption = FALSE
  MaxResumes = 1
  Resumed = {leaf}
  NoRun = NoRun
SPECIFICATION Spec
CHECK_DEADLOCK FALSE
INVARIANTS
  NoneSlipsPast
  TreeReached

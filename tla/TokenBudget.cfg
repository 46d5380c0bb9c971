CONSTANTS
  o1 = o1
  o2 = o2
  a = a
  aResumed = aResumed
  aOperator = aOperator
  b = b
  bResumed = bResumed
  Operations = {o1, o2}
  Workers = {a, aResumed, aOperator, b, bResumed}
  Operators = {aOperator}
  Auxiliary = {b, bResumed}
  Need <- MCNeed
  OperationOf <- MCOperationOf
  Limit = 3
  Usages = {0, 1, 3}
  Tries = 2
  Unknown = Unknown
SPECIFICATION Spec
CHECK_DEADLOCK FALSE
INVARIANTS
  SpendingBounded
PROPERTY AtomicLedger

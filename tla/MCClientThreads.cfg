SPECIFICATION Spec
CONSTANTS
  Thread = {t1, t2}
  Calls <- ThreadCalls
  MaxEvents = 4
  None = None
SYMMETRY Symmetry
CHECK_DEADLOCK FALSE
INVARIANTS
  TypeOK
  AckedMeansServed
  PoolIsUnacknowledged
  NothingForgotten

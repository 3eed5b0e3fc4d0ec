SPECIFICATION LiveSpec
CONSTANTS
  Thread = {t1, t2, t3}
  Queue = {q1, q2}
  Tag <- OneTag
  NoTag <- MCNoTag
  Caller <- Everyone
  Matches <- OneMatch
  MaxClients = 1
  MaxQueues = 2
  None = None
  Budget = 4
CHECK_DEADLOCK FALSE
INVARIANTS
  TypeOK
  NoGhostListener
  DescriptionIsSnapshot
PROPERTY
  EveryCallEnds

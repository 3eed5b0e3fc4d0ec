SPECIFICATION Spec
CONSTANTS
  Thread = {t1}
  Queue = {q1}
  Tag <- MCTag
  NoTag <- MCNoTag
  Caller <- Everyone
  Matches <- MCMatches
  MaxClients = 2
  MaxQueues = 2
  None = None
PROPERTY
  RemovedOnlyIfUnused

SPECIFICATION Spec
CONSTANTS
  Thread = {t1}
  Calls <- SyncPublish
  MaxEvents = 2
  None = None
CHECK_DEADLOCK FALSE
INVARIANT
  EveryOkIsExpected

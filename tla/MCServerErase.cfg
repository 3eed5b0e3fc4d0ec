SPECIFICATION Spec
CONSTANTS
  Pools = {{i1, i2}}
  AppThread = {a1}
  MaxClients = 1
  MaxRequests = 1
  MaxMessages = 1
  None = None
CHECK_DEADLOCK FALSE
INVARIANTS
  ErasedIsListed

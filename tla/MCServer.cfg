SPECIFICATION FairSpec
CONSTANTS
  Pools = {{i1}, {i1, i2}}
  AppThread = {a1}
  MaxClients = 1
  MaxRequests = 2
  MaxMessages = 1
  None = None
CHECK_DEADLOCK FALSE
INVARIANTS
  TypeOK
  StoppedIsEmpty
  UsersConnected
  ListenersConnected
  ErasedAfterListed
  IdsIncrease
PROPERTIES
  GoneIsForgotten
  EveryStepEnds

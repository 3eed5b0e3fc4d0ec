SPECIFICATION DeliverySpec
CONSTANTS
  Thread = {t1, t2}
  Queue = {q1}
  Tag <- MCTag
  NoTag <- MCNoTag
  Caller <- Clients
  Matches <- MCMatches
  MaxClients = 2
  MaxQueues = 2
  None = None
SYMMETRY Symmetry
INVARIANTS
  MembersKeepQueue
  PublishReachesMembers
  OneOwner
PROPERTY
  ImplementsBroker

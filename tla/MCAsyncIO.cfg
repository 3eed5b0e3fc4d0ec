SPECIFICATION Spec
CONSTANTS
  Query <- MCQuery
  Room = 64
  MaxSends = 2
CHECK_DEADLOCK FALSE
INVARIANTS
  TypeOK
  QueueSizeCounts
PROPERTY
  ImplementsChannel

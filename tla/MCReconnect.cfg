SPECIFICATION FairSpec
CONSTANT
  MaxSockets = 3
CHECK_DEADLOCK FALSE
INVARIANTS
  TypeOK
  NeverGivesUp
  ConnectedIsRead
PROPERTY
  StopEnds

SPECIFICATION FairSpec
CONSTANT
  MaxSockets = 3
CHECK_DEADLOCK FALSE
PROPERTY
  DisconnectEnds

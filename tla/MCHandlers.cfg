SPECIFICATION FairSpec
CONSTANTS
  h1 = h1
  h2 = h2
  q1 = q1
  q2 = q2
  Thread = {t1, t2}
  Handler = {h1, h2}
  Queue = {q1, q2}
  Tag <- MCTag
  NoTag <- MCNoTag
  Matches <- MCMatches
  Subscriptions <- Retagged
  MayRemove = TRUE
  Publishes = FALSE
  MaxEvents = 6
  None = None
CHECK_DEADLOCK FALSE
INVARIANTS
  TypeOK
  RemovedNotCalled
  CalledWhenDue
PROPERTY
  SubscribeReturns

SPECIFICATION FairSpec
CONSTANTS
  h1 = h1
  h2 = h2
  q1 = q1
  q2 = q2
  Thread = {t1}
  Handler = {h1, h2}
  Queue = {q1, q2}
  Tag <- MCTag
  NoTag <- MCNoTag
  Matches <- MCMatches
  Subscriptions <- Retagged
  MayRemove = FALSE
  Publishes = TRUE
  MaxEvents = 3
  None = None
CHECK_DEADLOCK FALSE
PROPERTY
  ConsumeReturns

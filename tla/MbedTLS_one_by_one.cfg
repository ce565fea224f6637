SPECIFICATION FairSpec
CONSTANTS
  c1 = c1
  c2 = c2
  Conns = {c1, c2}
  NoConn = NoConn
  Requests = 2
  Records = 3
  Concurrent = FALSE
  Patient = TRUE
  Glue = TRUE
INVARIANTS
  TypeOK
  RepliesAreInOrder
  NoRecordIsLost
  ReadyOwnsTheContext
  ServedUntilClosed
PROPERTY
  EveryRequestAnswered
CHECK_DEADLOCK FALSE

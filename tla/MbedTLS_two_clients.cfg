SPECIFICATION Spec
CONSTANTS
  c1 = c1
  c2 = c2
  Conns = {c1, c2}
  NoConn = NoConn
  Requests = 2
  Records = 2
  Concurrent = TRUE
  Patient = TRUE
  Glue = FALSE
INVARIANT
  ReadableRepliesAreOwn
CHECK_DEADLOCK FALSE

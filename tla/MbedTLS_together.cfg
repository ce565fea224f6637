SPECIFICATION Spec
CONSTANTS
  c1 = c1
  c2 = c2
  Conns = {c1, c2}
  NoConn = NoConn
  Requests = 2
  Records = 2
  Concurrent = TRUE
  Patient = FALSE
  Glue = TRUE
INVARIANT
  NothingTwice
SYMMETRY ConnSymmetry
CHECK_DEADLOCK FALSE

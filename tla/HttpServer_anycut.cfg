SPECIFICATION Spec
CONSTANTS
  c1 = c1
  c2 = c2
  p1 = p1
  p2 = p2
  Conns = {c1, c2}
  Ports = {p1, p2}
  PortOf <- OwnPorts
  Script <- PostGetLarge
  Ids <- MCIds
  Stream <- MCStream
  Ends <- MCEnds
  CutAfter <- Kinds
  Pipelined = TRUE
  MayClose = TRUE
  Routed <- MCRouted
INVARIANTS
  NothingLostOrMixed
  AnsweredOnce
  NoCompleteRequestWaits
  ThrowsOnlyOnBadLength
CHECK_DEADLOCK FALSE

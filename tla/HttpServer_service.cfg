SPECIFICATION FairSpec
CONSTANTS
  c1 = c1
  c2 = c2
  p1 = p1
  p2 = p2
  Conns = {c1, c2}
  Ports = {p1, p2}
  PortOf <- OwnPorts
  Script <- Mixed
  Ids <- MCIds
  Stream <- MCStream
  Ends <- MCEnds
  CutAfter <- BodyCuts
  Pipelined = FALSE
  MayClose = TRUE
  Routed <- MCRouted
INVARIANTS
  TypeOK
  WholeRequests
PROPERTIES
  ImplementsService
  EveryRequestAnswered
CHECK_DEADLOCK FALSE

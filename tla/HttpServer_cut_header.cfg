SPECIFICATION Spec
CONSTANTS
  c1 = c1
  c2 = c2
  p1 = p1
  p2 = p2
  Conns = {c1, c2}
  Ports = {p1, p2}
  PortOf <- OwnPorts
  Script <- PostGet
  Ids <- MCIds
  Stream <- MCStream
  Ends <- MCEnds
  CutAfter <- Kinds
  Pipelined = FALSE
  MayClose = FALSE
  Routed <- MCRouted
INVARIANT
  WholeRequests
CHECK_DEADLOCK FALSE

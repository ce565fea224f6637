SPECIFICATION FairSpec
CONSTANTS
  r1 = r1
  r2 = r2
  h1 = h1
  Requests = {r1, r2}
  Hosts = {h1}
  Dest <- MCDest
  NoSocket = NoSocket
  ResponseLen = 3
  Stream <- MCStream
  CutAfter <- HeaderCuts
  Routed <- MCRouted
INVARIANT
  ClosedMeansDone
PROPERTIES
  AtMostOnce
  WaitsForHandlerOrLostReply
  SessionsDrain
CHECK_DEADLOCK FALSE

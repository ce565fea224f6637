SPECIFICATION Spec
CONSTANTS
  r1 = r1
  r2 = r2
  r3 = r3
  h1 = h1
  h2 = h2
  Requests = {r1, r2, r3}
  Hosts = {h1, h2}
  Dest <- MCDest
  NoSocket = NoSocket
  ResponseLen = 5
INVARIANT
  IdleIsReusable
CHECK_DEADLOCK FALSE

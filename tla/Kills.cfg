SPECIFICATION FairSpec
CONSTANTS
  a = a
  b = b
  c = c
  x = x
  y = y
  NoHost = NoHost
  Runs = {a, b, c}
  Hosts = {x, y}
  HostOf <- MixedHost
  Kind <- MixedKind
  Limits = {1}
  MaxQueueDepth = 1
  Requests = {"kill", "decide", "pause"}
  DbFaults = FALSE
PROPERTIES
  CancelEnds
  KillDecisionEnds
CHECK_DEADLOCK FALSE

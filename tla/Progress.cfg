SPECIFICATION FairSpec
CONSTANTS
  a = a
  b = b
  c = c
  x = x
  y = y
  NoHost = NoHost
  Runs = {a, b, c}
  Hosts = {x, y}
  HostOf <- PairHost
  Kind <- PairKind
  Limits = {1, 3}
  MaxQueueDepth = 2
  Requests = {"decide", "limit", "restart"}
  DbFaults = FALSE
INVARIANTS
  HostExclusive
  EndIsRecorded
PROPERTIES
  NoOvertaking
  QueuedAdvances
CHECK_DEADLOCK FALSE

SPECIFICATION Spec
CONSTANTS
  a = a
  b = b
  c = c
  x = x
  y = y
  NoHost = NoHost
  Runs = {a, b, c}
  Hosts = {x, y}
  HostOf <- PairHost
  Kind <- PairKind
  Limits = {1}
  MaxQueueDepth = 2
  Requests = {"kill"}
  DbFaults = FALSE
INVARIANT NoDanglingSlot
CHECK_DEADLOCK FALSE

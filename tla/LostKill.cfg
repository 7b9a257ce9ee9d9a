SPECIFICATION Spec
CONSTANTS
  a = a
  b = b
  c = c
  x = x
  y = y
  NoHost = NoHost
  Runs = {a, b, c}
  Hosts = {x, y}
  HostOf <- PairHost
  Kind <- PairKind
  Limits = {1}
  MaxQueueDepth = 2
  Requests = {"decide"}
  DbFaults = FALSE
INVARIANT AwaitingKillIsDelivered
CHECK_DEADLOCK FALSE

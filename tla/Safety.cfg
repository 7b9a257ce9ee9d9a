SPECIFICATION Spec
CONSTANTS
  a = a
  b = b
  c = c
  x = x
  y = y
  NoHost = NoHost
  Runs = {a, b, c}
  Hosts = {x, y}
  HostOf <- PairHost
  Kind <- PairKind
  Limits = {1, 2}
  MaxQueueDepth = 2
  Requests = {"kill", "decide", "pause", "restart"}
  DbFaults = TRUE
INVARIANTS
  TypeOK
  SlotsCharged
  HeavyWorkHoldsSlot
  StreamIsKillable
PROPERTIES
  PauseStopsAdmission
  KilledIsFinal
  ImplementsSlotPool
SYMMETRY Interchangeable
CHECK_DEADLOCK FALSE

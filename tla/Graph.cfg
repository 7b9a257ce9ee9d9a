SPECIFICATION Spec
CONSTANTS
  n1 = n1
  n2 = n2
  n3 = n3
  e1 = e1
  e2 = e2
  a = a
  b = b
  c1 = c1
  c2 = c2
  u1 = u1
  u2 = u2
  Nodes <- MCNodes
  Edges <- MCEdges
  Ends <- MCEnds
  Start <- MCStart
  Sessions <- MCSessions
  Labels = {a, b}
  Clients = {c1, c2}
  Users = {u1, u2}
  NoRow = NoRow
  NoCommand = NoCommand
  UndoCap = 1
  MaxRequests = 3
  MaxRestarts = 1
INVARIANTS AwaitedIsServed MirrorsRows CascadeHolds NoOrphanEntry
PROPERTIES ImplementsGraphStore AppliedOnce

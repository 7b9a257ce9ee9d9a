SPECIFICATION FairSpec
CONSTANTS
  t = t
  u = u
  safe = safe
  scan = scan
  wide = wide
  Turns = {t, u}
  Commands = {safe, scan, wide}
  TurnOf <- SmallTurnOf
  Reasons <- SmallReasons
  ReasonsOf <- SmallReasonsOf
  Delegable <- SmallDelegable
  Sockets = {s1, s2}
  Deciders = {d1, d2}
  None = None
INVARIANTS
  TypeOK
  OneAiCall
  RunsAuthorised
  OnlyDelegated
  DecisionsBind
PROPERTIES
  DecidedForGood
  SessionsEnd

SPECIFICATION Spec
CONSTANTS
  Writers = {w1, w2}
  NoWriter = NoWriter
  NoHead = NoHead
  Acts <- MCActs
  PageLimit = 1
  MaxTampers = 2
  FindingIds = {f1}
  Texts = {t1, t2}
  States = {s1, s2}
  NoFinding = NoFinding
  MaxRequests = 3
CHECK_DEADLOCK FALSE
INVARIANTS ChainIntact VerdictTrue PagesComplete
PROPERTIES NoColumnReverted

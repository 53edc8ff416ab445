CONSTANTS
  Page = {p1, p2}
  Proc = {w1, w2}
  Request = {w2}
  NoProc = none
  NoPage = nowhere
  MaxRun = 2
  MaxTrouble = 2
  LastDay = 2
SPECIFICATION FairSpec
INVARIANTS
  KeepsListed
  IndexFinal
  LogKeepsLines
PROPERTIES
  LockComesRound
CHECK_DEADLOCK FALSE

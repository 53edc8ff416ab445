SPECIFICATION Spec
CONSTANTS
  p1 = p1
  p2 = p2
  old = old
  new = new
  Page = {p1, p2}
  NoPage = none
  Body <- MCBody
  Links <- MCLinks
  Draft <- MCDraft
  Size = {0, 2}
  MaxRun = 1
  MaxOutside = 1
  MaxFault = 1
  MaxEvents = 2
INVARIANTS
  StrictMeansConforming
  ReportsComplete
  RepairsAsReported
CHECK_DEADLOCK FALSE

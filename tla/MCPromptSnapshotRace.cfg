CONSTANTS
  Committer = {c1, c2}
  Reader = {r}
  WikiPage = {p1, p2}
  MaxRun = 3
  MaxFail = 1
SYMMETRY Symmetry
SPECIFICATION Spec
INVARIANTS
  Findable
  WholeOrInWriting
CHECK_DEADLOCK FALSE

CONSTANTS
  Candidate = {p}
  Skill = {}
  Lesson = {l1, l2}
  User = {u1, u2}
  MaxCommand = 2
  MaxCrash = 1
SPECIFICATION FairSpec
INVARIANTS
  AcceptedHasEffects
  QueuedOnce
PROPERTIES
  NotReopened
  EvidenceArrives

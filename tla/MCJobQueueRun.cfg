CONSTANTS
  Job = {1, 2}
  Bad = {2}
  LegacyJob = {1, 2}
  MaxPublish = 2
  MaxCrash = 2
  MaxFail = 1
  LastDay = 2
SPECIFICATION FairSpec
INVARIANTS
  CompletedMeansDone
  LearnedOncePerDay
PROPERTIES
  EnqueuedOnce
  JobKept
  Settles

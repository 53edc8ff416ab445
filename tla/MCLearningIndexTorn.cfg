CONSTANTS
  Lesson <- MCLessons
  Workflow <- MCWorkflows
  Job = {1, 2, 3}
  Seen <- MCSeen
  Suffix <- MCSuffix
  Loggable <- MCLoggable
  RecurrencePercent = 60
  MinSessions = 1
  MinProjects = 2
  MinCorrections = 2
  MaxPass = 3
  MaxTrouble = 1
  MaxDecision = 1
  LastDay = 2
SPECIFICATION Spec
INVARIANTS
  TornLineSkipped
CHECK_DEADLOCK FALSE

CONSTANTS
  Id = {1, 2}
  Text <- MCText
  Body <- MCBody
  Tagged = {"t2"}
  Query = {"all", "some"}
  Blank = {"all"}
  Hits <- MCHits
  KbDir = {"other"}
  Server <- MCServer
  Asked <- MCAsked
  Limit = 2
  MaxCandidates = 3
  Offered <- MCOffered
  MaxWrite = 3
  MaxBreak = 1
SPECIFICATION RecallSpec
INVARIANTS
  RecalledAfterWrite
  OneCopy
  DoctorAgrees
CHECK_DEADLOCK FALSE

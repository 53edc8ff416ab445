CONSTANTS
  Page = {p1, p2}
  File = {f1}
  WikiRoom = 1
  NoteRoom = 1
  DocRoom = 1
  MaxEvent = 3
  MaxDrop = 1
SPECIFICATION FairBridgeSpec
INVARIANTS
  ReadyServesDisk
PROPERTIES
  CatchesUp
  InboxDelivers
CHECK_DEADLOCK FALSE

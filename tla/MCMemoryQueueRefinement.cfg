CONSTANTS
  Op = {1, 2}
  JobOp = {1}
  Legacy = {1}
  Unreadable = {2}
  UnreadableDirs = {"pending", "submitting", "accepted", "stalled"}
  Acceptor = {}
  MaxEnqueue = 2
  MaxCrash = 2
  MaxCommand = 2
SPECIFICATION Spec
INVARIANTS
  LedgerAgreement
  ReceiptMatchesDirectory
  CountedOnce
  RenamesReplaceNothing
  ReceiptStopsSubmission
PROPERTIES
  DeliveredMoved
  ImplementsContract

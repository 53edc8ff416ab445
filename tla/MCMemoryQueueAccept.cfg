CONSTANTS
  Op = {1}
  JobOp = {}
  Legacy = {}
  Unreadable = {}
  UnreadableDirs = {}
  Acceptor = {a1, a2}
  MaxEnqueue = 2
  MaxCrash = 1
  MaxCommand = 1
SPECIFICATION FairSpec
PROPERTIES
  KeepsEveryOperation
  Delivers

CONSTANTS
  Id = {a,b}
  Doc = {d1,d2}
  Task = {t1,t2}
  NoId = NoId
  NoDoc = NoDoc
  MaxIngest = 2
  MaxOutside = 2
  MaxEvents = 4
  MaxFault = 1
SYMMETRY Symmetry
SPECIFICATION Spec
INVARIANTS
  HashIndexSound
  OneEntryPerContent
  ServesDisk
CHECK_DEADLOCK FALSE

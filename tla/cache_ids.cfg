SPECIFICATION Spec
CONSTANTS
  MaxIds = 3
  MaxLocks = 2
  MaxSize = 1
  Cells = {0, 1}
  UseCache = TRUE
INVARIANTS
  LockedResident
  ChainOK
  IInv
PROPERTIES
  GrowsOnlyWhenNeeded
  IsMemory

SPECIFICATION Spec
CONSTANTS
  Blobs = 2
  BlobEntries = 2
  MaxLog = 3
  MaxSize = 2
  Cells = {0, 1}
  MayFail = TRUE
INVARIANTS
  IInv
  Layout
  ClosedOnce
PROPERTY
  IsStore
CHECK_DEADLOCK FALSE

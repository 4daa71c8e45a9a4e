SPECIFICATION Spec
CONSTANTS
  MaxIds = 2
  MaxLocks = 3
  MaxSize = 1
  Cells = {zero, one}
SYMMETRY CellSymmetry
INVARIANTS
  IInv
  LocksAgree
  LeaksFound
PROPERTY
  IsMemory
\* The program may stop when mem_Close misuses free.
CHECK_DEADLOCK FALSE

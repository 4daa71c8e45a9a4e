SPECIFICATION Spec
CONSTANTS
  Ids = {one_address, other_address}
  Bytes = 6
  MaxSize = 4
  Cells = {zero, one}
SYMMETRY Symmetry
INVARIANT
  IInv
PROPERTY
  MemoryWhileSmall
\* The program may crash.
CHECK_DEADLOCK FALSE

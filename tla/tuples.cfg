SPECIFICATION Spec
CONSTANTS
  a = a
  none = none
  p1 = p1
  p2 = p2
  t1 = t1
  t2 = t2
  Object = {a, none}
  Pair = {p1, p2}
  Null = null
  None = none
  Iterator = {t1, t2}
  Names <- TwoNames
  Subscript <- IndexBound
  MaxLen = 3
INVARIANTS
  CountsExact
  LoneLoop
  NamesKept
PROPERTIES
  LoopsWhole
  IsDict
SYMMETRY PairSymmetry
\* The program may stop when an index reaches out of memory.
CHECK_DEADLOCK FALSE

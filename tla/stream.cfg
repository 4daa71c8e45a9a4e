SPECIFICATION Spec
CONSTANTS
  Base = 16
  LongSize = 2
  FloatSize = 2
  Wide = FALSE
  Depth = 5
  Objects <- SomeObjects
  Files <- SomeFiles
INVARIANTS
  Within
  ReadsFormat
  Restores
PROPERTY
  Ends
CHECK_DEADLOCK FALSE

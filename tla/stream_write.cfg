SPECIFICATION Spec
CONSTANTS
  Base = 16
  LongSize = 2
  FloatSize = 2
  Wide = FALSE
  Depth = 5
  Objects <- SomePrograms
  Files <- SomeFiles
INVARIANT
  RoundTrip
CHECK_DEADLOCK FALSE

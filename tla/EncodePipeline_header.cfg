SPECIFICATION Spec
CONSTANTS
  Frames = 5
  Ring = 3
  MaxFlushes = 0
  MaxErrors = 0
  Sessions = 2
CHECK_DEADLOCK FALSE
INVARIANT HeaderAlways

SPECIFICATION Spec
CONSTANTS
  Frames = 5
  Delay = 1
  Ring = 4
  MaxFlushes = 0
  MaxErrors = 1
CHECK_DEADLOCK FALSE
INVARIANT WaitsForDecode

SPECIFICATION Spec
CONSTANTS
  Devices = {"speaker"}
  UseAec = TRUE
  MaxCalls = 4
  MaxFailures = 1
CHECK_DEADLOCK FALSE
INVARIANT LockOrder

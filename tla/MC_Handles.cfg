SPECIFICATION MCSpec
CONSTANTS
  c1 = c1
  c2 = c2
  c3 = c3
  Components <- Three
  Priority <- Ranked
  MaxPriority = 3
  MAX_RESOURCE_VIDEO = 1
  InitResults = {"ok"}
  Dests <- LoadAndPlay
  MaxStates = 5
  Clients = {"x", "y"}
  Handles = {"a", "b"}
  Kinds = {"h264dec", "mpeg4enc"}
  FailingSteps = {"library", "inputPort", "name"}
  MaxFailures = 1
  MaxCommands = 1
  MaxGets = 3
CHECK_DEADLOCK FALSE
INVARIANTS RolledBack HandlesAccountedFor HandlerHasMemory
PROPERTY CallsEnd

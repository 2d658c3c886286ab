SPECIFICATION Spec
CONSTANTS
  c1 = c1
  c2 = c2
  c3 = c3
  Components <- Three
  Priority <- Distinct
  MaxPriority = 3
  MAX_RESOURCE_VIDEO = 2
  InitResults = {"ok", "noCodec", "codecLeft"}
  Dests <- States
  MaxCommands = 4
INVARIANTS ListBounded WaiterNotForgotten
PROPERTIES RefinesPool PreemptsLeastImportant
CHECK_DEADLOCK FALSE

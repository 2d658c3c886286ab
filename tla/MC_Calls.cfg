SPECIFICATION MCSpec
CONSTANTS
  Data = {b1, b2}
  NoData = NoData
  MAX_QUEUE_ELEMENTS = 10
  SettableCounts <- FlushCounts
  Clients <- MCClients
  Frames = {1, 2}
  Counts = {5}
  Colors = {"opaque"}
  MaxAge = 1
  Components = {c1, c2, c3}
  MAX_RESOURCE_VIDEO = 2
  InitResults = {"ok", "noCodec", "codecLeft"}
  Dests = {"Loaded", "Idle", "Executing"}
  MaxCommands = 5
CHECK_DEADLOCK FALSE
INVARIANTS
  RingInv ParametersAgree CodecsAccountedFor
PROPERTIES RefinesFifo RefusedChangesNothing

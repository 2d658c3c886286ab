SPECIFICATION FairSpec
CONSTANTS
  i1 = i1
  i2 = i2
  o1 = o1
  o2 = o2
  none = none
  NoBuffer <- none
  InBuffers <- OneIn
  OutBuffers <- OneOut
  QueueCapacity = 4
  BpStart = "signalWait"
  Commands <- PlayFlush
  MaxCommands = 3
  MaxPending = 1
  Discipline = "serial"
  FrameCounts = {1}
  DecodeResults = {"done"}
  MaxPieces = 1
  Fragments = FALSE
PROPERTIES CommandsComplete
CHECK_DEADLOCK FALSE

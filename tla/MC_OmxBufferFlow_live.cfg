SPECIFICATION FairSpec
CONSTANTS
  i1 = i1
  i2 = i2
  o1 = o1
  o2 = o2
  none = none
  NoBuffer <- none
  InBuffers <- OneIn
  OutBuffers <- OneOut
  QueueCapacity = 4
  BpStart = "outer"
  Commands <- Everything
  MaxCommands = 3
  MaxPending = 1
  Discipline = "quiet"
  FrameCounts = {0,1,2}
  DecodeResults = {"done","yet","error"}
  MaxPieces = 2
  Fragments = FALSE
INVARIANTS TypeOK SlotExclusion
PROPERTIES CommandsCompleteUnlessHung InputReturned
CHECK_DEADLOCK FALSE

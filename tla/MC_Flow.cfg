SPECIFICATION MCSpec
CONSTANTS
  i1 = i1
  i2 = i2
  o1 = o1
  o2 = o2
  NoBuffer = NoBuffer
  InBuffers <- In1
  OutBuffers <- Out1
  QueueCapacity = 4
  BpStart = "outer"
  Commands <- Everything
  MaxCommands = 4
  MaxPending = 1
  Discipline = "quiet"
  FrameCounts <- Frames
  DecodeResults = {"done", "yet", "error"}
  MaxPieces = 2
  Fragments = TRUE
  FlushCommands = 3
SYMMETRY BufferSymmetry
CHECK_DEADLOCK FALSE
INVARIANTS
  OneHolder CountMatches FlushReturnsAll NoPortLeftMarked FlushingSound

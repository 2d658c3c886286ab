SPECIFICATION MCSpec
CONSTANTS
  Frames = 5
  Delay = 1
  Ring = 4
  MaxFlushes = 1
  MaxErrors = 0
  EncodeErrors = 1
  Sessions = 2
  MaxBuffers = 4
  Streams <- MCStreams
CHECK_DEADLOCK FALSE
INVARIANTS CodecsLeftAlone StampOfItsFrame DecodedInOrder StreamsInOrder FramesCutRight
PROPERTY WaitsEnd

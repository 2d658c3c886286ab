SPECIFICATION MCSpec
CONSTANTS
  Sinks <- MCSinks
  OutputSinks <- MCOutputSinks
  Resolutions <- MCResolutions
  Pictures = {"ui", "video", "tiled"}
  MaxPlugs = 2
  MaxFailures = 1
  None = None
  MaxChanges = 3
  Sources <- MCSources
  Targets <- MCTargets
  Rotations = {0, 90}
  Addresses = {"a1"}
  Keys = {"k1"}
  Version = "4.3"
  Handles = {1, 2}
  PmemSize = 0
  Places = {"screen", "left"}
  Lists <- MCLists
  NoHandle = NoHandle
  NoList = NoList
  Period = 3
  Requests = {1, 4}
  Block = 2
  MaxFrames = 12
CHECK_DEADLOCK FALSE
INVARIANTS
  PlaysForThisSink WritesElsewhere SpeaksForItself ConvertsAsAsked
  ShowsItsFrames FramesArrive

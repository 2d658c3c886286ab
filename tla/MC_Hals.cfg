SPECIFICATION MCSpec
CONSTANTS
  Uses <- MCUses
  Values = {"v1", "v2"}
  Sizes = {"vga", "d1"}
  FrontCamera = FALSE
  MaxFailures = 1
  Windows = {"w1", "w2"}
  WindowFails = TRUE
  ChangeRunning = FALSE
  EarlyRelease = FALSE
  Devices = {"speaker"}
  UseAec = TRUE
  MaxCalls = 4
CHECK_DEADLOCK FALSE
INVARIANTS SettingsAgree ThreadsHandOver BufferGoesHome PcmsHaveUsers SoundFollowsMode
PROPERTY HalCallsReturn

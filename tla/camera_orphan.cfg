CONSTANTS
  Dispatches = {d1}
  NoOne = NoOne
  MaxSessions = 2
  MaxFrames = 0
  MaxLoops = 0
  MaxIntents = 2
SPECIFICATION CameraFairSpec
PROPERTY CapAlwaysCloses
CHECK_DEADLOCK FALSE

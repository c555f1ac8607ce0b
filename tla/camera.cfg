\* Two cameras, three requests of one turn after another, no hand tracking.
CONSTANTS
  Dispatches = {d1}
  NoOne = NoOne
  MaxSessions = 2
  MaxFrames = 2
  MaxLoops = 0
  MaxIntents = 3
SPECIFICATION CameraFairSpec
INVARIANTS
  FreshUnlessCrossed
  RecordedFramesGo
PROPERTIES
  TimeoutIsAnnounced
  CapCloses
CHECK_DEADLOCK FALSE

\* One camera and one hand-tracking loop; two turns that may overlap.
CONSTANTS
  Dispatches = {d1, d2}
  NoOne = NoOne
  MaxSessions = 1
  MaxFrames = 1
  MaxLoops = 1
  MaxIntents = 2
SPECIFICATION CameraFairSpec
INVARIANTS
  NoneLeftWaiting
PROPERTIES
  ThreadsComeBack
CHECK_DEADLOCK FALSE

\* Two requests, one capability of each treatment: an executor that waits, an
\* immediate one, none, green with an executor and green without.
CONSTANTS
  Requests = {r1, r2}
  Capabilities = {"SHELL_EXEC", "MEMORY_WRITE", "WEBHOOK", "APP_CONTROL", "CAMERA"}
  Lifetime = 1
  MaxClock = 2
  MaxRestarts = 1
SPECIFICATION GateFairSpec
INVARIANTS
  GateIInv
  AuditBehindRow
  EffectIsAudited
  CallerToldTruth
  RememberedImageKept
PROPERTIES
  SpentStaysSpent
  ImplementsContract
  CallerAnswered
  ImageReclaimed
CHECK_DEADLOCK FALSE

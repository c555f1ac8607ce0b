CONSTANTS
  Requests = {r1, r2}
  Capabilities = {"SHELL_EXEC", "MEMORY_WRITE"}
  Lifetime = 1
  MaxClock = 3
  MaxRestarts = 0
SPECIFICATION GateSpec
INVARIANT ExpiredNeverRuns
CHECK_DEADLOCK FALSE

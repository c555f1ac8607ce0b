CONSTANTS
  Spoken = {s1}
  Injected = {i2}
  Cancels = {i2}
  NoTurn = NoTurn
  MaxAsks = 1
  maxUtterances = 6
SPECIFICATION TurnsSpec
INVARIANT EarsListensWhileAsking
CHECK_DEADLOCK FALSE

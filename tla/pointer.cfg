\* Three presses and clicks; pointer control turned on and off twice, and stopped.
CONSTANTS
  MaxPresses = 3
  MaxMessages = 5
  MaxClicks = 3
SPECIFICATION PointerSpec
INVARIANTS
  OneClickUnlessExcused
  NoListenerLeft
CHECK_DEADLOCK FALSE

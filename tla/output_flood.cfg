SPECIFICATION FairSpec
CONSTANTS
  Mod = 7
  PipeCap = 3
  Chunk = 2
  MaxHeld = 1
  RingCap = 4
  Newlines = {2, 6}
CHECK_DEADLOCK FALSE

PROPERTY TimerServed

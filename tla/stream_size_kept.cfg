SPECIFICATION Spec
CONSTANTS
  Frames <- Mixed
  ReadOffsets = {0}
  MaxFrames = 2
  MaxBlks = 2
  MaxLen = 2
  MaxDst = 3
INVARIANTS
  NoFalseAlarm

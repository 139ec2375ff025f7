SPECIFICATION Spec
CONSTANTS
  Frames <- Any
  ReadOffsets = {0, 7, 15, 23}
  MaxFrames = 3
  MaxBlks = 2
  MaxLen = 2
  MaxDst = 2
INVARIANTS
  NoByteLost
  EndMeansAll
  AlarmsExplained
  DamageReported
  ProgressDrifts
PROPERTIES
  ErrorStays

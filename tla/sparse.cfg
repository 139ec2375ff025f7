SPECIFICATION Spec
CONSTANTS
  Byte = {0, 1}
  blkSz = 5
  unroll = 2
  readSz = 5
  MaxBytes = 8
INVARIANTS
  FileHolds
  ClosedWhole

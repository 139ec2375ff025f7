SPECIFICATION Spec
CONSTANTS
  MaxBlks = 4
  lz4DictSz = 3
  DictSizes = {0, 2, 5}
  Sizes = {1, 2, 4}
  RawLinked = TRUE
INVARIANTS
  WindowHolds
CHECK_DEADLOCK FALSE

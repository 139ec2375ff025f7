SPECIFICATION ReaderProcess
CONSTANTS
  Workers = {w1, w2}
  w1 = w1
  w2 = w2
  NPending = 3
  PoolSlots = 2
  MaxBlks = 3
  lz4DictSz = 3
  DictSizes = {0, 2, 5}
  Sizes = {1, 2, 4}
  RawLinked = FALSE
INVARIANTS
  NothingLost
  NoUseAfterReturn
  BlocksReturned
  WindowHolds
PROPERTIES
  ImplementsPromise
  CallsReturn
CHECK_DEADLOCK FALSE

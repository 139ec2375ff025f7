SPECIFICATION WriterProcess
CONSTANTS
  Workers = {w1, w2}
  w1 = w1
  w2 = w2
  NPending = 2
  PoolSlots = 2
  BlkSz = 2
  MaxBytes = 5
  HashOn = TRUE
  Linked = TRUE
  Faults = {"hdr", "blk", "trl", "read"}
SYMMETRY Tasks
INVARIANTS
  TypeOK
  OutputInOrder
  TrailerMeansComplete
  FlushDurable
  NoSilentLoss
  NoUseAfterReturn
  PoolBalanced
  FrameExact
PROPERTIES
  FirstErrorStays
  ImplementsPromise

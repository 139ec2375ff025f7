SPECIFICATION FairSpec
CONSTANTS
  Workers = {w1, w2}
  w1 = w1
  w2 = w2
  NPending = 2
  PoolSlots = 1
  BlkSz = 2
  MaxBytes = 3
  HashOn = TRUE
  Linked = TRUE
  Faults = {"hdr", "blk", "trl", "cmp", "read"}
PROPERTIES
  CallsReturn

SPECIFICATION Spec
CONSTANTS
  Workers = {w1, w2}
  w1 = w1
  w2 = w2
  NPending = 2
  PoolSlots = 2
  BlkSz = 1
  MaxBytes = 2
  HashOn = FALSE
  Linked = TRUE
  Faults = {"cmp"}
INVARIANTS
  NoPanic

SPECIFICATION Spec
CONSTANTS
  KB64 = 24
  SrcSizes = {0, 1, 22, 36, 60}
  DstSizes = {0, 40, 90}
  DictSizes = {6, 23, 24}
  Prefixes = {5}
  Literals = {0, 14, 15}
  MatchCodes = {0, 9, 15, 25}
  Offsets = {0, 1, 3, 9, 17}
  MaxSequences = 2
INVARIANTS
  NoStrayWrite
  NoStrayRead
  DecodesRight
  RefusesOnlyBad
CHECK_DEADLOCK FALSE

SPECIFICATION Spec
CONSTANTS
  Jobs <- MCJobs
  Pieces <- MCPieces
  DictTexts <- MCDictTexts
  Slots <- MCSlots
  OneShotAt = 1
  DictAt = 95
  SaveAt = 125
  MemEnd = 170
  Buckets = 5
  KB64 = 40
  KB4 = 28
  GB1 = 90
  GB2 = 120
  Levels = {4}
  PatternSearches = 3
  OPTIMAL_ML = 6
  MaxCalls = 2
INVARIANTS
  RoundTrip
  SequencesLegal
  WritesInBounds
  NoStrayRead
PROPERTY EntersOnce
CHECK_DEADLOCK FALSE

SPECIFICATION Spec
CONSTANTS
  Texts <- MCTexts
  DictTexts <- MCDictTexts
  Slots <- MCSlots
  Rooms <- MCRooms
  OneShotAt = 1
  DictAt = 75
  SaveAt = 93
  MemEnd = 108
  Buckets = 5
  KB64 = 16
  KB4 = 20
  GB1 = 40
  GB2 = 60
  SkipUnit = 4
  MaxCalls = 2
INVARIANTS
  RoundTrip
  NoStrayRead
  TableBehind
PROPERTY ImplementsEmit
CHECK_DEADLOCK FALSE

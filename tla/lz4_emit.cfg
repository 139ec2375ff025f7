SPECIFICATION Spec
CONSTANTS
  Sizes = {13, 34, 290}
  Capacities = {1, 18, 30, 50, 280, 307}
  Lengths = {0, 1, 15, 255}
INVARIANTS
  WritesInBounds
  SourceCovered
CHECK_DEADLOCK FALSE

SPECIFICATION MCSpec
CONSTANTS
  Node = {n1, n2, n3, n4}
  Limit = 4
  HighestBefore = 2
CHECK_DEADLOCK FALSE
INVARIANTS
  HeightsAreLeast
  CycleNoticed
PROPERTIES
  EntersOnce
  AdjustReturns

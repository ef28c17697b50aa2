SPECIFICATION RoomySpec
CONSTANTS
  Node = {n1, n2}
  NoNode = NoNode
  MaxHeight = 2
  Heights <- MCHeights
  NewMaxHeights <- MCNewMaxHeights
  DebugAssertions = FALSE
INVARIANTS
  LowerBound
  QueuesAgree
PROPERTIES
  ImplementsQueue
CHECK_DEADLOCK FALSE

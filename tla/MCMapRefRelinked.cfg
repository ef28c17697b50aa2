SPECIFICATION Spec
CONSTANTS
  Node <- MCNode
  Value <- MCValue
  NoValue = NoValue
  Kind <- MCKind
  Children <- MCChildren
  Height <- MCHeight
  Compute <- MCCompute
  ShouldCutoff <- MCShouldCutoff
  Observer <- MCObserver
  Observing <- KeptByObserver
  MaxStabilisations = 4
INVARIANTS
  GlitchFreeMapRef

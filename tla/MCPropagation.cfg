SPECIFICATION FairSpec
CONSTANTS
  Node <- MCNode
  Value <- MCValue
  NoValue = NoValue
  Kind <- MCKind
  Children <- MCChildren
  Height <- MCHeight
  Compute <- MCCompute
  ShouldCutoff <- MCShouldCutoff
  Observer <- MCObserver
  Observing <- MCObserving
  MaxStabilisations = 2
INVARIANTS
  ScheduledExactly
  BelowSettled
  RunsOnce
  InputsReady
  GlitchFree
  StableMeansCurrent
PROPERTIES
  StabiliseReturns
  ImplementsAPI

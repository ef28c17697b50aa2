SPECIFICATION Spec
CONSTANTS
  TopNode <- MCTopNode
  Fresh <- MCFresh
  TopKind <- MCTopKind
  TopChildren <- MCTopChildren
  TopCode <- MCTopCode
  Program <- MCProgram
  Observable <- MCObservable
  NoValue = NoValue
  NoNode = NoNode
  MaxStabilisations = 3
INVARIANT ScopeStabilised

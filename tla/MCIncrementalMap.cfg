CONSTANTS
  Key = {1, 2}
  Value = {1, 2}
  None = None
  NoValue = NoValue
  FilterMap <- SomeDropped
  GoesLeft <- FirstLeft
  Combine <- Different
  Mapped <- UnlessOuter
  Aside <- AsKeyOrNone
  Answers <- AnyAnswer
  KeepsMapped = {1}
SPECIFICATION Spec
INVARIANTS
  DiffsAreExact
  OutputIsOperator
  ResultIsMapped
  NodesMatchMap
PROPERTY OnlyChangedKeysVisited

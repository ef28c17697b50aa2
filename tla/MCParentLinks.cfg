SPECIFICATION Spec
CONSTANTS
  expert = expert
  twice = twice
  main = main
  lhsChange = lhsChange
  leaf = leaf
  Node = {expert, twice, main, lhsChange, leaf}
  Edge <- MCEdge
  Owner <- MCOwner
  Child <- MCChild
  InitChildren <- MCInitChildren
  ExpertNode = {expert}
  BindMain = {main}
  CanInvalidate = {twice}
  MaxChildren = 3
  NoNode = NoNode
CHECK_DEADLOCK FALSE
INVARIANTS
  LinksAgree
  EdgeIndicesAgree
  LinkedWhenNecessary

SPECIFICATION Spec
CONSTANTS
  n1 = n1
  o1 = o1
  o2 = o2
  Node = {n1}
  Observer = {o1, o2}
  Observing <- MCObserving
  Handler = {h1, h2}
  Nobody = Nobody
  MaxStabilisations = 3
  MaxCount = 3
SYMMETRY Symmetry
INVARIANTS
  SubscribersAreTold
  NodeHandlersStayInformed
  NoHandlerPanics
  CountCoversHandlers
PROPERTIES
  SilentOnceDropped

SPECIFICATION VarsSpec
CONSTANT NumVars = 3
CHECK_DEADLOCK FALSE
INVARIANTS
  SetMeetsWatch
  NoneForgotten
PROPERTY FreedByStabilise

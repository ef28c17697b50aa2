CONSTANTS
  c1 = c1
  c2 = c2
  Child <- Children
  Driver = driver
  MaxStab = 3
  MaxInvalid = 2
SYMMETRY Symmetry
SPECIFICATION Spec
INVARIANTS
  PendingWhenStale
  InvalidIsCounted
  ToldOrWillBe
PROPERTY ComputesOnValues

CONSTANTS
  Calls = {k1, k2}
  Overlap = TRUE
  MaxWire = 2
  None = none
SPECIFICATION Spec
INVARIANT ClosureAtMostOnce

CONSTANTS
  Calls = {k1, k2}
  Overlap = FALSE
  MaxWire = 3
  None = none
SPECIFICATION FairSpec
INVARIANTS
  TypeOK
  ClosureAtMostOnce
  ClosureToldTruth
  NoUseAfterReset
PROPERTIES
  ImplementsContract
  EveryCallSettles

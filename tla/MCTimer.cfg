CONSTANTS
  e1 = e1
  e2 = e2
  Loop = loop
  Others = {t1}
  TimerEvents <- TwoEvents
  Interval <- MCInterval
  Repeats = {e2}
  Grace = 2
  Deleters = {loop}
  None = none
SPECIFICATION FairSpec
INVARIANTS
  TypeOK
  NoEventForgotten
  ArmedForEarliestOfCopy
  OneShotRunsOnce
  CancelIsFinal
PROPERTY EveryEventRuns

CONSTANTS
  Links <- TightAndRoomy
  MayClose = TRUE
SPECIFICATION FairSpec
CHECK_DEADLOCK FALSE
INVARIANTS
  TypeOK
  NoReplyDropped
  FirstExecutedInOrder
PROPERTIES
  ClosedIsQuiet
  EveryMessageAnswered

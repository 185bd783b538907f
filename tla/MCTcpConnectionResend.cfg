CONSTANTS
  Links <- Six
  MayClose = FALSE
SPECIFICATION Spec
CHECK_DEADLOCK FALSE
INVARIANTS
  RequestExecutedOnce

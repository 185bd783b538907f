CONSTANTS
  Callers = {c1}
  Fds = {f1}
  WakeFd = wfd
  MaxEvents = 1
  MaxPosts = 2
SPECIFICATION FairSpec
PROPERTIES
  EveryPostedTaskRuns
  StopEndsLoop

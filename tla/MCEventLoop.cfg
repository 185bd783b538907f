CONSTANTS
  Callers = {c1, c2}
  Fds = {f1}
  WakeFd = wfd
  MaxEvents = 2
  MaxPosts = 3
SYMMETRY CallerSymmetry
SPECIFICATION Spec
INVARIANTS
  TypeOK
  BacklogInOrder
  HandlerQueuedOnce
  ListenFdsMatchEpoll
  IdleWakeupNotLost
PROPERTY ImplementsExecutor

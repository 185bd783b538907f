CONSTANTS
  Callers = {c1, c2}
  Fds = {f1}
  WakeFd = wfd
  MaxEvents = 2
  MaxPosts = 2
SYMMETRY CallerSymmetry
SPECIFICATION Spec
INVARIANT PostedTaskWakesLoop

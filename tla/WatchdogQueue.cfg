\* Two requests share a connection; the agent takes a tick for each.
CONSTANTS
  Caller = {c1, c2}
  Timeout = 2
  MaxConn = 2
SPECIFICATION Spec
INVARIANT ExpiredMeansStuck
CHECK_DEADLOCK FALSE

\* Four socket files in all: a start that needs a fifth stops there, hence no deadlock
\* check.  Two directories, two names and two groups: enough for links to links.
CONSTANTS
  p1 = p1
  p2 = p2
  Proc = {p1, p2}
  Sockets <- MCSockets
  MaxInode = 4
  MaxFile = 3
  Foreign = Foreign
  None = None
  Dir = {"d", "e"}
  Base = {"s", "t"}
  Group = {g, h}
  Upstreams <- OnePath
  LinkLimit = 2
  MaxLinks = 2
SPECIFICATION ProxiesOrConfiguration
INVARIANTS
  BoundUnderLock
  ServingReachable
  SocketsDistinct
  NeverOwnUpstream
PROPERTIES
  AloneServes
  WinnerTakesAll
  ForeignKept
CHECK_DEADLOCK FALSE

\* Two directories, two names and two groups: enough for a link to the group's socket.
CONSTANTS
  Dir = {"d", "e"}
  Base = {"s", "t"}
  Group = {g, h}
  Upstreams <- OnePath
  LinkLimit = 2
  MaxLinks = 2
SPECIFICATION ConfigurationSpec
CHECK_DEADLOCK FALSE
INVARIANT SocketNeverUpstream

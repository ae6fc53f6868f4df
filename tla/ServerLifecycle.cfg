\* Two groups and two clients under fairness.  A run of the server ends.
CONSTANTS
  Group = {g1, g2}
  Conn = {c1, c2}
  None = None
SPECIFICATION FairSpec
INVARIANTS
  NothingOutlivesRun
  WaitsForClosedOnly
PROPERTIES
  RunReturns
  EverythingEnds
CHECK_DEADLOCK FALSE

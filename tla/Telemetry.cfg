\* Two clients make a peak; the bound on a counter is one of unreported events, so
\* events go on falling on both sides of every report.
CONSTANTS
  Client = {c1, c2}
  MaxCount = 1
  MaxActivity = 2
  MaxLevel = 1
SPECIFICATION Spec
SYMMETRY Clients
INVARIANTS
  EventsReportedOnce
  PeakCovers
PROPERTIES
  IntervalsAddUp
CHECK_DEADLOCK FALSE

\* Three versions of the file and two SIGHUPs, under fairness.  The process may end.
CONSTANTS
  MaxWrites = 2
  MaxSignals = 2
SPECIFICATION FairSpec
INVARIANTS
  OneRuntime
  IdleOnlyAfterGoodFailed
PROPERTIES
  InvalidReloadKeepsReady
  HangupIsHonoured
  TerminationEnds
CHECK_DEADLOCK FALSE

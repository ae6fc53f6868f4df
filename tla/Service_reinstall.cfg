\* What a user is told to do about a job that is not loaded.
CONSTANTS
  Platforms <- Launchd
  MaxPid = 2
  MaxProgram = 1
  MaxConfig = 1
SPECIFICATION CommandsOrUnit
INVARIANT ReinstallLoads
CHECK_DEADLOCK FALSE

\* Four processes: an installation, a restart, a failure and a reinstallation; paths
\* with every meaningful piece at every place.
CONSTANTS
  Platforms <- Both
  MaxPid = 4
  MaxProgram = 2
  MaxConfig = 2
SPECIFICATION CommandsOrUnit
INVARIANTS
  CommandSurvives
  ConfigFound
PROPERTIES
  InstallRuns
  UninstallLeavesNothing
  RestartReplaces
CHECK_DEADLOCK FALSE

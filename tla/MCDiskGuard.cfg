SPECIFICATION FairSpec
CONSTANTS
  disk_check_interval = 2
  poll_interval_s = 1
  timeout_s = 2
  MaxDelay = 2
INVARIANTS
  GuardIsTimely
PROPERTIES
  LowDiskStopsTheRun
  PauseEnds
  ArchiveFailureIsFinal

SPECIFICATION FairSpec
CONSTANTS
  system_min_cpufreq = 1
  system_max_cpufreq = 3
  Governors = {"schedutil"}
INVARIANTS
  RestoredByGuard
  RestoredByExit
  PinnedWhenSkipped
  TypeOK
PROPERTIES
  EventuallyRestored
CHECK_DEADLOCK FALSE

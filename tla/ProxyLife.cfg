SPECIFICATION Spec
CONSTANTS
  MaxCpus = 4
  MaxLines = 4
  RANGE_MAX = 2
INVARIANTS
  TraceCpuOnline
  RangesExact
PROPERTIES
  ForkserverDeathEnds
  ProxyDeathEnds
CHECK_DEADLOCK FALSE

SPECIFICATION Spec
CONSTANTS
  freq_table_num = 6
  freq_table <- MCFreqTable
  system_max_cpufreq = 60
  MinInterval = 2
  MaxInterval = 3
  InitInterval = 3
  WindowShare = 1
  MaxRepetition = 3
  StalkerEtm = TRUE
  Pids = {1, 2}
  MaxExecs = 8
  LoopFaults = {}
INVARIANTS
  OverflowEndsAtFloor
CHECK_DEADLOCK FALSE

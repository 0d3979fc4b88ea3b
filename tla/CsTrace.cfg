SPECIFICATION Spec
CONSTANTS
  Pids = {p1}
  MaxChunk = 3
  Stalker = FALSE
  DrainAt = 1
  EtrSize = 2
  Faults = {"affinity", "reset", "enable", "disable", "fetch", "decode"}
INVARIANT FileIsTrace
PROPERTY TraceEnds
CHECK_DEADLOCK FALSE

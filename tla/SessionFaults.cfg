SPECIFICATION Spec
CONSTANTS
  Pids = {p1, p2}
  MaxChunk = 2
  Stalker = FALSE
  DrainAt = 0
  EtrSize = 2
  Faults = {"affinity", "reset", "enable", "disable", "fetch", "decode"}
  HiddenRuns = FALSE
INVARIANT TypeOK
PROPERTY MapFrozen
CHECK_DEADLOCK FALSE
SYMMETRY PidSymmetry

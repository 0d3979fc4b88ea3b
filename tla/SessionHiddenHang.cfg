SPECIFICATION HangingSpec
CONSTANTS
  Pids = {p1, p2, p3}
  MaxChunk = 1
  Stalker = TRUE
  DrainAt = 0
  EtrSize = 5
  Faults = {}
  HiddenRuns = TRUE
PROPERTY RequestAnswered
CHECK_DEADLOCK FALSE

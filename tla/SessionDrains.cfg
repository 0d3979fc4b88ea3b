SPECIFICATION HangingSpec
CONSTANTS
  Pids = {p1, p2}
  MaxChunk = 3
  Stalker = FALSE
  DrainAt = 0
  EtrSize = 2
  Faults = {}
  HiddenRuns = FALSE
INVARIANTS OwnTraceOnly CollectedWhenReported NobodyStuck
PROPERTY RequestAnswered

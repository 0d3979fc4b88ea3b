SPECIFICATION Spec
CONSTANTS
  Pids = {p1, p2}
  MaxChunk = 3
  Stalker = FALSE
  DrainAt = 0
  EtrSize = 5
  Faults = {"decode"}
  HiddenRuns = FALSE
INVARIANT CollectedWhenReported

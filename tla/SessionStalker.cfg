SPECIFICATION TerminatingSpec
CONSTANTS
  Pids = {p1, p2, p3}
  MaxChunk = 3
  Stalker = TRUE
  DrainAt = 0
  EtrSize = 2
  Faults = {"decode"}
  HiddenRuns = TRUE
INVARIANTS OwnTraceOnly CompleteMap TracedWhileRunning DecoderInStep
PROPERTIES RequestAnswered ImplementsContract

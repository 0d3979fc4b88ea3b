SPECIFICATION Spec
CONSTANTS
  Keys = {0, 1, 2}
  PathsOf <- MCPathsOf
  Maps <- MCMaps
  Truncated <- MCTruncated
  Up <- MCUp
  Down <- MCDown
  Classified <- MCClassified
  Edges <- MCEdges
  Partial <- MCPartial
  CACHE_SLOTS = 2
  INPUT_SLOTS = 1
  Level1 = 2
  Level2 = 3
  Level3 = 4
  Level4 = 5
  Warmup = 1
  MaxExecs = 4
INVARIANTS
  NothingNewOnDiscard
  ShadowInStep
  CacheExact
  RerunNotEmpty
  PurgeIntervalBounded
  TypeOK
CHECK_DEADLOCK FALSE

SPECIFICATION FairSpec
CONSTANTS
  Requests = {r1, r2}
  Silent = {}
  Callers = {}
  Prefetches = {}
  k1 = k1
  k2 = k2
  Tiles = {k1, k2}
  Batches <- TwoTileBatches
  Parallelism = 2
  PrefetchParallelism = 1
  Faults = {"Exception"}
INVARIANTS TypeOK QueuedTileHasJob ServedOnce AnsweredIsSettled
PROPERTIES ServesRequests QueuedTileAnswered
CHECK_DEADLOCK FALSE

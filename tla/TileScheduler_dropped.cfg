SPECIFICATION Spec
CONSTANTS
  Requests = {r1, r2}
  Silent = {}
  Callers = {}
  Prefetches = {}
  k1 = k1
  k2 = k2
  Tiles = {k1, k2}
  Batches <- TwoTileBatches
  Parallelism = 1
  PrefetchParallelism = 1
  Faults = {}
INVARIANT EveryTileScheduled
CHECK_DEADLOCK FALSE

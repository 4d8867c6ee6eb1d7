SPECIFICATION PSpec
CONSTANTS
  a = a
  b = b
  Requests = {r1, r2, r3, r4, r5}
  Silent = {}
  Callers = {}
  Prefetches = {}
  Cells = {a, b}
  LastImage = 2
  Tiles <- Keys
  Batches <- AnyOrder
  Parallelism = 1
  PrefetchParallelism = 1
  Faults = {"Exception"}
  MaxEvictions = 0
  TilesFail = TRUE
INVARIANTS PTypeOK OneRequestPerTile PendingIsInFlight DirtyCellHasWakeup
CHECK_DEADLOCK FALSE

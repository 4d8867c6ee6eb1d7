SPECIFICATION PFairSpec
CONSTANTS
  a = a
  b = b
  Requests = {r1, r2, r3, r4, r5}
  Silent = {}
  Callers = {}
  Prefetches = {}
  Cells = {a, b}
  LastImage = 1
  Tiles <- Keys
  Batches <- AnyOrder
  Parallelism = 2
  PrefetchParallelism = 1
  Faults = {"Exception"}
  MaxEvictions = 1
  TilesFail = FALSE
PROPERTIES ImagePainted ActivityDeclines
CHECK_DEADLOCK FALSE

SPECIFICATION FairSpec
CONSTANTS
  Requests = {r1}
  Silent = {r1}
  Callers = {c1, c2}
  Prefetches = {p1}
  k1 = k1
  k2 = k2
  Tiles = {k1, k2}
  Batches <- CallersNameBoth
  Parallelism = 1
  PrefetchParallelism = 1
  Faults = {"Exception", "Error"}
PROPERTIES PassedOverForAnother BlockingCallReturns
CHECK_DEADLOCK FALSE

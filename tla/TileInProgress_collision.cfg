SPECIFICATION Spec
CONSTANTS
  Threads = {t1, t2}
  q = q
  p = p
  s = s
  Tiles = {q, p, s}
  Sources <- TwoLevels
  Hash <- SourceApart
  Capacity = 1
  MaxSize = 1
  Faults = {}
  MaxCalls = 3
  MaxFaults = 0
INVARIANT OneComputation
CHECK_DEADLOCK FALSE

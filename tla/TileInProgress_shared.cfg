SPECIFICATION FairSpec
CONSTANTS
  Threads = {t1, t2}
  q = q
  p = p
  s = s
  Tiles = {q, p, s}
  Sources <- TwoLevels
  Hash <- SourceApart
  Capacity = 1
  MaxSize = 2
  Faults = {"memory", "exception"}
  MaxCalls = 2
  MaxFaults = 2
INVARIANTS TypeOK SomeThreadGoesOn
PROPERTY CallsReturn
CHECK_DEADLOCK FALSE

SPECIFICATION Spec
CONSTANTS
  Threads = {t1, t2, t3}
  Sizes = {7, 8}
  Images <- AnyImage
INVARIANTS TypeOK InBounds NoDataRace InputsReady InteriorComplete
PROPERTY TeamFinishes
CHECK_DEADLOCK FALSE

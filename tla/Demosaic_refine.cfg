SPECIFICATION Spec
CONSTANTS
  Threads = {t1, t2, t3}
  Sizes = {7, 8}
  Images <- AnyImage
INVARIANT RefinementSeesColor
CHECK_DEADLOCK FALSE

SPECIFICATION Spec
CONSTANTS
  None = None
  Monitor = FileCacheMonitor
  queue = queue
  user = user
  thumbnail = thumbnail
  preview = preview
  Keys = {thumbnail, preview}
  Callers = {queue, user}
  Duties <- TwoThreads
  Capacity = 1
  MaxLength = 1
  MaxCalls = 2
INVARIANTS TypeOK EveryFileKnown
PROPERTY MonitorSettles
CHECK_DEADLOCK FALSE

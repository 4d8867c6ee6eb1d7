SPECIFICATION FairSpec
CONSTANTS
  Threads = {t1, t2}
  a1 = a1
  b1 = b1
  b2 = b2
  img8 = img8
  img16 = img16
  Keys = {a1, b1, b2}
  Images = {img8, img16}
  Owner <- TileOwner
  SizeOf <- TileSize
  Persistent = {img8, img16}
  Capacity = 4
  Threshold = 3
  Flushed = 2
  MaxSize = 1
  NativeLimit = 3
  DiskSize = 4
  NoKey = NoKey
INVARIANTS TypeOK PersistentTilesSurvive StoreIntact MemoryBounded
PROPERTIES ReadBackStays CollectedTilesLeave
CHECK_DEADLOCK FALSE

SPECIFICATION Spec
CONSTANTS
  HeaderBytes = 4
  Height = 3
  MaxRowBytes = 3
  WriteBuf = 5
  WriteStrip = 2
  ReadBuf = 3
  ReadStrip = 2
INVARIANTS TypeOK WrittenInOrder TakenInOrder PreviewIsWhole DeletedOnce
PROPERTY EntrySettles
CHECK_DEADLOCK FALSE

CONSTANTS
  BufferLength = 2
  MaxBytes = 7
  MaxTime = 1
  Time <- MCTime
  Heads = {}
SPECIFICATION Spec
INVARIANTS
  TypeOK
  WholeLinesHandled
  LinesSound
  HandledInOrder
PROPERTIES
  ChunkHandled
CHECK_DEADLOCK FALSE

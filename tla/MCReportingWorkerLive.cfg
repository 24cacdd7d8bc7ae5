CONSTANTS
  Address = {a1, a2}
  Nullopt = Nullopt
  Capacity = 1
  MaxTime = 2
  MaxFix = 2
  Time <- MCTime
  Fix <- MCFix
  WallOffset <- OneOffset
  ChunkLines = 2
  DrainTimeout = 1
  Forever = 100
  Second = 2
  TslcMax = 1
SPECIFICATION Spec
PROPERTIES
  QueueUsed
  FeedAsProvided
  ShutdownCompletes
CHECK_DEADLOCK FALSE

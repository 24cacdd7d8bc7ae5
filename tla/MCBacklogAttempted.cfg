CONSTANTS
  Address = {a1, a2}
  Nullopt = Nullopt
  Capacity = 2
  MaxTime = 4
  MaxFix = 3
  Time <- MCTime
  Fix <- MCFix
  WallOffset <- TwoOffsets
  ChunkLines = 2
  DrainTimeout = 1
  Forever = 100
  Second = 2
  TslcMax = 1
SPECIFICATION SafeSpec
INVARIANTS EveryQueuedAttempted
SYMMETRY AircraftSymmetry
CHECK_DEADLOCK FALSE

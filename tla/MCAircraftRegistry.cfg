CONSTANTS
  Address = {a1, a2, a3}
  MaxTime = 3
  MaxHeard = 3
  Time <- MCTime
  MsgType = {1, 3}
  RegistryCapacity = 2
  MotionWindow = 1
  IdentityWindow = 2
  StaleWindow = 2
  Never = Never
  NoReport = NoReport
  MaxEvictions = 2
SPECIFICATION Spec
INVARIANTS
  TypeOK
PROPERTIES
  FlagsHonest
  EvictsLeastRecentlyHeard
  SweepExact
CONSTRAINT HeardBound
SYMMETRY AircraftSymmetry
CHECK_DEADLOCK FALSE

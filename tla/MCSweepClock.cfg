CONSTANTS
  Address = {a1, a2, a3}
  MaxTime = 3
  MaxHeard = 0
  Time <- MCTime
  MsgType = {8}
  RegistryCapacity = 2
  MotionWindow = 1
  IdentityWindow = 1
  StaleWindow = 2
  Never = Never
  NoReport = NoReport
  MaxEvictions = 3
SPECIFICATION Spec
INVARIANT SweepClockNotBehind
SYMMETRY AircraftSymmetry
CHECK_DEADLOCK FALSE

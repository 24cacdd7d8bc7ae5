CONSTANTS
  Address = {a1, a2}
  MaxTime = 1
  Time <- MCTime
  MsgType = {3}
  RegistryCapacity = 1
  MotionWindow = 1
  IdentityWindow = 1
  StaleWindow = 1
  Never = Never
  NoReport = NoReport
  MaxEvictions = 1
  Capacity = 2
  Nullopt = Nullopt
  SweepEvery = 2
SPECIFICATION SafeSystem
INVARIANTS
  SmallRegistryNeverFillsQueue
CHECK_DEADLOCK FALSE

CONSTANTS
  Descriptor = {f1, f2}
  NoFd = NoFd
  c1 = c1
  c2 = c2
  Candidate <- MCCandidate
  Candidates <- MCCandidates
  DelayStart = 1
  DelayCap = 3
  RetryBound = 2
SPECIFICATION Spec
INVARIANTS
  TypeOK
  UsesOwnSocket
  OneOwner
  JoinedBeforeSpawn
PROPERTIES
  BackoffSchedule
  ProvidesFeed
  Recovers
  LinkStops
CHECK_DEADLOCK FALSE

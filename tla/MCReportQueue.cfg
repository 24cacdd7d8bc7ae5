CONSTANTS
  Address = {a1, a2, a3}
  Nullopt = Nullopt
  Capacity = 2
  Time <- MCTime
  Fix <- MCFix
SPECIFICATION FairQueueSpec
INVARIANTS
  OrderMatchesItems
PROPERTIES
  NoOvertaking
  LeavesInTurn
  HandoffSpec

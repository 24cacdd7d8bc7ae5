CONSTANTS
  BufferLength = 2
  MaxBytes = 6
  MaxTime = 0
  Time <- MCTime
  Heads = {5}
SPECIFICATION Spec
INVARIANTS
  FragmentsNotDelivered
CHECK_DEADLOCK FALSE

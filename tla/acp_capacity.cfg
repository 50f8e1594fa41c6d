SPECIFICATION Spec
CONSTANTS
  NCalls = 3
  Interjects = {}
  Cancels = {3}
  Primary = TRUE
  MaxPending = 1
  PipeRoom = 1
  MaxReverse = 1
  Stray = {"malformed"}
INVARIANTS
  ConformingNeverUnmatched
  DeclinedUnwritten
\* A connection stops when every call has returned and the reader has left.
CHECK_DEADLOCK FALSE

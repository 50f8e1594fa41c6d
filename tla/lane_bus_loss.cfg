SPECIFICATION Spec
CONSTANTS
  NRuns = 1
  m1 = m1
  m2 = m2
  Messages = {m1}
  None = None
  Faults = {"cancelRun", "interrupt"}
  SeededRuns = {1}
  MaxSegments = 3
INVARIANTS
  RefusedUnwritten
  AttemptedAccounted
\* A lane stops when its Runs and its callers have returned.
CHECK_DEADLOCK FALSE

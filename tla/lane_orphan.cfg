SPECIFICATION Spec
CONSTANTS
  NRuns = 1
  m1 = m1
  m2 = m2
  Messages = {m1}
  None = None
  Faults = {"missedDrain"}
  SeededRuns = {}
  MaxSegments = 3
INVARIANTS
  NoWorkBehindIdleLane
\* A lane stops when its Runs and its callers have returned.
CHECK_DEADLOCK FALSE

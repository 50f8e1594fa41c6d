SPECIFICATION Spec
CONSTANTS
  NRuns = 2
  m1 = m1
  m2 = m2
  Messages = {m1}
  None = None
  Faults = {"interrupt"}
  SeededRuns = {2}
  MaxSegments = 3
INVARIANTS
  NoForeignSteer
  CancelFindsItsRun
  NoWorkBehindIdleLane
  NoEarlyInterject
  InterruptNotLost
\* A lane stops when its Runs and its callers have returned.
CHECK_DEADLOCK FALSE

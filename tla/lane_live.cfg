SPECIFICATION FairSpec
CONSTANTS
  NRuns = 1
  m1 = m1
  m2 = m2
  Messages = {m1}
  None = None
  Faults = {"refuse", "crash", "overflow", "close", "disorder"}
  SeededRuns = {1}
  MaxSegments = 1
PROPERTIES
  RunReturns
  DeliveryReturns
  DeliveryPromise
\* A lane stops when its Runs and its callers have returned.
CHECK_DEADLOCK FALSE

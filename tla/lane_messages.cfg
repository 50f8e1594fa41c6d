SPECIFICATION Spec
CONSTANTS
  NRuns = 1
  m1 = m1
  m2 = m2
  Messages = {m1, m2}
  None = None
  Faults = {"cancelCaller"}
  SeededRuns = {}
  MaxSegments = 3
INVARIANTS
  TypeOK
  GateConserved
  NoEmptyReceipt
  Accounting
  InjectedEnqueued
\* A lane stops when its Runs and its callers have returned.
CHECK_DEADLOCK FALSE

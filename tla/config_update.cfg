SPECIFICATION Spec
CONSTANTS
  p1 = p1
  p2 = p2
  e1 = e1
  e2 = e2
  None = None
  Starts = {p1, p2}
  Managed = {p2}
  Edits = {e1, e2}
  Documents <- SomeDocuments
  MaxTries = 2
  Faults = {"io", "kill"}
INVARIANTS
  RuleInForce
  StartsAgree
  NothingHeld
PROPERTIES
  ForeignEditKept
SYMMETRY EditSymmetry
\* Every launch ends.
CHECK_DEADLOCK FALSE

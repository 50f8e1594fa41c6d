SPECIFICATION Spec
CONSTANTS
  h1 = h1
  h2 = h2
  s1 = s1
  s2 = s2
  m1 = m1
  m2 = m2
  None = None
  Helpers = {h1, h2}
  Sessions = {s1, s2}
  Messages = {}
  MaxSlots = 1
  MaxEdits = 1
  Faults = {"kill", "refuse", "actor", "supersede"}
INVARIANTS
  OnlyOwnerNamed
SYMMETRY Symmetry
PROPERTIES
  NameFinal
\* A helper stops when its Shutdown has returned.
CHECK_DEADLOCK FALSE

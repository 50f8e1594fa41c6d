SPECIFICATION FairSpec
CONSTANTS
  h1 = h1
  h2 = h2
  s1 = s1
  s2 = s2
  None = None
  Helpers = {h1, h2}
  Sessions = {s1, s2}
  Session = s1
  MaxClients = 2
  MaxRuns = 1
  Faults = {"refuse", "crash", "malformed", "helper", "cancelOpen", "cancelClose"}
INVARIANTS
  OpenLaneBound
  NothingLeft
  LossSettlesWork
\* A closed lane does nothing more.
CHECK_DEADLOCK FALSE
PROPERTIES
  LossEndsLane
  CancelledCallsReturn

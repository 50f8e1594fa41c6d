SPECIFICATION FairSpec
CONSTANTS
  h1 = h1
  h2 = h2
  s1 = s1
  s2 = s2
  m1 = m1
  m2 = m2
  None = None
  Helpers = {h1}
  Sessions = {s1}
  Messages = {m1, m2}
  MaxSlots = 2
  MaxEdits = 1
  Faults = {"shutdown", "observer", "bus", "launch", "cancelCaller"}
INVARIANTS
  TypeOK
  OneInterject
  DoneQuiet
PROPERTIES
  TitlePublished
  ShutdownEnds
\* A helper stops when its Shutdown has returned.
CHECK_DEADLOCK FALSE

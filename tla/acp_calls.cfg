SPECIFICATION FairSpec
CONSTANTS
  NCalls = 2
  Interjects = {1}
  Cancels = {}
  Primary = TRUE
  MaxPending = 2
  PipeRoom = 1
  MaxReverse = 1
  Stray = {}
INVARIANTS
  TypeOK
  WriteGateConserved
  NobodyStranded
  OutcomeOwn
PROPERTIES
  ClaimWins
  ReaderResumes
  CallReturns
\* A connection stops when every call has returned and the reader has left.
CHECK_DEADLOCK FALSE

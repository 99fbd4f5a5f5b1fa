SPECIFICATION Spec
CONSTANTS
  p1 = p1
  p2 = p2
  p3 = p3
  c1 = c1
  c1again = c1again
  c2 = c2
  c3 = c3
  None = None
  Proc <- RivalProc
  Call <- RivalCall
  Owner <- RivalOwner
  CloseFirst = TRUE
CHECK_DEADLOCK FALSE
INVARIANTS
  ExclusivePrimary
  AcknowledgedIsQueued
PROPERTIES
  RecoveryKeepsLiveEndpoint

SPECIFICATION FairSpec
CONSTANTS
  p1 = p1
  p2 = p2
  p3 = p3
  c1 = c1
  c1again = c1again
  c2 = c2
  c3 = c3
  None = None
  Proc <- RepeatProc
  Call <- RepeatCall
  Owner <- RepeatOwner
  CloseFirst = FALSE
CHECK_DEADLOCK FALSE
PROPERTIES
  InvocationsAreServed
  ImplementsLock

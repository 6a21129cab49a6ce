SPECIFICATION Spec
CONSTANTS
  p1 = p1
  e1 = e1
  e2 = e2
  w1 = w1
  Conns = {p1, e1, e2, w1}
  Kind <- Kinds
  NCallbacks = 2
  CloseAllAt = 2
CHECK_DEADLOCK FALSE
INVARIANT ServerErrorReported

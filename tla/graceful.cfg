SPECIFICATION WaitSpec
CONSTANTS
  p1 = p1
  e1 = e1
  w1 = w1
  Conns = {p1, e1, w1}
  Kind <- Kinds
  NCallbacks = 2
  CloseAllAt = 2
  probe = p1
CHECK_DEADLOCK FALSE
INVARIANTS CleanMeansDrained
PROPERTIES ShutdownTerminates SSEReleased WaitEnds

SPECIFICATION HubSpec
CONSTANTS
  c1 = c1
  c2 = c2
  id1 = id1
  id2 = id2
  Conns = {c1, c2}
  Cap = 1
  EarlyClose = TRUE
  Keepalive = FALSE
  Ids = {id1}
  ConnId <- SameId
  Senders = {s1}
  Closers = {p1}
  SendKinds = {"data", "badData"}
  RegisterAt = "OnStart"
  Stalled = {}
  None = None
SYMMETRY Symmetry
INVARIANTS NoDanglingEntry BroadcastTargetsAlive NoDoubleClose NoOrphanWriter ExclusiveResponseWriter
CHECK_DEADLOCK FALSE

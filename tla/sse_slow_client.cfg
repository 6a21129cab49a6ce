SPECIFICATION HubCallSpec
CONSTANTS
  c1 = c1
  c2 = c2
  id1 = id1
  id2 = id2
  Conns = {c1, c2}
  Cap = 1
  EarlyClose = FALSE
  Keepalive = FALSE
  Ids = {id1, id2}
  ConnId <- OwnIds
  Senders = {s1}
  Closers = {}
  SendKinds = {"data"}
  RegisterAt = "OnStart"
  Stalled = {c1}
  None = None
PROPERTIES BroadcastReachesAll
CHECK_DEADLOCK FALSE

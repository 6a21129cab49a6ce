SPECIFICATION HubFairSpec
CONSTANTS
  c1 = c1
  c2 = c2
  id1 = id1
  id2 = id2
  Conns = {c1}
  Cap = 2
  EarlyClose = FALSE
  Keepalive = TRUE
  Ids = {id1}
  ConnId <- OneId
  Senders = {s1, s2}
  Closers = {p1}
  SendKinds = {"data"}
  RegisterAt = "OnStart"
  Stalled = {}
  None = None
PROPERTIES CloseEndsServe DisconnectEndsServe BroadcastReachesAll CloseAllEnds
CHECK_DEADLOCK FALSE

SPECIFICATION FairSpec
CONSTANTS
  Conns = {c1}
  Cap = 2
  Keepalive = TRUE
  EarlyClose = TRUE
PROPERTIES CloseEndsServe
CHECK_DEADLOCK FALSE

SPECIFICATION SessionSpec
CONSTANTS
  Kinds = {"server", "client", "bidi"}
  MaxIn = 2
  MaxResp = 2
CHECK_DEADLOCK FALSE
INVARIANTS CallbacksInOrder EndIsLast
PROPERTIES ForwarderEnds EndReachesClient 

SPECIFICATION FairSpec
CONSTANTS
  a1 = a1
  b1 = b1
  ann = ann
  bob = bob
  Subs = {a1}
  Syncs = {b1}
  Players = {ann, bob}
  EventCap = 1
  BufCap = 1
  MaxActions = 2
  None = None
CHECK_DEADLOCK FALSE
INVARIANTS RoomConsistent EventsInOrder 
PROPERTIES LockReturns

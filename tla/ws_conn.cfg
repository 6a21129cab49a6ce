SPECIFICATION FairSpec
CONSTANTS
  Cap = 2
  MaxReads = 3
  OnErrorCloses = TRUE
  OnTimeoutCloses = TRUE
  Stalled = FALSE
CHECK_DEADLOCK FALSE
INVARIANTS OnCloseOnce NoOrphanWriter
PROPERTIES PeerGoneEnds SilenceEnds

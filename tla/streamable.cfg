SPECIFICATION Spec
CONSTANTS
  Posts = {p1}
  DataLines = {0, 2}
  Cap = 1
  MaxEvents = 2
CHECK_DEADLOCK FALSE
INVARIANTS CompleteMeansAll 
PROPERTIES CloseEndsBoth StreamIsPipe

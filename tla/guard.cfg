SPECIFICATION CallerSpec
CONSTANTS
  Requests = {r1, r2}
  c1 = c1
  c2 = c2
  proxy = proxy
  OwnOrigins <- MCOwn
  Origins <- MCOrigins
  TrustedProxies <- MCProxies
  AcceptedTypes = {"application/json"}
  Inputs <- MCInputs
  HandlerStatuses = {401, 403}
  max = 1
  Keys = {c1, c2}
  GlobalPerTick = 2
  GlobalBurst = 2
  PerKeyPerTick = 1
  PerKeyBurst = 2
  KeyLimiterTTL = 2
  MaxTime = 3
  None = None
SYMMETRY Symmetry
CHECK_DEADLOCK FALSE
INVARIANTS AtMostMax  ForeignPagesStayOut  RetryBudget
PROPERTIES BucketsKept

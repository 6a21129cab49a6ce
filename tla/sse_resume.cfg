SPECIFICATION Spec
CONSTANTS
  s1 = s1
  s2 = s2
  p1 = p1
  p2 = p2
  Streams = {s1, s2}
  Session = s1
  Producers = {p1, p2}
  maxPerStream = 2
  MaxEvents = 4
  MaxConnects = 3
SYMMETRY ProducerSymmetry
INVARIANTS KeepsNewest ResumeInOrder NoSilentGap ClosedOnce
CHECK_DEADLOCK FALSE

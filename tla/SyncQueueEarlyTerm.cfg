\* The queue may be terminated while producers still push or sleep.
CONSTANTS
  Producers = {p1, p2, p3}
  Poppers = {c1, c2}
  Peekers = {}
  MaxSize = 2
  Burst = 2
  EarlyTerm = TRUE
SPECIFICATION Spec
INVARIANTS
  Bounded
  NoLostWakeup
SYMMETRY Symmetry
CHECK_DEADLOCK FALSE

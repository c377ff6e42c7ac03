\* Two producers and two poppers around a queue of one slot.
CONSTANTS
  Producers = {p1, p2}
  Poppers = {c1, c2}
  Peekers = {}
  MaxSize = 1
  Burst = 2
  EarlyTerm = FALSE
SPECIFICATION FairSpec
INVARIANTS
  TypeOK
  CompleteAtEnd
PROPERTIES
  EveryoneFinishes
  ImplementsFifo

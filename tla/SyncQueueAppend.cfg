\* The container queue: the filter thread pushes, the append thread peeks,
\* writes and pops.
CONSTANTS
  Producers = {filter}
  Poppers = {}
  Peekers = {append}
  MaxSize = 2
  Burst = 6
  EarlyTerm = FALSE
SPECIFICATION FairSpec
INVARIANTS
  PeekedIsTop
PROPERTIES
  EveryoneFinishes

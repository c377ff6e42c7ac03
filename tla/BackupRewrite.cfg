\* Near-exact deduplication with a rewrite algorithm.
CONSTANTS
  Fingerprint = {f1, f2}
  SegmentSize = 2
  RewriteBuffer = 2
  ContainerSize = 1
  QueueSize = 1
  PipeSize = 1
  CacheSize = 1
  WaitThreshold = 0
  Exact = FALSE
  Rewriting = TRUE
  CrashIn = {}
  MaxChunks = 3
  MaxJobs = 2
  MaxContainers = 6
SPECIFICATION Spec
INVARIANTS
  IndexBufferInStep
  RecipeFollowsStream
SYMMETRY Symmetry

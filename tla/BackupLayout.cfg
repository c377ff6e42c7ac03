\* wait_threshold as index.c and filter_phase.c read it.
CONSTANTS
  Fingerprint = {f1, f2}
  SegmentSize = 2
  RewriteBuffer = 2
  ContainerSize = 2
  QueueSize = 1
  PipeSize = 1
  CacheSize = 1
  WaitThreshold = 0
  Exact = TRUE
  Rewriting = FALSE
  CrashIn = {}
  MaxChunks = 7
  MaxJobs = 1
  MaxContainers = 8
SPECIFICATION Spec
INVARIANTS
  IndexBufferBounded

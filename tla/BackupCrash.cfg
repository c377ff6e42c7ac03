\* Three jobs, any of which may be killed while it runs.
CONSTANTS
  Fingerprint = {f1, f2}
  SegmentSize = 1
  RewriteBuffer = 2
  ContainerSize = 1
  QueueSize = 1
  PipeSize = 1
  CacheSize = 1
  WaitThreshold = 0
  Exact = TRUE
  Rewriting = FALSE
  CrashIn = {"run", "commit"}
  MaxChunks = 2
  MaxJobs = 3
  MaxContainers = 6
SPECIFICATION Spec
INVARIANTS
  Restorable
PROPERTIES
  PoolIsAppendOnly

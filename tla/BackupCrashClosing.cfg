\* The process may also be killed between close_index and close_container_store.
CONSTANTS
  Fingerprint = {f1, f2}
  SegmentSize = 1
  RewriteBuffer = 2
  ContainerSize = 1
  QueueSize = 1
  PipeSize = 1
  CacheSize = 1
  WaitThreshold = 0
  Exact = TRUE
  Rewriting = FALSE
  CrashIn = {"run", "closeStore"}
  MaxChunks = 2
  MaxJobs = 3
  MaxContainers = 6
SPECIFICATION Spec
INVARIANTS
  Restorable

\* destor.config: exact deduplication, no rewrite; crashes that lose the job.
CONSTANTS
  Fingerprint = {f1, f2, f3}
  SegmentSize = 2
  RewriteBuffer = 2
  ContainerSize = 2
  QueueSize = 2
  PipeSize = 1
  CacheSize = 1
  WaitThreshold = 0
  Exact = TRUE
  Rewriting = FALSE
  CrashIn = {"run", "commit"}
  MaxChunks = 4
  MaxJobs = 2
  MaxContainers = 8
SPECIFICATION Spec
INVARIANTS
  TypeOK
  StoredOnce
  TemporaryIdsResolve
  PrefetchFinds
SYMMETRY Symmetry

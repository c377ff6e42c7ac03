\* Every thread is scheduled and nobody is killed.
CONSTANTS
  Fingerprint = {f1, f2}
  SegmentSize = 2
  RewriteBuffer = 2
  ContainerSize = 2
  QueueSize = 1
  PipeSize = 1
  CacheSize = 1
  WaitThreshold = 0
  Exact = TRUE
  Rewriting = FALSE
  CrashIn = {}
  MaxChunks = 4
  MaxJobs = 2
  MaxContainers = 8
SPECIFICATION FairSpec
PROPERTIES
  JobsCommit

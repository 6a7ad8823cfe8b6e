CONSTANTS
  Threads = {t1, t2, t3}
  NoJob = 0
  Size = 2
  MaxSpawn = 1
  Budget = 2
  Recycle = 2
  N = 3
  Batch = 2
  Window = 2
  Jobs <- Files
SPECIFICATION LiveSpec
CHECK_DEADLOCK FALSE
INVARIANTS PoolIsSound FilesAccounted
PROPERTIES AbortIsFinal IndexReturns

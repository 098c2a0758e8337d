SPECIFICATION TimelinesSpec
CONSTANTS
  Threads = {t1}
  MaxOpens = 3
  MaxFailures = 0
  MaxRebuilds = 0
  MaxLeaves = 0
  MaxQueue = 3
INVARIANT ReopenedThreadWorks
CHECK_DEADLOCK FALSE

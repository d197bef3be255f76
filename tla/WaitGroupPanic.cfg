SPECIFICATION FairSpec
CONSTANTS
  MaxThreads = 4
  ChanCap = 2
  MaxJobs = 2
  TasksMayFail = FALSE
PROPERTY JobsEnd
CHECK_DEADLOCK FALSE

SPECIFICATION FairSpec
CONSTANTS
  MaxThreads = 2
  ChanCap = 2
  MaxJobs = 4
  TasksMayFail = TRUE
INVARIANT TypeOK
INVARIANT BarrierOrder
INVARIANT ThreadLimit
INVARIANT WaitMeansAllDone
PROPERTY ImplementsQueue
PROPERTY WaitReturns
CHECK_DEADLOCK FALSE

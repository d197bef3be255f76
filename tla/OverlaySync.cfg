SPECIFICATION SmallSpec
CONSTANTS
  a = a
  ax = ax
  axu = axu
  ay = ay
  Walk <- TreeWalk
  Above <- TreeAbove
  MaxThreads = 2
  MaxFaults = 1
INVARIANT TypeOK
INVARIANT DoneIsMerged
INVARIANT ViewIsStable
PROPERTY SyncEnds
CHECK_DEADLOCK FALSE

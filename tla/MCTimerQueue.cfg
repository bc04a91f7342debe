SPECIFICATION FairSpec
CONSTANTS
  t1 = t1
  t2 = t2
  t3 = t3
  NULL = NULL
  Nodes <- MCTimers
  Delays <- MCDelays
  MaxNow <- MCMaxNow
  UINT32_MAX <- MCUINT32_MAX
INVARIANTS RunningTimersAreQueued NoUseAfterFree
PROPERTIES ImplementsSched DueTimerRuns
CHECK_DEADLOCK FALSE

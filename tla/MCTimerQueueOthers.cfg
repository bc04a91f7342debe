SPECIFICATION SpecOthers
CONSTANTS
  t1 = t1
  t2 = t2
  t3 = t3
  NULL = NULL
  Nodes <- MCTimers
  Delays <- MCDelays
  MaxNow <- MCMaxNow
  UINT32_MAX <- MCUINT32_MAX
INVARIANT InsertedTimerIsQueued
CHECK_DEADLOCK FALSE

SPECIFICATION FairSpec
CONSTANTS
  a = a
  b = b
  u = u
  f1 = f1
  backend_task_timer = backend_task_timer
  LIB = LIB
  NULL = NULL
  Tasks <- MCTasks
  TaskPrio <- MCTaskPrio
  Timers <- MCTimers
  Periods <- MCPeriods
  Fds <- MCFds
  Delays <- MCDelays
  Timeouts <- MCTimeouts
  MaxNow <- MCMaxNow
  MaxTime <- MCMaxTime
  QueueSize <- MCQueueSize
INVARIANTS TaskTimerRuns NoSleepOnWork
PROPERTIES InputIsRead TasksRun DueTimersFire
CHECK_DEADLOCK FALSE

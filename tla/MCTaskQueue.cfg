CONSTANTS
  a1 = a1
  a2 = a2
  a3 = a3
  b1 = b1
  c1 = c1
  c2 = c2
  bad = bad
  NULL = NULL
  Tasks <- MCTasks
  TaskPrio <- MCTaskPrio
SPECIFICATION FairSpec
INVARIANTS ListsAreLinked QueuedIsAccurate MinPrioIsMinimal TaskCountIsExact
PROPERTIES ImplementsSched QueuedTaskRuns

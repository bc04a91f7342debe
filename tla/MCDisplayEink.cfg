SPECIFICATION FairSpec
CONSTANT Width <- MCWidth
INVARIANTS UnsentIsQueued ProgressIsAccurate ExitsWhenIdle AtMostFiveInARow
PROPERTIES UpdatesAreSent ExitReturns
CHECK_DEADLOCK FALSE

SPECIFICATION SchedSpec
CONSTANTS
  MaxThreads = 3
  TimeSlice = 2
  BlockReturn = "body"
INVARIANTS ReadyThreadsQueued QueuedNotRunning CpuIsCurrent ContextsAreOwn
PROPERTIES DeadStaysDead ReadyThreadRuns
CHECK_DEADLOCK FALSE

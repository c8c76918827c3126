CONSTANTS
  MaxThreads = 3
  LastTid = 2
  StartThreads = {0}
  StartPriority <- AllOrange
  Calls <- ParentAndWorkers
SPECIFICATION Spec
CHECK_DEADLOCK FALSE
INVARIANTS TypeOK EachThreadInOnePlace ReadyMatchesPriority NoLostJoin NoReadyOnlyWhenAllWait

\* Threads of every priority use the monitor; lock holders are boosted.
CONSTANTS
  MaxThreads = 4
  LastTid = 3
  StartThreads = {0, 1, 2, 3}
  StartPriority <- MixedPriorities
  Calls <- Clients
  CondVars = {c1, c2}
  Null = Null
  NestedSignals = FALSE
SPECIFICATION MonitorSpec
CHECK_DEADLOCK FALSE
INVARIANTS MonitorTypeOK MutualExclusion LockHasOneHolder StuckOnlyWhenAllWait NoThreadLost FreeLockIsUnwanted ReadyMatchesPriority BoostsAccountedFor
PROPERTY OwedInOrder

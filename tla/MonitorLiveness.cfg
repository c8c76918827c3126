CONSTANTS
  MaxThreads = 4
  LastTid = 2
  StartThreads = {0, 1, 2}
  StartPriority <- AllOrange
  Calls <- JoinedClients
  CondVars = {c1}
  Null = Null
  NestedSignals = FALSE
SPECIFICATION FairMonitorSpec
CHECK_DEADLOCK FALSE
PROPERTIES LockGranted NotifiedReturn ReadyRuns JoinCompletes

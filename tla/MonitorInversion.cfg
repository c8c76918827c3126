\* The lock holder is switched out by its own priority class, then kept out.
CONSTANTS
  MaxThreads = 4
  LastTid = 3
  StartThreads = {0, 1, 2, 3}
  StartPriority <- InversionPriorities
  Calls <- Inversion
  CondVars = {c1}
  Null = Null
  NestedSignals = FALSE
SPECIFICATION FairMonitorSpec
CHECK_DEADLOCK FALSE
PROPERTY InversionResolved

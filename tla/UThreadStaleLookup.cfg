\* A thread is joined between a call's look-up and its body.
CONSTANTS
  MaxThreads = 3
  LastTid = 2
  StartThreads = {0, 1, 2}
  StartPriority <- AllOrange
  Calls <- LateCalls
SPECIFICATION Spec
CHECK_DEADLOCK FALSE
INVARIANT CallsFailCleanly

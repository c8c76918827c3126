\* Two producers and two consumers; the buffer wraps, fills and empties.
CONSTANTS
  MaxThreads = 5
  LastTid = 4
  StartThreads = {0, 1, 2, 3, 4}
  StartPriority <- AllOrange
  Calls <- BufferCalls
  Null = Null
  NestedSignals = TRUE
  CondVars = {space, item}
  need_space_cv = space
  need_item_cv = item
  SHARED_BUFFER_SIZE = 2
  Producers = {1, 2}
  Consumers = {3, 4}
SPECIFICATION BufferSpec
INVARIANTS BufferTypeOK AssertsHold NoThreadLost
PROPERTY ImplementsQueue

\* Two threads join the same one.
CONSTANTS
  LastTid = 2
  Calls <- MCTwoJoiners
  SharedJoins = TRUE
  ResumeJoining = FALSE
SPECIFICATION Spec
CHECK_DEADLOCK FALSE
PROPERTY QueuedJoinIsWoken

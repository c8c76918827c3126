\* The main thread and three workers, the first of which manages the others as
\* the main thread does; ids are used again.
CONSTANTS
  LastTid = 3
  Calls <- MCTwoManagers
  SharedJoins = FALSE
  ResumeJoining = FALSE
SPECIFICATION Spec
CHECK_DEADLOCK FALSE
INVARIANTS TypeOK ReadyOnce FinishedNeverRuns JoinFindsThread FreedIdUnused

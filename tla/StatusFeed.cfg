\* One client of either kind; three events, a crash and an API client's calls among them.
SPECIFICATION FairSpec
CONSTANTS
  MaxEvents = 3
  Kinds <- MCKinds
INVARIANTS TypeOK CaughtUp
PROPERTIES StateArrives StaleIsReplaced LinesArrive
CHECK_DEADLOCK FALSE

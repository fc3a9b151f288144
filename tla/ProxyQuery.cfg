SPECIFICATION FairSpec
CONSTANTS
  Sessions = 2
  MaxQueries = 2
INVARIANTS TypeOK OrbotIsUsed CrashNeedsOvertaking
PROPERTY QueryEnds
CHECK_DEADLOCK FALSE

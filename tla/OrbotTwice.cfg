\* One session; a query that is interrupted and asked again.
SPECIFICATION Spec
CONSTANTS
  Sessions = 1
  MaxQueries = 2
INVARIANT RemovesRegistered
CHECK_DEADLOCK FALSE

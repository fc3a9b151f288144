SPECIFICATION FairSpec
CONSTANTS
  Io <- MCIo
  Binder <- MCBinder
  Own <- MCOwn
  Managed <- MCManaged
  MaxOps = 4
  MaxTries = 1
  None = None
  Torn = Torn
  io = "io"
  binder = "binder"
  p1 = p1
  p2 = p2
  m1 = m1
INVARIANTS TypeOK StoreIsReadable
PROPERTY StartIsAnswered
CHECK_DEADLOCK FALSE

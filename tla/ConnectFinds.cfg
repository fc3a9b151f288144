SPECIFICATION FairSpec
CONSTANTS
  Io <- MCIo
  Binder <- MCNone
  Own <- MCOwn
  Managed <- MCNone
  MaxOps = 2
  MaxTries = 2
  None = None
  Torn = Torn
  io = "io"
  binder = "binder"
  p1 = p1
  p2 = p2
  m1 = m1
PROPERTY ConnectFindsProfile
CHECK_DEADLOCK FALSE

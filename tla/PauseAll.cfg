\* An API client pauses and resumes, redundantly too, from a binder thread.
SPECIFICATION Spec
CONSTANTS
  Networks = {wifi}
  NoNetwork = NoNetwork
  NetChangeReconnect <- On
  ScreenOffPause <- Off
  UserThreads <- BinderOnly
  Redundant = TRUE
  MaxTimers = 2
  MaxLines = 2
  MaxResume = 1
INVARIANTS TypeOK NoLostHold
PROPERTIES HandshakeSafety


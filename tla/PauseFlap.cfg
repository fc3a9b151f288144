\* The network drops for less than the wait time while the user has paused.
SPECIFICATION Spec
CONSTANTS
  Networks = {wifi}
  NoNetwork = NoNetwork
  NetChangeReconnect <- On
  ScreenOffPause <- Off
  UserThreads <- MainOnly
  Redundant = FALSE
  MaxTimers = 1
  MaxLines = 2
  MaxResume = 1
PROPERTIES UserPauseIsKept

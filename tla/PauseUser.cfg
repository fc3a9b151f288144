\* User pauses from the main looper; a lost network does not pause the VPN.
SPECIFICATION Spec
CONSTANTS
  Networks = {wifi, cell}
  NoNetwork = NoNetwork
  NetChangeReconnect <- Off
  ScreenOffPause <- OnOrOff
  UserThreads <- MainOnly
  Redundant = TRUE
  MaxTimers = 1
  MaxLines = 2
  MaxResume = 2
INVARIANTS PauseIsHeld PauseIsShown
PROPERTIES UserPauseIsKept

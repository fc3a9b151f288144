\* Progress of the handshake and of a VPN that should be connected.
SPECIFICATION FairSpec
CONSTANTS
  Networks = {wifi}
  NoNetwork = NoNetwork
  NetChangeReconnect <- On
  ScreenOffPause <- On
  UserThreads <- MainOnly
  Redundant = FALSE
  MaxTimers = 2
  MaxLines = 1
  MaxResume = 1
INVARIANTS NoLostWakeup
PROPERTIES ResumeReleases HandshakeLive

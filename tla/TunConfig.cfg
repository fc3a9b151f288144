SPECIFICATION FairSpec
CONSTANTS
  Configs <- MCConfigs
  LocalNetworks <- MCLan
  HostAddresses <- MCHosts
  MaxSetups = 4
  NoTun = NoTun
  None = None
  ip = ip
  host = host
  ip6 = ip6
  net = net
  lan = lan
  dns1 = dns1
  dns2 = dns2
  domain1 = domain1
  domain2 = domain2
INVARIANTS TypeOK TunCoversPushed
PROPERTIES TunIsRecent SetupEnds
CHECK_DEADLOCK FALSE

\* up to four networks of both kinds over eight addresses.
SPECIFICATION FairSpec
CONSTANTS
  Bits = 3
  Size <- ThreeBits
  MaxNets = 4
  None = None
INVARIANTS TypeOK RoutesDisjoint UnanimousKept RegularIsExact
PROPERTIES Terminates

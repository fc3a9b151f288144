SPECIFICATION FairSpec
CONSTANTS
  Sessions = 3
  Disturbed = 2
  Instances = 2
  Calm <- MCBoth
INVARIANTS TypeOK SessionIsWhole ConnectedIsReachable
PROPERTIES OneAtATime ToldEnds StartCompletes
CHECK_DEADLOCK FALSE

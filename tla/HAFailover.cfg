CONSTANTS
  Primary = primary
  Standby = standby
  PeerFailThreshold = 3
  WakeLimit = 3
  MaxTrouble = 5

SPECIFICATION FairSpec

PROPERTIES
  PassiveGetsNothing
  StandbyTakesOver
  StandbyYields
  ControlReturns

\* When the disturbances are used up and the leader runs, nothing is left to do.
CHECK_DEADLOCK FALSE

CONSTANTS
  Dals <- MCDals
  Task = {t1}
  Threshold = 3
  MaxRetries = 3
  Left <- MCLeft
  MaxTrouble = 1

SPECIFICATION FairSpec

INVARIANTS
  PrimaryShielded
  

PROPERTIES
  JobEnds

CONSTANTS
  Dals <- MCDals
  Task = {t1}
  Threshold = 3
  MaxRetries = 3
  Left <- MCLeft
  MaxTrouble = 0

SPECIFICATION FairSpec

PROPERTIES
  CodeLeavesByCommit

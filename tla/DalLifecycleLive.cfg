CONSTANTS
  lead = lead
  dev = dev
  h1 = h1
  h2 = h2
  h3 = h3
  None = None
  Dal = {lead}
  Leader = {lead}
  Handler = {h1}
  Id = {1,2,3,4,5,6,7,8,9,10,11}
  FailThreshold = 3
  MaxRetry = 2

SPECIFICATION FairSpec

PROPERTIES
  DeadLeaderHandled

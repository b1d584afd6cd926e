CONSTANTS
  lead = lead
  dev = dev
  h1 = h1
  h2 = h2
  h3 = h3
  None = None
  Dal = {lead, dev}
  Leader = {lead}
  Handler = {h1, h2, h3}
  Id = {1,2,3,4,5,6,7,8,9,10,11,12,13,14,15,16,17,18,19}
  FailThreshold = 1
  MaxRetry = 1

SPECIFICATION Spec
SYMMETRY Requests
VIEW UpToIds
CONSTRAINT Undisturbed

INVARIANTS
  TruthfulMap

PROPERTIES
  CleanSparesRunning

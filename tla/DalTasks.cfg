CONSTANTS
  t1 = t1
  t2 = t2
  lead = lead
  dev = dev
  None = None
  Task <- TwoTasks
  Dal = {lead, dev}
  Leader = {lead}
  Mode = {"oneshot", "container", "tracked"}
  MaxTasks = 1
  MaxLeader = 1
  MaxMember = 1
  MaxOneshot = 1
  MaxRestarts = 1

SPECIFICATION FairSpec

INVARIANTS
  GateBound
  OneshotBound
  LiveTaskKept

PROPERTIES
  OutcomeFinalWhileFresh
  SettledOnFileStaysSettled
  EveryTaskSettles

CONSTANTS
  Issue = {1, 2, 3, 4}
  PullRequest = {2}
  ListLimit = 2
  MaxTracked = 2
  MaxIssueTrouble = 3
  Ticket = {i, j}
  Request = {r, s, t}
  MaxWorkflows = 1
  ClosedIssue = {1, 2}
  MergeRequest = {p}
  ClosedLimit = 1
  NotifiedLimit = 1
  Month = 2
  MaxDay = 1
  MaxNoticeTrouble = 1
  Reporter = {d}
  MaxClaims = 1
  Slot = {x, y}
  MaxId = 3
  MaxClaimTrouble = 2
  Teller = {t1, t2}
  TellDal = {l, m}
  TellLeader = l
  MaxContainer = 4
  MaxTellTrouble = 2
  Pane = {p1, p2}
  Caller = {c1, c2}
  Paper = {1, 2, 3, 4}
  MaxPaneTrouble = 2
  MaxRevision = 2
  MaxRepoTrouble = 2
  Key = {k}
  MaxEscalations = 1
  MaxRecords = 1
  MaxCost = 2
  Cooldown = 2
  MaxLedgerTrouble = 2

SPECIFICATION Spec

INVARIANTS
  TypeOK
  DispatchesBounded
  OverlapIsARace
  ToldOnce
  
  DownIsReported
  RegisteredIsKept

PROPERTIES
  WatcherSettles
  CredentialRefreshed
  MainArrives
  NoticeGetsThrough

\* A part that has used up its disturbances may have nothing left to do.
CHECK_DEADLOCK FALSE

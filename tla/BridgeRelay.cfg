CONSTANTS
  a = a
  b = b
  hook = hook
  Client = {a, b}
  Poster = {b, hook}
  Gateway <- MCGateway
  QueueCap = 2
  InboxCap = 2
  MaxPosts <- MCMaxPosts
  MaxTrouble = 1

SPECIFICATION FairSpec

INVARIANTS
  NoSendOnClosed
  PosterOrder
  LossExplained

PROPERTIES
  ReachesInbox

\* When everything is posted and seen, nothing is left to do.
CHECK_DEADLOCK FALSE

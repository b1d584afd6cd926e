CONSTANTS
  m1 = m1
  m2 = m2
  m3 = m3
  Msg <- ThreeMessages
  Waits = {}
  Bridge = TRUE
  MaxBuffered = 2
  MaxRetries = 1
  MaxRestarts = 1

SPECIFICATION CrashOrEvict
SYMMETRY TwoSymmetry
VIEW Unread

INVARIANTS
  DeliveriesBounded

PROPERTIES
  OpenEvictedLast

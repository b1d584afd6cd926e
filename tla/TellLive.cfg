CONSTANTS
  m1 = m1
  m2 = m2
  m3 = m3
  Msg <- TwoMessages
  Waits = {m1}
  Bridge = TRUE
  MaxBuffered = 1
  MaxRetries = 1
  MaxRestarts = 0

SPECIFICATION LiveSpec

INVARIANTS
  AckIsTrue

PROPERTIES
  AckLostOnlyInFlight
  EveryMessageEnds

SPECIFICATION FairSpec
CONSTANTS
  c1 = c1
  t1 = t1
  MaxConns = 5
  MaxFaults = 1
  MaxEvents = 1
  Calls = {c1}
  Terms = {t1}
CHECK_DEADLOCK FALSE
INVARIANTS MapsHoldWaiters
PROPERTIES ComesBack

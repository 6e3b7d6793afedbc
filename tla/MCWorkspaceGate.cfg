SPECIFICATION GateSpec
CONSTANTS
  link = link
  repo = repo
  other = other
  K1 = K1
  K2 = K2
  Callers = {c1, c2, c3}
  Keys = {K1, K2}
  Locks = {L1, L2, L3, L4}
  NoKey = NoKey
  NoLock = NoLock
  Roots <- MCRoots
  KeyOf <- MCKeyOf
INVARIANTS MutualExclusion MapExact RefsExact NoLostWakeup
PROPERTIES NoBarging MutexSpec CancelEndsWait EveryCallServed

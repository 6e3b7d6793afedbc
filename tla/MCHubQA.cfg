SPECIFICATION Spec
CONSTANTS
  Conns = {c1, c2}
  Calls = {q1, q2}
  Ids = {A}
  IdOf <- SameId
  Cap = 2
  MaxEvents = 2
  None = None
SYMMETRY Symmetry
CHECK_DEADLOCK FALSE
INVARIANTS NoPanic NoAbandonedStream ClosedMeansFinished
PROPERTIES FramesLeaveRoom StreamSpec

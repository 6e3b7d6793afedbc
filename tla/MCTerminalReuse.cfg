SPECIFICATION FairSpec
CONSTANTS
  o1 = o1
  o2 = o2
  o3 = o3
  A = A
  B = B
  main = main
  Opens = {o1, o2, o3}
  Ids = {A, B}
  IdOf <- MCIdOf
  Sessions = {main}
  SessionOf <- MCSessionOf
  RunOpens = {o3}
  None = None
CHECK_DEADLOCK FALSE
PROPERTIES MessageLoopRuns

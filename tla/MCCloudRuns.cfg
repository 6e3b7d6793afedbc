SPECIFICATION FairSpec
CONSTANTS
  r1 = r1
  r2 = r2
  e1 = e1
  Runs = {r1, r2}
  Regranted = {r2}
  Execs = {e1}
  Cap = 1
  MaxLines <- LinesOf
  MaxLives = 2
  None = None
CHECK_DEADLOCK FALSE
INVARIANTS PollNeverBlocks WorkHoldsSlot CompletedIsTrue
PROPERTIES TailComplete ExecutionEnds

SPECIFICATION FairSpec
CONSTANTS
  Lines <- MCLines
  EvCap = 1
  PipeCap = 1
  MaxOut = 3
  MaxErr = 1
CHECK_DEADLOCK FALSE
INVARIANTS NothingLeftBehind AnswerIsFinal FramesContiguous
PROPERTIES HandlerReturns

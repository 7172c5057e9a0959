SPECIFICATION RpcSpec
CONSTANTS
  Ids = {1, 2, 3}
  PipeCap = 1
  None = None
INVARIANTS
  AnswersAreNotLost
PROPERTIES
  RequestsEnd
CHECK_DEADLOCK FALSE

SPECIFICATION ConversationSpec
SYMMETRY Symmetry
CONSTANTS
  Sessions = {s1, s2}
  Runs = {r1, r2}
  MaxRounds = 1
  HistoryLimit = 3
  ExportLimit = 3
  MaxRestarts = 1
  MaxExports = 1
  MaxLost = 1
  None = None
CONSTRAINT OneAtATime
INVARIANTS
  SerialRunsCountAll
  AnswersAreRemembered
  CountsAreBacked
  ResultsFollowCalls
CHECK_DEADLOCK FALSE

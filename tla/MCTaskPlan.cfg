SPECIFICATION PlanSpec
SYMMETRY Symmetry
CONSTANTS
  a = a
  b = b
  Tools <- MCTools
  Outlines <- MCOutlines
  Runs = {r1, r2}
  MaxTools = 3
  None = None
INVARIANTS
  DoneIsEarned
  SerialRunsShareThePlan
  SerialRunsKeepOrder
CHECK_DEADLOCK FALSE

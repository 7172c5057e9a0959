SPECIFICATION FairEngineSpec
CONSTANTS
  read = read
  write = write
  wipe = wipe
  Calls <- MCCalls
  Sigs <- MCSigs
  Sig <- MCSig
  ReadCalls <- MCRead
  DenyCalls <- MCDeny
  ConfirmCalls <- MCConfirm
  Replies <- MCReplies
  Requests <- MCRequests
  Sessions = {s1}
  PermIds = {p1, p2}
  Runs = {r1, r2}
  CircuitLimit = 2
  MaxRounds = 2
  MaxToolCallsPerRound = 2
  MaxTotalToolCalls = 2
  ChatToolCalls = 1
  MaxAiRetries = 1
  DiminishingReturnsThreshold = 1
  AutoAll = AutoAll
  None = None
INVARIANTS
  WorkIsBounded
  RepeatsAreCut
  StopsAfterAsking
PROPERTIES
  EngineUsesGuard
  EveryRunEnds
CHECK_DEADLOCK FALSE

SPECIFICATION EngineSpec
SYMMETRY Symmetry
CONSTANTS
  read = read
  write = write
  wipe = wipe
  Calls <- MCCalls
  Sigs <- MCSigs
  Sig <- MCSig
  ReadCalls <- MCRead
  DenyCalls <- MCDeny
  ConfirmCalls <- MCConfirm
  Replies <- MCRaceReplies
  Requests <- MCRequests
  Sessions = {s1, s2}
  PermIds = {p1, p2}
  Runs = {r1, r2, r3}
  CircuitLimit = 2
  MaxRounds = 1
  MaxToolCallsPerRound = 1
  MaxTotalToolCalls = 2
  ChatToolCalls = 1
  MaxAiRetries = 0
  DiminishingReturnsThreshold = 1
  AutoAll = AutoAll
  None = None
INVARIANTS
  EngineInv
  ResumedOnceAsApproved
  UnaskedWasCovered
CHECK_DEADLOCK FALSE

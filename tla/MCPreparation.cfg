SPECIFICATION PreparationSpec
SYMMETRY Symmetry
CONSTANTS
  Parts = {"rate", "intent", "history", "prompt"}
  Users = {u1}
  Limit = 2
  Window = 2
  MaxAsked = 6
  MaxTime = 6
  Sessions = {s1, s2}
  Runs = {r1, r2, r3}
  Keyworded <- KeywordedTexts
  Referring = {"again"}
  OtherTexts = {"poem"}
  Guesses <- TwoGuesses
  CacheTTL = 1
  MaxCache = 2
  MaxIdle = 2
  None = None
  MessageTexts = {"brief", "long"}
  Tokens <- TwoLengths
  Overhead = 1
  Budgets = {5, 8}
  MaxMessages = 6
  r1 = r1
  r2 = r2
  s1 = s1
  s2 = s2
  s3 = s3
  NoteSessions = {s1, s2, s3}
  Owner <- Owners
  NoteRuns = {r1, r2}
  MaxMilestones = 2
  MaxShown = 2
  MaxMemories = 1
  MaxKeep = 1
  MaxCalls = 1
  Nobody = Nobody
INVARIANTS
  LimitIsKept
  IntentsAreTheirs
  TrimKeepsTheEnd
  PromptIsCurrent
CHECK_DEADLOCK FALSE

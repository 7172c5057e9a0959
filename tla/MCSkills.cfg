SPECIFICATION SkillsSpec
SYMMETRY Symmetry
CONSTRAINT InsideInPairs
CONSTANTS
  Names <- TwoNames
  Packages <- TwoPackages
  Requests = {r1, r2, r3}
  Tools = {"list_files", "run_command"}
  Scores = {14, 15, 30}
  Threshold = 15
  None = None
  Bare = Bare
  Blank = Blank
INVARIANTS
  ViewIsFresh
  InstallAnswersTruly
  MatchPicksBest
CHECK_DEADLOCK FALSE

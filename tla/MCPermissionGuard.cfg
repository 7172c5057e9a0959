SPECIFICATION GuardSpec
CONSTANTS
  read = read
  write = write
  wipe = wipe
  Calls <- MCCalls
  Sigs <- MCSigs
  Sig <- MCSig
  ReadCalls <- MCRead
  DenyCalls <- MCDeny
  ConfirmCalls <- MCConfirm
  Sessions = {s1, s2}
  PermIds = {p1, p2, p3}
  Runs = {r1, r2}
  CircuitLimit = 2
  AutoAll = AutoAll
  None = None
SYMMETRY Symmetry
INVARIANTS
  AwaitingIsAnswerable
  AllowedWasApproved
  OvershootIsBounded
PROPERTIES
  ImplementsLifecycle
CHECK_DEADLOCK FALSE

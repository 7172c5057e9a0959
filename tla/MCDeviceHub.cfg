SPECIFICATION HubSpec
CONSTANTS
  Devices = {d1}
  Conns = {c1, c2, c3, c4}
  None = None
INVARIANTS
  ListedAreServed
  ConnectedAreListed
PROPERTIES
  ArrivalsAreServed
CHECK_DEADLOCK FALSE

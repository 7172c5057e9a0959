SPECIFICATION StreamSpec
CONSTANTS
  EventCap = 2
  OutCap = 2
  MaxTail = 2
  MaxProgress = 5
INVARIANTS
  LeftoversFit
PROPERTIES
  ForwarderIsNotLeaked
  ReaderIsServed
  ImplementsLossyStream
CHECK_DEADLOCK FALSE

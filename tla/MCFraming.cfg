SPECIFICATION FairSpec
CONSTANTS
  Base = 2
  LenBytes = 2
  Messages <- MCMessages
  MinMsgs = {0, 1}
  MaxMsg = 2
  MaxSent = 3
INVARIANTS
  TypeOK
  AllocationBounded
PROPERTIES
  StreamSpec
  EveryMessageArrives
CHECK_DEADLOCK FALSE

SPECIFICATION FairSpec
CONSTANTS
  MaxMessages = 3
  Batch = 2
  MaxFaults = 2
INVARIANTS
  TypeOK
  NothingLost
  InOrder
  OncePerLife
PROPERTIES
  AllHandled
CHECK_DEADLOCK FALSE

SPECIFICATION FairSpec
CONSTANTS
  Retries = 1
  MaxItems = 2
INVARIANTS
  TypeOK
  
  GoodTurnKept
PROPERTIES
  CallEnds
  ImplementsCall
CHECK_DEADLOCK FALSE

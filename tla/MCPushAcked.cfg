SPECIFICATION FairSpec
CONSTANTS
  Sessions = {s1}
  Existing = {s1}
  Texts = {x}
  Limit = 1
  MaxTime = 4
  MaxRequests = 1
  MaxFailures = 0
PROPERTIES
  FinalStateShown
CHECK_DEADLOCK FALSE

SPECIFICATION Spec
CONSTANTS
  Sessions = {s1, s2}
  Existing = {s1}
  Texts = {x}
  Limit = 1
  MaxTime = 5
  MaxRequests = 1
  MaxFailures = 1
INVARIANTS
  TypeOK
  RepeatsBounded
CHECK_DEADLOCK FALSE

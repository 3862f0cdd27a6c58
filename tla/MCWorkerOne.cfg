SPECIFICATION FairSpec
CONSTANTS
  MaxSessions = 1
  Conversations = {"chat"}
  ConvOf <- OneChat
  Notes = {n1}
  Threads = {t1, t2}
  Handlers = {h1}
  Actors = {t1, t2, h1}
  MaxTurns = 2
  MaxCodexFailures = 0
  MaxStops = 1
INVARIANTS
  TypeOK
  OneThreadPerSession
  SettlesUndisturbed
PROPERTIES
  StepsRunOut
  RunsEnd
  
CHECK_DEADLOCK FALSE

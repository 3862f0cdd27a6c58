SPECIFICATION Spec
CONSTANTS
  MaxSessions = 2
  Conversations = {"chat"}
  ConvOf <- OneChat
  Notes = {}
  Threads = {t1, t2}
  Handlers = {h1}
  Actors = {t1, t2, h1}
  MaxTurns = 1
  MaxCodexFailures = 0
  MaxStops = 0
PROPERTIES
  SupersedeSparesCompleted
CHECK_DEADLOCK FALSE

SPECIFICATION Spec
CONSTANTS
  MaxSessions = 2
  Conversations = {"chat"}
  ConvOf <- OneChat
  Notes = {}
  Threads = {t1}
  Handlers = {h1, h2}
  Actors = {t1, h1, h2}
  MaxTurns = 1
  MaxCodexFailures = 0
  MaxStops = 1
INVARIANTS
  
  TerminalLeavesMap
  NewestIsActive
CHECK_DEADLOCK FALSE

SPECIFICATION RestartSpec
CONSTANTS
  MaxSessions = 2
  Conversations = {"chat"}
  ConvOf <- OneChat
  Notes = {n1}
  Threads = {t1}
  Handlers = {h1}
  Actors = {t1, h1}
  MaxTurns = 1
  MaxCodexFailures = 0
  RecentLimit = 1
  MaxStops = 0
INVARIANTS
  
  NeverStuck
  

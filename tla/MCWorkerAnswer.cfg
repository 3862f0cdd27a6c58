SPECIFICATION FairSpec
CONSTANTS
  MaxSessions = 1
  Conversations = {"chat"}
  ConvOf <- OneChat
  Notes = {n1}
  Threads = {t1}
  Handlers = {h1}
  Actors = {t1, h1}
  MaxTurns = 1
  MaxCodexFailures = 0
  MaxStops = 0
PROPERTIES
  AnswersAreProcessed
CHECK_DEADLOCK FALSE

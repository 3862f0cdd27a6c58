SPECIFICATION Spec
CONSTANTS
  Goals = {"ask", "other"}
  PerGoal = 2
  MaxTurns = 2
  MaxNotes = 1
  MaxRevisions = 2
  MaxRestarts = 1
INVARIANTS
  TypeOK
  
  
  

  
CHECK_DEADLOCK FALSE

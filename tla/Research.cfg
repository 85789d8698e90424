CONSTANTS
  a = a  b = b
  Calls <- MCCalls
  MaxRuns = 2
  MaxObjs = 2
  Budget = 2
  MaxRestarts = 1
  Starts <- MCStarts
  Chunks = 1
  Cited = {1}
SPECIFICATION Spec
CHECK_DEADLOCK FALSE
SYMMETRY Symmetry
INVARIANTS
  TypeOK
  
  ViewFollowsRecord
  

  

CONSTANTS
  child = child  c = c  d = d
  Agents <- MCAgents
  Calls <- MCCalls
  MaxRuns = 3
  MaxSessions = 2
  Budget = 5
SPECIFICATION Spec
CHECK_DEADLOCK FALSE
INVARIANTS
  TypeOK
  
  InputsAreTaken
  ClosedIsStored
PROPERTIES
  JoinsEnd
  CancelledWaitsEnd

CONSTANTS
  c1 = c1  c2 = c2  s1 = s1  s2 = s2  p1 = p1  k1 = k1  k2 = k2
  None = None
  Calls <- MCCalls
  Steers <- MCSteers
  Prompts <- MCPrompts
  CodexTurn <- MCCodexTurn
  Uploads <- UploadedSteer
  MaxSteps = 2
  MaxPending = 2
SPECIFICATION Spec
CHECK_DEADLOCK FALSE
SYMMETRY Symmetry
INVARIANTS
  TypeOK
  
  SteeringLeavesAStep
  SteerStaysInItsTurn
  CompletedTurnSettlesItsSteers
  PromptHasItsTurn
PROPERTIES
  SteersKeepTheirOrder
  

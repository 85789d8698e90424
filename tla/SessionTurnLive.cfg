CONSTANTS
  c1 = c1  c2 = c2  s1 = s1  s2 = s2  p1 = p1  k1 = k1  k2 = k2
  None = None
  Calls <- MCCalls
  Steers <- OneSteer
  Prompts <- MCPrompts
  CodexTurn <- MCCodexTurn
  Uploads <- OneUploadedMessage
  MaxSteps = 2
  MaxPending = 2
SPECIFICATION FairSpec
CHECK_DEADLOCK FALSE
CONSTRAINT SingleThreadedTurns
PROPERTIES
  CancelledTurnEnds
  TurnEndsOrAsks

CONSTANTS
  Slots = {1, 2}
  MaxAttempts = 2
  MaxQueued = 2
  MaxOps = 3
SPECIFICATION Spec
CHECK_DEADLOCK FALSE
INVARIANTS
  TypeOK
  WaitingHasAHope
  WireFollowsCalls
  OneConnection
PROPERTIES
  QueuedEnds
  ReadySettles

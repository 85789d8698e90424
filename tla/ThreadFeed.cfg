CONSTANTS
  a = a  b = b
  Conns <- MCConns
  Prompts = {p}
  MaxEntries = 4
  MaxBuffer = 2
SPECIFICATION Spec
CHECK_DEADLOCK FALSE
SYMMETRY Symmetry
INVARIANTS
  TypeOK
  SubscriberMissesNothing
  PendingPromptIsAnswerable
  PromptPresentedOnce
  JournalIsThePast

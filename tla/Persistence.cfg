CONSTANT MaxChanges = 4
SPECIFICATION FairSpec
CHECK_DEADLOCK FALSE
INVARIANTS
  QuietMeansStored
  ResumeShowsTheTranscript
  CloseWaitsForItsFlush
PROPERTIES
  ChangeIsStoredOrTold
  DurableSpec

CONSTANTS
  a = a  b = b
  Calls <- MCCalls
  MaxRuns = 1
  MaxObjs = 2
  Budget = 1
  MaxRestarts = 0
  Starts <- MCStarts
  Chunks = 1
  Cited = {1}
SPECIFICATION Spec
CHECK_DEADLOCK FALSE
SYMMETRY Symmetry
PROPERTIES
  ReadsKeepNewerState

CONSTANTS
  o1 = o1  o2 = o2  o3 = o3  p1 = p1  p2 = p2  p3 = p3
  None = None
  Ops <- MCOps
  Processes <- MCProcesses
  ProcessOf <- MCProcessOf
  Bootstraps <- FirstOp
  MayCrash <- LastProcess
  LongWrites = FALSE
SPECIFICATION Spec
CHECK_DEADLOCK FALSE
INVARIANT MutualExclusion

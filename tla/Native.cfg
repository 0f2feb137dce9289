SPECIFICATION Spec
CONSTANTS
  NumThreads = 3
  Threads = {0, 1, 2}
  MainThread = 0
  Fibers = {f1, f2, f3, f4}
  None = None
  StackSizes = {3, 9}
  DefaultStack = 8
  PageSize = 4
SYMMETRY Symmetry
INVARIANTS
  StackExclusive
  JumpToSaved
  RunsItsFunction
  MaskRestored
  WorkersFit
CHECK_DEADLOCK FALSE

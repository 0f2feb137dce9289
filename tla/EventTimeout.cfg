SPECIFICATION Spec
CONSTANTS
  Threads = {t1, t2}
  NoThread = NoThread
  Milliseconds = 10
  Boot = 1000
  MaxClock = 1012
  MaxCalls = 1
INVARIANTS
  WaitsForTimeout
CHECK_DEADLOCK FALSE
